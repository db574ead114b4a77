------------------------ MODULE WorkerRegistryProofs ------------------------
(***************************************************************************)
(* Facts about the scheduler's arithmetic, for every worker and every job, *)
(* and about what it is told of the pool; then what the records of the     *)
(* work of the workers keep, whatever is retried, reaped or resubmitted.   *)
(***************************************************************************)
EXTENDS WorkerRegistry, FiniteSums
-----------------------------------------------------------------------------
(***************************************************************************)
(* The scheduler.                                                          *)
(***************************************************************************)
PoolWorker == [worker: Workers, profile: Profile, bench: Benchmark,
               output: Nat, inference: Nat, availableIn: Int]

\* One more job of a kind fits, after m of them were claimed.
TakesOneMore(a, isFinal, m) ==
  /\ a.output + a.inference + m < a.profile.maxWorkers
  /\ CanAcceptJob(a.profile,
                  a.output + IF isFinal THEN 0 ELSE m,
                  a.inference + IF isFinal THEN m ELSE 0, isFinal)

\* The free slots that ImmediateFreeSlots counts of a worker are exactly the
\* jobs of the kind that the claim handlers would hand it one after another.
THEOREM FreeSlotsAreThoseClaimed ==
  ASSUME NEW a \in PoolWorker, NEW isFinal \in BOOLEAN
  PROVE  /\ FreeSlots(a, isFinal) \in Nat
         /\ \A m \in Nat : m < FreeSlots(a, isFinal)
                             => TakesOneMore(a, isFinal, m)
         /\ ~TakesOneMore(a, isFinal, FreeSlots(a, isFinal))
<1> DEFINE p == a.profile
           o == a.output
           i == a.inference
<1>1. /\ p.maxWorkers \in Nat /\ p.outputSlots \in Nat
      /\ p.inferenceSlots \in Nat /\ p.exclusive \in BOOLEAN
      /\ o \in Nat /\ i \in Nat
  BY DEF PoolWorker, Profile
<1> HIDE DEF p, o, i
<1>2. CASE isFinal
  BY <1>1, <1>2 DEF FreeSlots, TakesOneMore, Accepting, CanAcceptJob,
                    HasJobSlotCapability, Larger, p, o, i
<1>3. CASE ~isFinal
  BY <1>1, <1>3 DEF FreeSlots, TakesOneMore, Accepting, CanAcceptJob,
                    HasJobSlotCapability, Larger, p, o, i
<1>4. QED  BY <1>2, <1>3

\* ComputeGPUScarcity and the claim rules agree on which workers have a
\* graphics processor for one more final job.
THEOREM ScarcityCountsTheAccepting ==
  ASSUME NEW a \in PoolWorker
  PROVE  FreeGpu(a) > 0 <=> a.bench.gpu > 0 /\ Accepting(a, TRUE)
<1> DEFINE gpu == a.bench.gpu
           left == Larger(0, a.profile.inferenceSlots - a.inference)
<1>1. /\ a.profile.inferenceSlots \in Nat /\ a.inference \in Nat
      /\ a.output \in Nat /\ gpu \in Nat
  BY DEF PoolWorker, Profile, Benchmark
<1>2. left \in Nat /\ (left > 0 <=> a.inference < a.profile.inferenceSlots)
  BY <1>1 DEF Larger
<1> HIDE DEF left, gpu
<1>3. gpu * left > 0 <=> gpu > 0 /\ left > 0
  <2>1. gpu \in Nat /\ left \in Nat  BY <1>1, <1>2
  <2>2. CASE gpu = 0 \/ left = 0  BY <2>1, <2>2
  <2>3. CASE gpu > 0 /\ left > 0  BY <2>1, <2>3
  <2>4. QED  BY <2>1, <2>2, <2>3
<1>4. FreeGpu(a) = IF \/ ~HasJobSlotCapability(a.profile, TRUE)
                      \/ a.profile.exclusive /\ a.output > 0
                   THEN 0 ELSE gpu * left
  BY DEF FreeGpu, gpu, left
<1>5. QED
  BY <1>1, <1>2, <1>3, <1>4
     DEF Accepting, CanAcceptJob, HasJobSlotCapability, gpu

\* A worker that EstimateRuntime finds feasible has the memory for such a
\* job in every one of its slots at once.
THEOREM FeasibleFitsEverySlot ==
  ASSUME NEW p \in Profile, NEW b \in Benchmark, NEW d \in Demand,
         Feasible(p, b, d)
  PROVE  d.ram * Slots(p) <= b.ram
<1> DEFINE n == Slots(p)
           q == b.ram \div n
<1>1. n \in Nat /\ n >= 1  BY DEF Slots, Larger, Profile
<1>2. b.ram \in Nat /\ d.ram \in Nat  BY DEF Benchmark, Demand
<1>3. d.ram <= q  BY DEF Feasible
<1> HIDE DEF n
<1>4. q \in Nat /\ q * n <= b.ram  BY <1>1, <1>2
<1> HIDE DEF q
<1>5. d.ram * n <= q * n  BY <1>1, <1>2, <1>3, <1>4
<1>6. QED  BY <1>1, <1>2, <1>4, <1>5 DEF n

\* Two pairs of worker and job are never each ranked before the other, and
\* none before itself.
THEOREM LessThanAsymmetric ==
  ASSUME NEW a \in Cost, NEW b \in Cost
  PROVE  ~(LessThan(a, b) /\ LessThan(b, a))
  BY DEF Cost, LessThan, Apart

Late(delay, created) ==
  [timeoutViolation |-> 0, finishDelay |-> delay, stress |-> 0, waste |-> 0,
   createdAt |-> created]

\* The rank is not the lexicographic order that its comment names: with the
\* tolerance, three pairs can each be ranked before the next in a circle.
THEOREM LessThanHasCycles ==
  \E a, b, c \in Cost : LessThan(a, b) /\ LessThan(b, c) /\ LessThan(c, a)
<1> DEFINE x == Late(120, 1)
           y == Late(60, 2)
           z == Late(0, 3)
<1>1. x \in Cost /\ y \in Cost /\ z \in Cost  BY DEF Cost, Late
<1>2. LessThan(x, y)  BY DEF LessThan, Apart, Late
<1>3. LessThan(y, z)  BY DEF LessThan, Apart, Late
<1>4. LessThan(z, x)  BY DEF LessThan, Apart, Late
<1> HIDE DEF x, y, z
<1>5. QED  BY <1>1, <1>2, <1>3, <1>4
-----------------------------------------------------------------------------
(***************************************************************************)
(* The types.  A request past its first step names a worker, and one that  *)
(* has a job an attempt of that worker at that job; so does what the reaper *)
(* has taken and has put back.                                             *)
(***************************************************************************)
HasJob == {"mark_running", "check", "mark", "count", "record", "delete"}

\* The attempt a is the worker w at the submission s.
AttemptOf(a, w, s) == a \in Attempts /\ events[a].worker = w /\ events[a].sub = s

RequestSound(x) ==
  /\ x.pc # "idle" => x.worker \in Workers
  /\ x.pc \in HasJob => x.sub \in Submissions /\ AttemptOf(x.attempt, x.worker, x.sub)
RequestsSound == \A h \in Handlers : RequestSound(req[h])
ClaimsSound ==
  \A s \in Submissions : claim[s] # NoClaim => AttemptOf(claim[s].attempt, claim[s].worker, s)
WatchSound ==
  /\ \A c \in watch.todo : AttemptOf(c.attempt, c.worker, c.sub)
  /\ watch.back # NoClaim =>
       /\ watch.back.attempt \in Attempts
       /\ events[watch.back.attempt].worker = watch.back.worker
       /\ events[watch.back.attempt].sub \in Submissions
TypeInv == TypeOK /\ RequestsSound /\ ClaimsSound /\ WatchSound

\* Claims and events are not what stands for their absence.
LEMMA SomeAreNone ==
  /\ \A c \in Claim : c # NoClaim /\ c.worker \in Workers /\ c.attempt \in Attempts
  /\ \A x \in Events : x # NoEvents /\ x.worker \in Workers /\ x.sub \in Submissions
  /\ NoClaim.worker = None /\ NoClaim.attempt = 0 /\ NoEvents.worker = None /\ NoEvents.sub = None
  /\ None \notin Workers /\ None \notin Submissions
BY RegistryAssumption DEF Claim, NoClaim, Events, NoEvents, Attempts

LEMMA IdleTyped == Idle \in Request /\ RequestSound(Idle)
BY RegistryAssumption DEF Idle, Request, RequestSound, HasJob

\* What is known of an attempt.
LEMMA AttemptKnown ==
  ASSUME TypeOK, NEW a, NEW w \in Workers, NEW s, AttemptOf(a, w, s)
  PROVE  events[a] \in Events
<1>1. a \in Attempts /\ events[a].worker # None
  BY RegistryAssumption DEF AttemptOf
<1>2. events[a] \in Events \cup {NoEvents}
  BY <1>1 DEF TypeOK
<1>3. QED
  BY <1>1, <1>2 DEF NoEvents

LEMMA InitTypes == Init => TypeInv
<1> SUFFICES ASSUME Init PROVE TypeInv
  OBVIOUS
<1>1. row \in [Workers -> Row]
  BY DEF Init, Row, NoRow
<1>2. /\ status \in [Submissions -> {"queued", "running", "done", "failed"}]
      /\ queue \in [Submissions -> Nat]
      /\ claim \in [Submissions -> Claim \cup {NoClaim}]
      /\ events \in [Attempts -> Events \cup {NoEvents}]
      /\ logs \in Seq(Log)
  BY HistoryAssumption DEF Init
<1>3. req \in [Handlers -> Request] /\ \A h \in Handlers : req[h] = Idle
  BY IdleTyped DEF Init
<1>4. watch = [todo |-> {}, back |-> NoClaim]
  BY DEF Init, WatchIdle
<1>5. \A h \in Handlers : req[h].pc = "idle"
  BY <1>3 DEF Idle
<1>6. watch \in [todo: SUBSET [sub: Submissions, worker: Workers, attempt: Attempts],
                 back: Claim \cup {NoClaim}]
  BY <1>4
<1>7. TypeOK
  BY <1>1, <1>2, <1>3, <1>5, <1>6 DEF TypeOK
<1>8. RequestsSound
  BY <1>3, IdleTyped DEF RequestsSound
<1>9. ClaimsSound /\ WatchSound
  BY <1>4 DEF Init, ClaimsSound, WatchSound
<1>10. QED
  BY <1>7, <1>8, <1>9 DEF TypeInv

\* An attempt stays the worker's at the submission.
EventsKept ==
  \A a \in Attempts : events[a] # NoEvents =>
    events'[a].worker = events[a].worker /\ events'[a].sub = events[a].sub
AttemptNext(a, w, s) == a \in Attempts /\ events'[a].worker = w /\ events'[a].sub = s

LEMMA AttemptsStay ==
  ASSUME EventsKept, NEW a, NEW w \in Workers, NEW s, AttemptOf(a, w, s)
  PROVE  AttemptNext(a, w, s) /\ AttemptOf(a, w, s)'
<1>1. events[a] # NoEvents
  BY SomeAreNone DEF AttemptOf
<1>2. QED
  BY <1>1 DEF EventsKept, AttemptOf, AttemptNext

LEMMA RequestsStay == ASSUME RequestsSound, EventsKept, UNCHANGED req PROVE RequestsSound'
<1>1. ASSUME NEW h \in Handlers PROVE RequestSound(req[h])'
  <2>1. PICK x : x = req[h]
    OBVIOUS
  <2>2. RequestSound(x)
    BY <2>1 DEF RequestsSound
  <2>3. x.pc \in HasJob => x.worker \in Workers /\ AttemptOf(x.attempt, x.worker, x.sub)
    BY <2>2 DEF RequestSound, HasJob
  <2>4. x.pc \in HasJob => AttemptOf(x.attempt, x.worker, x.sub)'
    BY <2>3, AttemptsStay
  <2>5. RequestSound(x)'
    BY <2>2, <2>4 DEF RequestSound
  <2>6. QED
    BY <2>1, <2>5 DEF RequestSound, AttemptOf
<1>2. QED
  BY <1>1 DEF RequestsSound

LEMMA ClaimsStay == ASSUME ClaimsSound, EventsKept, UNCHANGED claim, TypeOK PROVE ClaimsSound'
<1>1. ASSUME NEW s \in Submissions, claim[s] # NoClaim
      PROVE  AttemptOf(claim[s].attempt, claim[s].worker, s)'
  <2>1. PICK c : c = claim[s]
    OBVIOUS
  <2>2. c \in Claim
    BY <1>1, <2>1 DEF TypeOK
  <2>3. AttemptOf(c.attempt, c.worker, s) /\ c.worker \in Workers
    BY <1>1, <2>1, <2>2 DEF ClaimsSound, Claim
  <2>4. AttemptOf(c.attempt, c.worker, s)'
    BY <2>3, AttemptsStay
  <2>5. QED
    BY <2>1, <2>4 DEF AttemptOf
<1>2. QED
  BY <1>1 DEF ClaimsSound, AttemptOf

LEMMA WatchStays == ASSUME WatchSound, EventsKept, UNCHANGED watch, TypeOK PROVE WatchSound'
<1>1. ASSUME NEW c \in watch.todo PROVE AttemptOf(c.attempt, c.worker, c.sub)'
  <2>1. c.worker \in Workers
    BY DEF TypeOK
  <2>2. AttemptOf(c.attempt, c.worker, c.sub)
    BY DEF WatchSound
  <2>3. QED
    BY <2>1, <2>2, AttemptsStay
<1>2. watch.back # NoClaim => events[watch.back.attempt] # NoEvents
  <2>1. watch.back \in Claim \cup {NoClaim}
    BY DEF TypeOK
  <2>2. QED
    BY <2>1, SomeAreNone DEF WatchSound
<1>3. QED
  BY <1>1, <1>2 DEF WatchSound, EventsKept, AttemptOf

\* A request whose slot takes a new value.
LEMMA RequestMoves ==
  ASSUME TypeInv, NEW h \in Handlers, NEW x \in Request, req' = [req EXCEPT ![h] = x],
         x.pc = "idle" <=> x = Idle, EventsKept,
         x.pc # "idle" => x.worker \in Workers,
         x.pc \in HasJob => x.sub \in Submissions /\ AttemptNext(x.attempt, x.worker, x.sub)
  PROVE  /\ req' \in [Handlers -> Request]
         /\ \A g \in Handlers : req'[g].pc = "idle" <=> req'[g] = Idle
         /\ RequestsSound'
<1>1. req \in [Handlers -> Request] /\ \A g \in Handlers : req[g].pc = "idle" <=> req[g] = Idle
  BY DEF TypeInv, TypeOK
<1>2. req' \in [Handlers -> Request] /\ \A g \in Handlers : req'[g] = IF g = h THEN x ELSE req[g]
  BY <1>1
<1>3. RequestSound(x)'
  BY DEF RequestSound, AttemptNext, AttemptOf
<1>4. ASSUME NEW g \in Handlers, g # h PROVE RequestSound(req[g])'
  <2>1. PICK y : y = req[g]
    OBVIOUS
  <2>2. RequestSound(y)
    BY <2>1 DEF TypeInv, RequestsSound
  <2>3. y.pc \in HasJob => y.worker \in Workers /\ AttemptOf(y.attempt, y.worker, y.sub)
    BY <2>2 DEF RequestSound, HasJob
  <2>4. y.pc \in HasJob => AttemptOf(y.attempt, y.worker, y.sub)'
    BY <2>3, AttemptsStay
  <2>5. RequestSound(y)'
    BY <2>2, <2>4 DEF RequestSound
  <2>6. req'[g] = y
    BY <1>2, <1>4, <2>1
  <2>7. QED
    BY <2>5, <2>6 DEF RequestSound, AttemptOf
<1>5. QED
  BY <1>1, <1>2, <1>3, <1>4 DEF RequestsSound, RequestSound, AttemptOf
-----------------------------------------------------------------------------
\* The demand of a job but for the memory it was observed to use.
Known(d) == /\ d.isFinal \in BOOLEAN /\ d.cpuOps \in Nat /\ d.gpuOps \in Nat
            /\ d.unzip \in Nat /\ d.network \in Nat

LEMMA QuotientTyped == \A a, b \in Nat : SafeDivide(a, b) \in Nat
BY DEF SafeDivide

LEMMA RuntimeTyped ==
  ASSUME NEW p \in Profile, NEW b \in Benchmark, NEW d, Known(d)
  PROVE  EstimateRuntime(p, b, d) \in Nat
<1>1. Slots(p) \in Nat
  BY DEF Slots, Larger, Profile
<1> DEFINE n == Slots(p)
<1> HIDE DEF n
<1>2. /\ b.cpu \in Nat /\ b.gpu \in Nat /\ b.unzip \in Nat /\ b.diskWrite \in Nat
      /\ b.download \in Nat /\ b.docker \in Nat
  BY DEF Benchmark
<1>3. d.unzip * n \in Nat /\ d.cpuOps * n \in Nat
  BY <1>1 DEF Known, n
<1>4. SetupTime(p, b, d) \in Nat
  <2>1. /\ SafeDivide(d.network, b.download) \in Nat
        /\ SafeDivide(d.unzip * n, b.unzip) \in Nat
        /\ SafeDivide(d.unzip * n, b.diskWrite) \in Nat
    BY <1>2, <1>3, QuotientTyped DEF Known
  <2>2. QED
    BY <1>2, <2>1 DEF SetupTime, Larger, n
<1>5. SafeDivide(d.cpuOps * n, b.cpu) \in Nat /\ SafeDivide(d.gpuOps, b.gpu) \in Nat
  BY <1>2, <1>3, QuotientTyped DEF Known
<1>6. CpuTime(p, b, d) \in Nat /\ GpuTime(p, b, d) \in Nat
  BY <1>4, <1>5 DEF CpuTime, GpuTime, n
<1>7. QED
  BY <1>6 DEF EstimateRuntime

\* The observed memory changes nothing else of the demand.
LEMMA ObservedKnown ==
  ASSUME NEW s \in Submissions
  PROVE  Known(ObservedDemand(s)) /\ (ObservedDemand(s).isFinal <=> s \in FinalSubs)
<1>1. PICK e, n, ram : /\ e = EstimateJobDemand(s \in FinalSubs, BytesOf[s])
                       /\ ObservedDemand(s) = ApplyObservedResourceProfile(e, n, ram, 0)
  BY DEF ObservedDemand
<1>2. e \in Demand /\ (e.isFinal <=> s \in FinalSubs)
  <2>1. BytesOf[s] \in Nat /\ OutputDemand \in Demand /\ FinalDemand \in Demand
    BY RegistryAssumption, DemandAssumption
  <2>2. CASE s \in FinalSubs
    BY <1>1, <2>1, <2>2, DemandAssumption DEF EstimateJobDemand, Demand
  <2>3. CASE s \notin FinalSubs
    BY <1>1, <2>1, <2>3, DemandAssumption DEF EstimateJobDemand, Demand
  <2>4. QED
    BY <2>2, <2>3
<1> DEFINE d == ApplyObservedResourceProfile(e, n, ram, 0)
<1>3. /\ d.isFinal = e.isFinal /\ d.cpuOps = e.cpuOps /\ d.gpuOps = e.gpuOps
      /\ d.unzip = e.unzip /\ d.network = e.network
  BY <1>2 DEF ApplyObservedResourceProfile, Demand
<1> HIDE DEF d
<1>4. Known(d) /\ (d.isFinal <=> s \in FinalSubs)
  BY <1>2, <1>3 DEF Known, Demand
<1>5. QED
  BY <1>1, <1>4 DEF d

LEMMA PredictionTyped ==
  ASSUME NEW w \in Workers, NEW s \in Submissions
  PROVE  PredictedRuntime(w, s) \in Nat
BY RegistryAssumption, ObservedKnown, RuntimeTyped DEF PredictedRuntime
-----------------------------------------------------------------------------
WatchTypes == [todo: SUBSET [sub: Submissions, worker: Workers, attempt: Attempts],
               back: Claim \cup {NoClaim}]

LEMMA Replies ==
  ASSUME TypeInv, NEW h \in Handlers, Reply(h), EventsKept
  PROVE  /\ req' \in [Handlers -> Request]
         /\ \A g \in Handlers : req'[g].pc = "idle" <=> req'[g] = Idle
         /\ RequestsSound'
<1>1. Idle.pc = "idle"
  BY DEF Idle
<1>2. QED
  BY <1>1, IdleTyped, RequestMoves DEF Reply, HasJob

\* A request goes on with the same job.
LEMMA Goes ==
  ASSUME TypeInv, NEW h \in Handlers, NEW pc \in HasJob, req[h].pc \in HasJob, Goto(h, pc), EventsKept
  PROVE  /\ req' \in [Handlers -> Request]
         /\ \A g \in Handlers : req'[g].pc = "idle" <=> req'[g] = Idle
         /\ RequestsSound'
<1> DEFINE x == [req[h] EXCEPT !.pc = pc]
<1>1. req[h] \in Request /\ RequestSound(req[h])
  BY DEF TypeInv, TypeOK, RequestsSound
<1>2. req' = [req EXCEPT ![h] = x]
  BY DEF Goto
<1>3. /\ x \in Request /\ x.pc = pc /\ x.worker = req[h].worker /\ x.sub = req[h].sub
      /\ x.attempt = req[h].attempt
  BY <1>1 DEF Request, HasJob
<1>4. x # Idle
  BY <1>3 DEF Idle, HasJob
<1> HIDE DEF x
<1>5. x.worker \in Workers /\ x.sub \in Submissions /\ AttemptOf(x.attempt, x.worker, x.sub)
  BY <1>1, <1>3 DEF RequestSound, HasJob
<1>6. AttemptNext(x.attempt, x.worker, x.sub)
  BY <1>5, AttemptsStay
<1>7. x.pc # "idle"
  BY <1>3 DEF HasJob
<1>8. QED
  BY <1>2, <1>3, <1>4, <1>5, <1>6, <1>7, RequestMoves

\* Claims that are deleted leave the others as they are.
LEMMA ClaimsLeave ==
  ASSUME TypeInv, NEW D, claim' = [s \in Submissions |-> IF s \in D THEN NoClaim ELSE claim[s]],
         EventsKept
  PROVE  claim' \in [Submissions -> Claim \cup {NoClaim}] /\ ClaimsSound'
<1>1. claim' \in [Submissions -> Claim \cup {NoClaim}]
  BY DEF TypeInv, TypeOK
<1>2. ASSUME NEW s \in Submissions, claim'[s] # NoClaim
      PROVE  AttemptOf(claim[s].attempt, claim[s].worker, s)'
  <2>1. PICK c : c = claim[s]
    OBVIOUS
  <2>2. claim'[s] = c /\ c \in Claim
    BY <1>2, <2>1 DEF TypeInv, TypeOK
  <2>3. AttemptOf(c.attempt, c.worker, s) /\ c.worker \in Workers
    BY <1>2, <2>1, <2>2 DEF TypeInv, ClaimsSound, Claim
  <2>4. AttemptOf(c.attempt, c.worker, s)'
    BY <2>3, AttemptsStay
  <2>5. QED
    BY <2>2, <2>4 DEF AttemptOf
<1>3. QED
  BY <1>1, <1>2 DEF ClaimsSound

LEMMA SameEvents == UNCHANGED events => EventsKept
BY DEF EventsKept

RowStep(w) == Register(w) \/ AdminApprove(w) \/ AdminReject(w) \/ AdminDelete(w)
LEMMA RowTypes ==
  ASSUME TypeInv, NEW w \in Workers, RowStep(w)
  PROVE  TypeInv'
<1>1. row \in [Workers -> Row] /\ claim \in [Submissions -> Claim \cup {NoClaim}]
  BY DEF TypeInv, TypeOK
<1>2. UNCHANGED <<status, queue, events, logs, req, watch>>
  BY DEF RowStep, Register, AdminApprove, AdminReject, AdminDelete
<1>3. row' \in [Workers -> Row]
  <2>1. row[w] \in Row /\ NoRow \in Row
    BY <1>1 DEF Row, NoRow
  <2>2. CASE Register(w)
    BY <1>1, <2>1, <2>2 DEF Register, Row
  <2>3. CASE AdminApprove(w)
    <3>1. row[w].token + 1 \in Nat
      BY <2>1 DEF Row
    <3>2. row' = [row EXCEPT ![w] = [status |-> "active", token |-> row[w].token + 1,
                                    completed |-> row[w].completed, failed |-> row[w].failed]]
      BY <1>1, <2>1, <2>3 DEF AdminApprove, Row
    <3>3. QED
      BY <1>1, <2>1, <3>1, <3>2 DEF Row
  <2>4. CASE AdminReject(w)
    BY <1>1, <2>1, <2>4 DEF AdminReject, Row
  <2>5. CASE AdminDelete(w)
    BY <1>1, <2>1, <2>5 DEF AdminDelete, Row
  <2>6. QED
    BY <2>2, <2>3, <2>4, <2>5 DEF RowStep
<1>4. claim' \in [Submissions -> Claim \cup {NoClaim}] /\ ClaimsSound'
  <2>1. CASE UNCHANGED claim
    BY <1>1, <1>2, <2>1, ClaimsStay, SameEvents DEF TypeInv
  <2>2. CASE AdminDelete(w)
    <3>1. claim' = [s \in Submissions |-> IF s \in ClaimsOf(w) THEN NoClaim ELSE claim[s]]
      BY <2>2 DEF AdminDelete, ClaimsOf
    <3>2. QED
      BY <1>2, <3>1, ClaimsLeave, SameEvents
  <2>3. QED
    BY <2>1, <2>2 DEF RowStep, Register, AdminApprove, AdminReject
<1>5. TypeOK'
  BY <1>2, <1>3, <1>4 DEF TypeInv, TypeOK
<1>6. RequestsSound' /\ WatchSound'
  BY <1>2, SameEvents, RequestsStay, WatchStays DEF TypeInv
<1>7. QED
  BY <1>4, <1>5, <1>6 DEF TypeInv
-----------------------------------------------------------------------------
PollStep(h) == FetchWorker(h) \/ Dispatch(h) \/ NoJob(h) \/ MarkRunning(h)
               \/ \E w \in Workers : ClaimNext(h, w)

LEMMA LeastUnused == Unused # {} => Min(Unused) \in Unused
<1>1. Unused \subseteq Nat
  BY RegistryAssumption DEF Unused, Attempts
<1>2. QED
  BY <1>1, LeastOf

LEMMA FetchTypes ==
  ASSUME TypeInv, NEW h \in Handlers, FetchWorker(h) \/ NoJob(h) \/ \E w \in Workers : ClaimNext(h, w)
  PROVE  TypeInv'
<1>1. UNCHANGED <<row, status, queue, claim, events, logs, watch>>
  BY DEF FetchWorker, NoJob, ClaimNext
<1>2. /\ req' \in [Handlers -> Request]
      /\ \A g \in Handlers : req'[g].pc = "idle" <=> req'[g] = Idle
      /\ RequestsSound'
  <2>1. CASE Reply(h)
    BY <1>1, <2>1, SameEvents, Replies
  <2>2. ASSUME NEW w \in Workers, ClaimNext(h, w)
        PROVE  /\ req' \in [Handlers -> Request]
               /\ \A g \in Handlers : req'[g].pc = "idle" <=> req'[g] = Idle
               /\ RequestsSound'
    <3> DEFINE x == [Idle EXCEPT !.pc = "fetch", !.worker = w, !.token = row[w].token]
    <3>1. req' = [req EXCEPT ![h] = x]
      BY <2>2 DEF ClaimNext
    <3>2. row[w].token \in Nat
      BY DEF TypeInv, TypeOK, Row
    <3>3. x \in Request /\ x.pc = "fetch" /\ x.worker = w /\ x # Idle
      BY <3>2, IdleTyped DEF Idle, Request
    <3> HIDE DEF x
    <3>4. x.pc # "idle" /\ x.pc \notin HasJob
      BY <3>3 DEF HasJob
    <3>5. QED
      BY <1>1, <3>1, <3>3, <3>4, SameEvents, RequestMoves
  <2>3. ASSUME NEW kinds \in SUBSET BOOLEAN, req[h].pc = "fetch",
               req' = [req EXCEPT ![h].pc = "dispatch", ![h].kinds = kinds]
        PROVE  /\ req' \in [Handlers -> Request]
               /\ \A g \in Handlers : req'[g].pc = "idle" <=> req'[g] = Idle
               /\ RequestsSound'
    <3> DEFINE x == [req[h] EXCEPT !.pc = "dispatch", !.kinds = kinds]
    <3>1. req' = [req EXCEPT ![h] = x]
      BY <2>3
    <3>2. req[h] \in Request /\ RequestSound(req[h])
      BY DEF TypeInv, TypeOK, RequestsSound
    <3>3. x \in Request /\ x.pc = "dispatch" /\ x.worker = req[h].worker
      BY <2>3, <3>2 DEF Request
    <3>4. x # Idle
      BY <3>3 DEF Idle
    <3>5. req[h].worker \in Workers
      BY <2>3, <3>2 DEF RequestSound
    <3> HIDE DEF x
    <3>6. x.pc # "idle" /\ x.pc \notin HasJob
      BY <3>3 DEF HasJob
    <3>7. QED
      BY <1>1, <3>1, <3>3, <3>4, <3>5, <3>6, SameEvents, RequestMoves
  <2>4. CASE FetchWorker(h)
    <3>1. PICK kinds \in SUBSET BOOLEAN :
            req' = [req EXCEPT ![h].pc = "dispatch", ![h].kinds = kinds] \/ Reply(h)
      BY <2>4 DEF FetchWorker
    <3>2. req[h].pc = "fetch"
      BY <2>4 DEF FetchWorker
    <3>3. QED
      BY <2>1, <2>3, <3>1, <3>2
  <2>5. QED
    BY <2>1, <2>2, <2>4 DEF NoJob
<1>3. TypeOK'
  BY <1>1, <1>2 DEF TypeInv, TypeOK
<1>4. ClaimsSound' /\ WatchSound'
  BY <1>1, SameEvents, ClaimsStay, WatchStays DEF TypeInv
<1>5. QED
  BY <1>2, <1>3, <1>4 DEF TypeInv

\* A poll that gets a job: an entry of s becomes the attempt a.
Claims(h, s, a) ==
  /\ queue[s] > 0 /\ claim[s] = NoClaim /\ req[h].worker \in Workers
  /\ a \in Attempts /\ events[a] = NoEvents /\ req[h].pc = "dispatch"
  /\ queue' = [queue EXCEPT ![s] = queue[s] - 1]
  /\ claim' = [claim EXCEPT ![s] = [worker |-> req[h].worker, attempt |-> a]]
  /\ events' = [events EXCEPT ![a] = [worker |-> req[h].worker, sub |-> s, done |-> 0,
                                     failed |-> 0, requeued |-> 0]]
  /\ req' = [req EXCEPT ![h] = [pc |-> "mark_running", worker |-> req[h].worker,
                                token |-> req[h].token, sub |-> s, attempt |-> a, kinds |-> {}]]

\* The records that a poll writes, field by field.
LEMMA WrittenOut ==
  ASSUME NEW y \in Request, NEW w, NEW s, NEW a
  PROVE  /\ [y EXCEPT !.pc = "mark_running", !.sub = s, !.attempt = a, !.kinds = {}]
              = [pc |-> "mark_running", worker |-> y.worker, token |-> y.token, sub |-> s,
                 attempt |-> a, kinds |-> {}]
         /\ [NoEvents EXCEPT !.worker = w, !.sub = s]
              = [worker |-> w, sub |-> s, done |-> 0, failed |-> 0, requeued |-> 0]
<1>1. y = [pc |-> y.pc, worker |-> y.worker, token |-> y.token, sub |-> y.sub,
           attempt |-> y.attempt, kinds |-> y.kinds]
  BY DEF Request
<1>2. [y EXCEPT !.pc = "mark_running", !.sub = s, !.attempt = a, !.kinds = {}]
        = [pc |-> "mark_running", worker |-> y.worker, token |-> y.token, sub |-> s,
           attempt |-> a, kinds |-> {}]
  <2> DEFINE z == [y EXCEPT !.pc = "mark_running", !.sub = s, !.attempt = a, !.kinds = {}]
  <2>1. DOMAIN z = {"pc", "worker", "token", "sub", "attempt", "kinds"}
    BY <1>1
  <2>2. /\ z.pc = "mark_running" /\ z.worker = y.worker /\ z.token = y.token /\ z.sub = s
        /\ z.attempt = a /\ z.kinds = {}
    BY <1>1
  <2>3. z = [i \in DOMAIN z |-> z[i]]
    OBVIOUS
  <2> HIDE DEF z
  <2>4. z = [pc |-> "mark_running", worker |-> y.worker, token |-> y.token, sub |-> s,
             attempt |-> a, kinds |-> {}]
    BY <2>1, <2>2, <2>3
  <2>5. QED
    BY <2>4 DEF z
<1>3. [NoEvents EXCEPT !.worker = w, !.sub = s]
        = [worker |-> w, sub |-> s, done |-> 0, failed |-> 0, requeued |-> 0]
  <2> DEFINE z == [NoEvents EXCEPT !.worker = w, !.sub = s]
  <2>1. DOMAIN z = {"worker", "sub", "done", "failed", "requeued"}
    BY DEF NoEvents
  <2>2. z.worker = w /\ z.sub = s /\ z.done = 0 /\ z.failed = 0 /\ z.requeued = 0
    BY DEF NoEvents
  <2>3. z = [i \in DOMAIN z |-> z[i]]
    OBVIOUS
  <2> HIDE DEF z
  <2>4. z = [worker |-> w, sub |-> s, done |-> 0, failed |-> 0, requeued |-> 0]
    BY <2>1, <2>2, <2>3
  <2>5. QED
    BY <2>4 DEF z
<1>4. QED
  BY <1>2, <1>3

LEMMA DispatchCases ==
  ASSUME TypeInv, NEW h \in Handlers, Dispatch(h)
  PROVE  \/ Reply(h) /\ UNCHANGED <<queue, claim, events>>
         \/ \E s \in Submissions, a \in Attempts : Claims(h, s, a)
<1>1. req[h].pc = "dispatch" /\ req[h].worker \in Workers /\ req[h] \in Request
      /\ DOMAIN req = Handlers
  BY DEF Dispatch, TypeInv, TypeOK, RequestsSound, RequestSound
<1>2. CASE Reply(h) /\ UNCHANGED <<queue, claim, events>>
  BY <1>2
<1>3. ASSUME NEW s \in Waiting(h), NEW a, a = Min(Unused),
             /\ ~Claimed(s) /\ Unused # {}
             /\ queue' = [queue EXCEPT ![s] = @ - 1]
             /\ claim' = [claim EXCEPT ![s] = [worker |-> req[h].worker, attempt |-> a]]
             /\ events' = [events EXCEPT ![a] = [NoEvents EXCEPT !.worker = req[h].worker, !.sub = s]]
             /\ req' = [req EXCEPT ![h].pc = "mark_running", ![h].sub = s,
                                   ![h].attempt = a, ![h].kinds = {}]
      PROVE  \E t \in Submissions, c \in Attempts : Claims(h, t, c)
  <2>1. a \in Attempts /\ events[a] = NoEvents
    BY <1>3, LeastUnused DEF Unused
  <2>2. s \in Submissions /\ queue[s] > 0 /\ claim[s] = NoClaim
    BY <1>3 DEF Waiting, Claimed
  <2>3. [NoEvents EXCEPT !.worker = req[h].worker, !.sub = s]
          = [worker |-> req[h].worker, sub |-> s, done |-> 0, failed |-> 0, requeued |-> 0]
    BY <1>1, WrittenOut
  <2>4. req' = [req EXCEPT ![h] = [pc |-> "mark_running", worker |-> req[h].worker,
                                  token |-> req[h].token, sub |-> s, attempt |-> a, kinds |-> {}]]
    <3>0. PICK y \in Request : y = req[h]
      BY <1>1
    <3> DEFINE x == [y EXCEPT !.pc = "mark_running", !.sub = s, !.attempt = a, !.kinds = {}]
    <3>1. req' = [req EXCEPT ![h] = x]
      BY <1>1, <1>3, <3>0
    <3>2. x = [pc |-> "mark_running", worker |-> y.worker, token |-> y.token, sub |-> s,
               attempt |-> a, kinds |-> {}]
      BY WrittenOut
    <3> HIDE DEF x
    <3>3. QED
      BY <3>0, <3>1, <3>2
  <2>5. Claims(h, s, a)
    BY <1>1, <1>3, <2>1, <2>2, <2>3, <2>4 DEF Claims
  <2>6. QED
    BY <2>1, <2>2, <2>5
<1>4. QED
  BY <1>2, <1>3 DEF Dispatch

LEMMA DispatchTypes ==
  ASSUME TypeInv, NEW h \in Handlers, Dispatch(h)
  PROVE  TypeInv'
<1>1. UNCHANGED <<row, status, logs, watch>>
  BY DEF Dispatch
<1>2. CASE Reply(h) /\ UNCHANGED <<queue, claim, events>>
  <2>1. EventsKept
    BY <1>2, SameEvents
  <2>2. /\ req' \in [Handlers -> Request]
        /\ \A g \in Handlers : req'[g].pc = "idle" <=> req'[g] = Idle
        /\ RequestsSound'
    BY <1>2, <2>1, Replies
  <2>3. TypeOK'
    BY <1>1, <1>2, <2>2 DEF TypeInv, TypeOK
  <2>4. QED
    BY <1>1, <1>2, <2>1, <2>2, <2>3, ClaimsStay, WatchStays DEF TypeInv
<1>3. ASSUME NEW s \in Submissions, NEW a \in Attempts, Claims(h, s, a)
      PROVE  TypeInv'
  <2> DEFINE w == req[h].worker
             c == [worker |-> w, attempt |-> a]
             v == [worker |-> w, sub |-> s, done |-> 0, failed |-> 0, requeued |-> 0]
             x == [pc |-> "mark_running", worker |-> w, token |-> req[h].token,
                   sub |-> s, attempt |-> a, kinds |-> {}]
  <2>1. w \in Workers /\ events[a] = NoEvents /\ queue[s] > 0
    BY <1>3 DEF Claims
  <2>2. c \in Claim /\ v \in Events
    BY <2>1 DEF Claim, Events
  <2>3. queue' \in [Submissions -> Nat]
    <3>1. queue \in [Submissions -> Nat] /\ queue' = [queue EXCEPT ![s] = queue[s] - 1]
      BY <1>3 DEF Claims, TypeInv, TypeOK
    <3>2. queue[s] - 1 \in Nat
      BY <2>1, <3>1
    <3>3. QED
      BY <3>1, <3>2
  <2>4. claim' = [claim EXCEPT ![s] = c] /\ events' = [events EXCEPT ![a] = v]
        /\ req' = [req EXCEPT ![h] = x]
    BY <1>3 DEF Claims
  <2>5. /\ claim \in [Submissions -> Claim \cup {NoClaim}]
        /\ events \in [Attempts -> Events \cup {NoEvents}]
    BY DEF TypeInv, TypeOK
  <2>6. /\ claim' \in [Submissions -> Claim \cup {NoClaim}]
        /\ events' \in [Attempts -> Events \cup {NoEvents}]
    BY <2>2, <2>4, <2>5
  <2>7. EventsKept
    BY <2>1, <2>4, <2>5 DEF EventsKept
  <2>8. AttemptNext(a, w, s) /\ AttemptOf(a, w, s)'
    BY <2>4, <2>5 DEF AttemptNext, AttemptOf
  <2>9. x \in Request /\ x # Idle
    <3>1. req[h] \in Request /\ x.pc # Idle.pc
      BY DEF TypeInv, TypeOK, Idle
    <3>2. QED
      BY <2>1, <3>1, RegistryAssumption DEF Request, Attempts
  <2>10. x.pc # "idle" /\ x.worker = w /\ x.sub = s /\ x.attempt = a
    OBVIOUS
  <2>11. /\ req' \in [Handlers -> Request]
         /\ \A g \in Handlers : req'[g].pc = "idle" <=> req'[g] = Idle
         /\ RequestsSound'
    <3> HIDE DEF x, w
    <3> QED  BY <2>1, <2>4, <2>7, <2>8, <2>9, <2>10, RequestMoves
  <2>12. TypeOK'
    BY <1>1, <2>3, <2>6, <2>11 DEF TypeInv, TypeOK
  <2>13. ClaimsSound'
    <3>1. ASSUME NEW t \in Submissions, claim'[t] # NoClaim
          PROVE  AttemptOf(claim[t].attempt, claim[t].worker, t)'
      <4>1. CASE t = s
        <5>1. claim'[t].attempt = a /\ claim'[t].worker = w
          BY <2>4, <2>5, <4>1
        <5>2. AttemptOf(claim[t].attempt, claim[t].worker, t)'
          BY <2>8, <4>1, <5>1 DEF AttemptOf, AttemptNext
        <5>3. QED
          BY <5>2
      <4>2. CASE t # s
        <5>1. PICK d : d = claim[t]
          OBVIOUS
        <5>2. claim'[t] = d
          BY <2>4, <2>5, <4>2, <5>1
        <5>3. d \in Claim /\ AttemptOf(d.attempt, d.worker, t)
          BY <2>5, <3>1, <5>1, <5>2 DEF TypeInv, ClaimsSound
        <5>4. AttemptOf(d.attempt, d.worker, t)'
          BY <2>7, <5>3, SomeAreNone, AttemptsStay
        <5>5. QED
          BY <5>2, <5>4 DEF AttemptOf
      <4>3. QED
        BY <4>1, <4>2
    <3>2. QED
      BY <3>1 DEF ClaimsSound
  <2>14. WatchSound'
    BY <1>1, <2>7, WatchStays DEF TypeInv
  <2>15. QED
    BY <2>11, <2>12, <2>13, <2>14 DEF TypeInv
<1>4. QED
  BY <1>2, <1>3, DispatchCases
-----------------------------------------------------------------------------
\* A counter of an attempt's events goes up.
LEMMA EventCounted ==
  ASSUME TypeInv, NEW a \in Attempts, events[a] # NoEvents,
         \/ events' = [events EXCEPT ![a].done = @ + 1]
         \/ events' = [events EXCEPT ![a].failed = @ + 1]
         \/ events' = [events EXCEPT ![a].requeued = @ + 1]
  PROVE  /\ events' \in [Attempts -> Events \cup {NoEvents}] /\ EventsKept
         /\ \A b \in Attempts : b # a => events'[b] = events[b]
         /\ events'[a] \in Events /\ events[a] \in Events
<1>1. events \in [Attempts -> Events \cup {NoEvents}] /\ events[a] \in Events
  BY DEF TypeInv, TypeOK
<1> DEFINE v == events'[a]
<1>2. events' = [events EXCEPT ![a] = v]
  BY <1>1
<1>3. v \in Events /\ v.worker = events[a].worker /\ v.sub = events[a].sub
  BY <1>1 DEF Events
<1> HIDE DEF v
<1>4. events' \in [Attempts -> Events \cup {NoEvents}]
      /\ \A b \in Attempts : events'[b] = IF b = a THEN v ELSE events[b]
  BY <1>1, <1>2, <1>3
<1>5. EventsKept
  BY <1>3, <1>4 DEF EventsKept
<1>6. QED
  BY <1>1, <1>3, <1>4, <1>5

\* A counter of a worker's row goes up.
LEMMA RowCounted ==
  ASSUME row \in [Workers -> Row], NEW w \in Workers,
         \/ row' = [row EXCEPT ![w].completed = @ + 1]
         \/ row' = [row EXCEPT ![w].failed = @ + 1]
  PROVE  row' \in [Workers -> Row]
<1>1. row[w] \in Row
  OBVIOUS
<1> DEFINE v == row'[w]
<1>2. row' = [row EXCEPT ![w] = v]
  OBVIOUS
<1>3. v \in Row
  BY <1>1 DEF Row
<1> HIDE DEF v
<1>4. QED
  BY <1>2, <1>3

\* A job of a request is an attempt with events.
LEMMA JobOf ==
  ASSUME TypeInv, NEW h \in Handlers, req[h].pc \in HasJob
  PROVE  /\ req[h].worker \in Workers /\ req[h].sub \in Submissions /\ req[h].attempt \in Attempts
         /\ AttemptOf(req[h].attempt, req[h].worker, req[h].sub)
         /\ events[req[h].attempt] \in Events /\ events[req[h].attempt] # NoEvents
<1>1. /\ req[h].worker \in Workers /\ req[h].sub \in Submissions
      /\ AttemptOf(req[h].attempt, req[h].worker, req[h].sub)
  BY DEF TypeInv, RequestsSound, RequestSound, HasJob
<1>2. QED
  BY <1>1, AttemptKnown, SomeAreNone DEF TypeInv, AttemptOf

LEMMA SubmitTypes ==
  ASSUME TypeInv, NEW h \in Handlers, NEW w \in Workers, NEW a \in Attempts, SubmitResult(h, w, a)
  PROVE  TypeInv'
<1>1. UNCHANGED <<row, status, queue, claim, events, logs, watch>>
  BY DEF SubmitResult
<1> DEFINE x == [pc |-> "check", worker |-> w, token |-> row[w].token, sub |-> events[a].sub,
                 attempt |-> a, kinds |-> {}]
<1>2. req' = [req EXCEPT ![h] = x] /\ events[a].worker = w
  BY DEF SubmitResult
<1>3. events[a] \in Events
  BY <1>2, SomeAreNone DEF TypeInv, TypeOK
<1>4. row[w].token \in Nat
  BY DEF TypeInv, TypeOK, Row
<1>5. x \in Request /\ x # Idle
  <2>1. x.pc # Idle.pc
    BY DEF Idle
  <2>2. events[a].sub \in Submissions /\ a \in 0 .. MaxAttempts
    BY <1>3, RegistryAssumption DEF Events, Attempts
  <2>3. QED
    BY <1>4, <2>1, <2>2 DEF Request
<1>6. x.pc = "check" /\ x.worker = w /\ x.sub = events[a].sub /\ x.attempt = a
  OBVIOUS
<1> HIDE DEF x
<1>7. x.sub \in Submissions /\ AttemptNext(x.attempt, x.worker, x.sub)
  BY <1>1, <1>2, <1>3, <1>6, SomeAreNone DEF AttemptNext
<1>8. /\ req' \in [Handlers -> Request]
      /\ \A g \in Handlers : req'[g].pc = "idle" <=> req'[g] = Idle
      /\ RequestsSound'
  BY <1>1, <1>2, <1>5, <1>6, <1>7, SameEvents, RequestMoves
<1>9. TypeOK'
  BY <1>1, <1>8 DEF TypeInv, TypeOK
<1>10. ClaimsSound' /\ WatchSound'
  BY <1>1, SameEvents, ClaimsStay, WatchStays DEF TypeInv
<1>11. QED
  BY <1>8, <1>9, <1>10 DEF TypeInv

\* The steps of a request that has a job.
ResultStep(h) == MarkRunning(h) \/ CheckResult(h) \/ MarkResult(h) \/ CountResult(h)
                 \/ RecordResult(h) \/ DeleteClaim(h)

LEMMA ResultGoes ==
  ASSUME TypeInv, NEW h \in Handlers, ResultStep(h)
  PROVE  /\ req[h].pc \in HasJob /\ UNCHANGED <<queue, watch>>
         /\ Reply(h) \/ \E pc \in HasJob : Goto(h, pc)
BY DEF ResultStep, MarkRunning, CheckResult, MarkResult, CountResult, RecordResult, DeleteClaim, HasJob

LEMMA ResultTypes ==
  ASSUME TypeInv, NEW h \in Handlers, ResultStep(h)
  PROVE  TypeInv'
<1>1. /\ req[h].pc \in HasJob /\ UNCHANGED <<queue, watch>>
      /\ Reply(h) \/ \E pc \in HasJob : Goto(h, pc)
  BY ResultGoes
<1>2. /\ req[h].worker \in Workers /\ req[h].sub \in Submissions /\ req[h].attempt \in Attempts
      /\ AttemptOf(req[h].attempt, req[h].worker, req[h].sub)
      /\ events[req[h].attempt] # NoEvents
  BY <1>1, JobOf
<1>3. events' \in [Attempts -> Events \cup {NoEvents}] /\ EventsKept
  <2>1. CASE UNCHANGED events
    BY <2>1, SameEvents DEF TypeInv, TypeOK
  <2>2. CASE RecordResult(h)
    BY <1>2, <2>2, EventCounted DEF RecordResult
  <2>3. QED
    BY <2>1, <2>2 DEF ResultStep, MarkRunning, CheckResult, MarkResult, CountResult, DeleteClaim
<1>4. /\ req' \in [Handlers -> Request]
      /\ \A g \in Handlers : req'[g].pc = "idle" <=> req'[g] = Idle
      /\ RequestsSound'
  BY <1>1, <1>3, Replies, Goes
<1>5. row' \in [Workers -> Row]
  <2>1. row \in [Workers -> Row] /\ row[req[h].worker] \in Row
    BY <1>2 DEF TypeInv, TypeOK
  <2>2. CASE UNCHANGED row
    BY <2>1, <2>2
  <2>3. CASE CountResult(h)
    <3>1. PICK w \in Workers : w = req[h].worker
      BY <1>2
    <3>2. \/ UNCHANGED row
          \/ row' = [row EXCEPT ![w].completed = @ + 1]
          \/ row' = [row EXCEPT ![w].failed = @ + 1]
      BY <2>3, <3>1 DEF CountResult
    <3>3. QED
      BY <2>1, <2>2, <3>2, RowCounted
  <2>4. QED
    BY <2>2, <2>3 DEF ResultStep, MarkRunning, CheckResult, MarkResult, RecordResult, DeleteClaim
<1>6. status' \in [Submissions -> {"queued", "running", "done", "failed"}]
  <2>1. Finished(h) \in {"done", "failed"}
    BY <1>2, RegistryAssumption DEF Finished
  <2>2. QED
    BY <1>2, <2>1 DEF TypeInv, TypeOK, ResultStep, MarkRunning, CheckResult, MarkResult, CountResult,
                  RecordResult, DeleteClaim
<1>7. claim' \in [Submissions -> Claim \cup {NoClaim}] /\ ClaimsSound'
  <2>1. CASE UNCHANGED claim
    BY <1>3, <2>1, ClaimsStay DEF TypeInv, TypeOK
  <2>2. CASE DeleteClaim(h)
    <3>1. PICK D : claim' = [s \in Submissions |-> IF s \in D THEN NoClaim ELSE claim[s]]
      <4> DEFINE E == IF claim[req[h].sub].worker = req[h].worker THEN {req[h].sub} ELSE {}
      <4>1. claim' = [s \in Submissions |-> IF s \in E THEN NoClaim ELSE claim[s]]
        BY <2>2 DEF DeleteClaim, TypeInv, TypeOK
      <4>2. QED
        BY <4>1
    <3>2. QED
      BY <1>3, <3>1, ClaimsLeave
  <2>3. QED
    BY <2>1, <2>2 DEF ResultStep, MarkRunning, CheckResult, MarkResult, CountResult, RecordResult
<1>8. logs' \in Seq(Log)
  <2>1. CASE UNCHANGED logs
    BY <2>1 DEF TypeInv, TypeOK
  <2>2. CASE RecordResult(h)
    <3> DEFINE s == req[h].sub
               ratio == SafeDivide(Scale * RunOf[s].seconds, PredictedRuntime(req[h].worker, s))
               l == [isFinal |-> s \in FinalSubs, attempt |-> req[h].attempt, ratio |-> ratio,
                     ram |-> RunOf[s].ram]
    <3>1. RunOf[s].seconds \in Nat /\ RunOf[s].ram \in Nat
      BY <1>2, RegistryAssumption
    <3>2. Scale * RunOf[s].seconds \in Nat /\ PredictedRuntime(req[h].worker, s) \in Nat
      BY <1>2, <3>1, PredictionTyped DEF Scale
    <3>3. ratio \in Nat
      BY <3>2, QuotientTyped
    <3>4. req[h].attempt \in 0 .. MaxAttempts
      BY <1>2, RegistryAssumption DEF Attempts
    <3>5. logs' = Append(logs, l)
      BY <2>2 DEF RecordResult
    <3> HIDE DEF ratio
    <3>6. l \in Log
      BY <3>1, <3>3, <3>4 DEF Log
    <3> HIDE DEF l
    <3>7. QED
      BY <3>5, <3>6 DEF TypeInv, TypeOK
  <2>3. QED
    BY <2>1, <2>2 DEF ResultStep, MarkRunning, CheckResult, MarkResult, CountResult, DeleteClaim
<1>9. TypeOK'
  BY <1>1, <1>3, <1>4, <1>5, <1>6, <1>7, <1>8 DEF TypeInv, TypeOK
<1>10. WatchSound'
  BY <1>1, <1>3, WatchStays DEF TypeInv
<1>11. QED
  BY <1>4, <1>7, <1>9, <1>10 DEF TypeInv
-----------------------------------------------------------------------------
ReaperStep == DeleteStaleClaims \/ CountRequeued \/ (\E s \in Submissions : RequeueOrphan(s))
              \/ \E c \in watch.todo : RequeueStale(c)

LEMMA WatchTyped ==
  TypeInv => /\ watch \in WatchTypes /\ watch = [todo |-> watch.todo, back |-> watch.back]
             /\ \A c \in watch.todo : /\ c.sub \in Submissions /\ c.worker \in Workers
                                      /\ c.attempt \in Attempts
             /\ watch.back # NoClaim =>
                  watch.back \in Claim /\ watch.back.worker \in Workers /\ watch.back.attempt \in Attempts
BY SomeAreNone DEF TypeInv, TypeOK, WatchTypes

\* What the reaper puts into its list is what it took.
Taken(stale) == {[sub |-> s, worker |-> claim[s].worker, attempt |-> claim[s].attempt] : s \in stale}

LEMMA StaleTypes ==
  ASSUME TypeInv, DeleteStaleClaims
  PROVE  TypeInv'
<1>1. PICK stale \in SUBSET {s \in Submissions : Claimed(s)} :
        /\ watch' = [WatchIdle EXCEPT !.todo = Taken(stale)]
        /\ claim' = [s \in Submissions |-> IF s \in stale THEN NoClaim ELSE claim[s]]
  BY DEF DeleteStaleClaims, Taken
<1>2. UNCHANGED <<row, status, queue, events, logs, req>>
  BY DEF DeleteStaleClaims
<1>3. EventsKept
  BY <1>2, SameEvents
<1>4. claim' \in [Submissions -> Claim \cup {NoClaim}] /\ ClaimsSound'
  BY <1>1, <1>3, ClaimsLeave
<1>5. \A s \in stale : /\ claim[s] \in Claim /\ claim[s] # NoClaim /\ s \in Submissions
                       /\ AttemptOf(claim[s].attempt, claim[s].worker, s)
  BY DEF TypeInv, TypeOK, ClaimsSound, Claimed
<1>6. watch' = [todo |-> Taken(stale), back |-> NoClaim]
  BY <1>1 DEF WatchIdle
<1>7. Taken(stale) \subseteq [sub: Submissions, worker: Workers, attempt: Attempts]
  BY <1>5, SomeAreNone DEF Taken
<1>8. watch' \in WatchTypes
  <2> DEFINE T == Taken(stale)
  <2> HIDE DEF T
  <2>1. T \in SUBSET [sub: Submissions, worker: Workers, attempt: Attempts]
    BY <1>7 DEF T
  <2>2. watch' = [todo |-> T, back |-> NoClaim]
    BY <1>6 DEF T
  <2>3. QED
    BY <2>1, <2>2 DEF WatchTypes
<1>9. TypeOK'
  BY <1>2, <1>4, <1>8 DEF TypeInv, TypeOK, WatchTypes
<1>10. \A c \in Taken(stale) : AttemptOf(c.attempt, c.worker, c.sub)
  BY <1>5 DEF Taken
<1>11. WatchSound'
  <2>1. watch'.todo = Taken(stale) /\ watch'.back = NoClaim
    BY <1>6
  <2>2. \A c \in watch'.todo : AttemptOf(c.attempt, c.worker, c.sub)
    BY <1>10, <2>1
  <2>3. QED
    BY <1>2, <2>1, <2>2 DEF WatchSound, AttemptOf
<1>12. QED
  BY <1>2, <1>3, <1>4, <1>9, <1>11, RequestsStay DEF TypeInv

LEMMA RequeueTypes ==
  ASSUME TypeInv, NEW c \in watch.todo, RequeueStale(c)
  PROVE  TypeInv'
<1>1. /\ c.sub \in Submissions /\ c.worker \in Workers /\ c.attempt \in Attempts
      /\ AttemptOf(c.attempt, c.worker, c.sub)
  BY WatchTyped DEF TypeInv, WatchSound
<1>2. UNCHANGED <<row, claim, events, logs, req>>
  BY DEF RequeueStale
<1>3. EventsKept
  BY <1>2, SameEvents
<1>4. /\ status' \in [Submissions -> {"queued", "running", "done", "failed"}]
      /\ queue' \in [Submissions -> Nat]
  <2>1. PICK s \in Submissions : s = c.sub
    BY <1>1
  <2>2. \/ UNCHANGED <<status, queue>>
        \/ status' = [status EXCEPT ![s] = "queued"] /\ queue' = [queue EXCEPT ![s] = @ + 1]
    BY <2>1 DEF RequeueStale
  <2>3. /\ status \in [Submissions -> {"queued", "running", "done", "failed"}]
        /\ queue \in [Submissions -> Nat]
    BY DEF TypeInv, TypeOK
  <2>4. status' \in [Submissions -> {"queued", "running", "done", "failed"}]
    BY <2>2, <2>3
  <2>5. queue[s] + 1 \in Nat
    BY <2>3
  <2>6. queue' \in [Submissions -> Nat]
    BY <2>2, <2>3, <2>5
  <2>7. QED
    BY <2>4, <2>6
<1> DEFINE k == [worker |-> c.worker, attempt |-> c.attempt]
<1>5. k \in Claim /\ k.worker = c.worker /\ k.attempt = c.attempt
  BY <1>1 DEF Claim
<1>6. \E back : /\ watch' = [todo |-> watch.todo \ {c}, back |-> back]
                /\ back = k \/ back = NoClaim
  <2>1. watch.back = NoClaim /\ watch = [todo |-> watch.todo, back |-> watch.back]
    BY WatchTyped DEF RequeueStale
  <2>2. [watch EXCEPT !.todo = @ \ {c}] = [todo |-> watch.todo \ {c}, back |-> NoClaim]
    BY <2>1
  <2>3. QED
    BY <2>2 DEF RequeueStale
<1> HIDE DEF k
<1>7. PICK back, T : /\ watch' = [todo |-> T, back |-> back] /\ T = watch.todo \ {c}
                     /\ back = k \/ back = NoClaim
  BY <1>6
<1>8. watch' \in WatchTypes
  <2>1. T \in SUBSET [sub: Submissions, worker: Workers, attempt: Attempts]
    BY <1>7, WatchTyped DEF WatchTypes
  <2>2. back \in Claim \cup {NoClaim}
    BY <1>5, <1>7
  <2>3. QED
    BY <1>7, <2>1, <2>2 DEF WatchTypes
<1>9. TypeOK'
  BY <1>2, <1>4, <1>8 DEF TypeInv, TypeOK, WatchTypes
<1>10. WatchSound'
  <2>1. watch'.todo = T /\ watch'.back = back
    BY <1>7
  <2>2. \A d \in watch'.todo : AttemptOf(d.attempt, d.worker, d.sub)'
    BY <1>2, <1>7, <2>1 DEF TypeInv, WatchSound, AttemptOf
  <2>3. back # NoClaim => /\ back.attempt \in Attempts
                          /\ events[back.attempt].worker = back.worker
                          /\ events[back.attempt].sub \in Submissions
    BY <1>1, <1>5, <1>7 DEF AttemptOf
  <2>4. QED
    BY <1>2, <2>1, <2>2, <2>3 DEF WatchSound
<1>11. QED
  BY <1>2, <1>3, <1>9, <1>10, RequestsStay, ClaimsStay DEF TypeInv

LEMMA CountTypes ==
  ASSUME TypeInv, CountRequeued
  PROVE  TypeInv'
<1>1. PICK a, w : a = watch.back.attempt /\ w = watch.back.worker
  OBVIOUS
<1>2. /\ watch.back # NoClaim /\ a \in Attempts /\ w \in Workers
      /\ events[a].worker = w /\ events[a].sub \in Submissions
  BY <1>1, WatchTyped DEF CountRequeued, TypeInv, WatchSound
<1>3. events[a] # NoEvents /\ events' = [events EXCEPT ![a].requeued = @ + 1]
  BY <1>1, <1>2, SomeAreNone DEF CountRequeued
<1>4. events' \in [Attempts -> Events \cup {NoEvents}] /\ EventsKept
  BY <1>2, <1>3, EventCounted
<1>5. row' \in [Workers -> Row]
  <2>1. row' = row \/ row' = [row EXCEPT ![w].failed = @ + 1]
    BY <1>1 DEF CountRequeued
  <2>2. QED
    BY <1>2, <2>1, RowCounted DEF TypeInv, TypeOK
<1>6. UNCHANGED <<status, queue, claim, logs, req>>
  BY DEF CountRequeued
<1>7. watch' = [todo |-> watch.todo, back |-> NoClaim]
  BY WatchTyped DEF CountRequeued
<1>8. watch' \in WatchTypes /\ watch'.todo = watch.todo /\ watch'.back = NoClaim
  <2>1. PICK T : T = watch.todo
    OBVIOUS
  <2>2. T \in SUBSET [sub: Submissions, worker: Workers, attempt: Attempts]
    BY <2>1, WatchTyped DEF WatchTypes
  <2>3. QED
    BY <1>7, <2>1, <2>2 DEF WatchTypes
<1>9. TypeOK'
  BY <1>4, <1>5, <1>6, <1>8 DEF TypeInv, TypeOK, WatchTypes
<1>10. WatchSound'
  <2>1. ASSUME NEW c \in watch.todo PROVE AttemptOf(c.attempt, c.worker, c.sub)'
    BY <1>4, WatchTyped, AttemptsStay DEF TypeInv, WatchSound
  <2>2. QED
    BY <1>8, <2>1 DEF WatchSound
<1>11. QED
  BY <1>4, <1>6, <1>9, <1>10, RequestsStay, ClaimsStay DEF TypeInv

LEMMA OrphanTypes ==
  ASSUME TypeInv, NEW s \in Submissions, RequeueOrphan(s)
  PROVE  TypeInv'
<1>1. UNCHANGED <<row, claim, events, logs, req, watch>>
  BY DEF RequeueOrphan
<1>2. /\ status' \in [Submissions -> {"queued", "running", "done", "failed"}]
      /\ queue' \in [Submissions -> Nat]
  BY DEF RequeueOrphan, TypeInv, TypeOK
<1>3. TypeOK'
  BY <1>1, <1>2 DEF TypeInv, TypeOK
<1>4. QED
  BY <1>1, <1>3, SameEvents, RequestsStay, ClaimsStay, WatchStays DEF TypeInv

LEMMA NextSplits ==
  Next => \/ \E w \in Workers : RowStep(w)
          \/ \E h \in Handlers : \/ FetchWorker(h) \/ NoJob(h) \/ \E w \in Workers : ClaimNext(h, w)
                                 \/ Dispatch(h) \/ ResultStep(h)
                                 \/ \E w \in Workers, a \in Attempts : SubmitResult(h, w, a)
          \/ ReaperStep
BY DEF Next, RowStep, ResultStep, ReaperStep

LEMMA NextTypes == TypeInv /\ [Next]_vars => TypeInv'
<1> SUFFICES ASSUME TypeInv, [Next]_vars PROVE TypeInv'
  OBVIOUS
<1>1. ASSUME NEW w \in Workers, RowStep(w) PROVE TypeInv'
  BY <1>1, RowTypes
<1>2. ASSUME NEW h \in Handlers, FetchWorker(h) \/ NoJob(h) \/ \E w \in Workers : ClaimNext(h, w)
      PROVE  TypeInv'
  BY <1>2, FetchTypes
<1>3. ASSUME NEW h \in Handlers, Dispatch(h) PROVE TypeInv'
  BY <1>3, DispatchTypes
<1>4. ASSUME NEW h \in Handlers, ResultStep(h) PROVE TypeInv'
  BY <1>4, ResultTypes
<1>5. ASSUME NEW h \in Handlers, NEW w \in Workers, NEW a \in Attempts, SubmitResult(h, w, a)
      PROVE  TypeInv'
  BY <1>5, SubmitTypes
<1>6. CASE ReaperStep
  BY <1>6, StaleTypes, CountTypes, OrphanTypes, RequeueTypes DEF ReaperStep
<1>7. CASE UNCHANGED vars
  BY <1>7, SameEvents, RequestsStay, ClaimsStay, WatchStays DEF vars, TypeInv, TypeOK
<1>8. QED
  BY <1>1, <1>2, <1>3, <1>4, <1>5, <1>6, <1>7, NextSplits

LEMMA TypesHold == Spec => []TypeInv
BY InitTypes, NextTypes, PTL DEF Spec

\* The shape of the tables and of what is in flight; a slot that is free keeps
\* nothing of the request it answered.  Behind it: a request with a job, a claim
\* and what the reaper took name an attempt whose events name the same worker
\* and submission.
THEOREM RegistryTypes == Spec => []TypeOK
<1>1. TypeInv => TypeOK
  BY DEF TypeInv
<1>2. QED
  BY <1>1, TypesHold, PTL
-----------------------------------------------------------------------------
(***************************************************************************)
(* One outcome for each attempt.  A submission waits in the queue, is about *)
(* to be marked or is running, and nothing of that once a result of it has *)
(* been committed; an attempt whose claim is held, or was taken by the      *)
(* reaper, has not been put back.                                          *)
(***************************************************************************)
Marks(h, s) == req[h].pc = "mark_running" /\ req[h].sub = s
Writes(h, a) == req[h].pc \in {"count", "record"} /\ req[h].attempt = a

Recorded(a) == events[a].done + events[a].failed + events[a].requeued
Concluded(a) == events[a].done + events[a].failed > 0 \/ \E h \in Handlers : Writes(h, a)
Over(s) == queue[s] = 0 /\ status[s] # "running" /\ \A h \in Handlers : ~Marks(h, s)
Open(a) == events[a].requeued = 0 /\ watch.back.attempt # a

InOnePlace ==
  \A s \in Submissions :
    /\ queue[s] <= 1
    /\ queue[s] > 0 => status[s] # "running" /\ \A h \in Handlers : ~Marks(h, s)
    /\ \A h \in Handlers : Marks(h, s) =>
         status[s] # "running" /\ \A g \in Handlers : Marks(g, s) => g = h
ConcludedIsOver == \A a \in Attempts : Concluded(a) => Over(events[a].sub)
OneOutcome ==
  /\ \A a \in Attempts : Recorded(a) <= 1
  /\ \A a \in Attempts, h \in Handlers : Writes(h, a) =>
       /\ Recorded(a) = 0 /\ watch.back.attempt # a
       /\ \A g \in Handlers : Writes(g, a) => g = h
  /\ watch.back # NoClaim => Recorded(watch.back.attempt) = 0
ClaimsOpen ==
  /\ \A s \in Submissions : claim[s] # NoClaim =>
       Open(claim[s].attempt) /\ \A c \in watch.todo : c.attempt # claim[s].attempt
  /\ \A c \in watch.todo : Open(c.attempt)
LogsBacked ==
  \A a \in Attempts :
    Cardinality({i \in DOMAIN logs : logs[i].attempt = a}) <= events[a].done + events[a].failed
OnceInv == InOnePlace /\ ConcludedIsOver /\ OneOutcome /\ ClaimsOpen /\ LogsBacked
\* The counts of an attempt.
LEMMA CountsTyped ==
  ASSUME TypeInv, NEW a \in Attempts
  PROVE  /\ events[a].done \in Nat /\ events[a].failed \in Nat /\ events[a].requeued \in Nat
         /\ Recorded(a) \in Nat
<1>1. events[a] \in Events \cup {NoEvents}
  BY DEF TypeInv, TypeOK
<1>2. events[a].done \in Nat /\ events[a].failed \in Nat /\ events[a].requeued \in Nat
  BY <1>1 DEF Events, NoEvents
<1>3. QED
  BY <1>2 DEF Recorded

LEMMA ConcludedKnown ==
  ASSUME TypeInv, NEW a \in Attempts, Concluded(a)
  PROVE  events[a] # NoEvents /\ events[a].sub \in Submissions
<1>1. CASE events[a].done + events[a].failed > 0
  BY <1>1, SomeAreNone DEF NoEvents, TypeInv, TypeOK
<1>2. ASSUME NEW h \in Handlers, Writes(h, a) PROVE events[a] # NoEvents
  BY <1>2, JobOf DEF Writes, HasJob
<1>3. events[a] # NoEvents
  BY <1>1, <1>2 DEF Concluded
<1>4. QED
  BY <1>3, SomeAreNone DEF TypeInv, TypeOK

LEMMA InitOnce == Init => OnceInv
<1> SUFFICES ASSUME Init PROVE OnceInv
  OBVIOUS
<1>1. TypeInv /\ watch.todo = {} /\ watch.back = NoClaim
  BY InitTypes DEF Init, WatchIdle
<1>2. \A h \in Handlers : req[h].pc = "idle"
  BY DEF Init, Idle
<1>3. \A a \in Attempts : events[a].done = 0 /\ events[a].failed = 0 /\ events[a].requeued = 0
  BY DEF Init, NoEvents
<1>4. InOnePlace
  BY <1>2 DEF Init, InOnePlace, Marks
<1>5. ConcludedIsOver
  BY <1>2, <1>3 DEF ConcludedIsOver, Concluded, Writes
<1>6. OneOutcome
  BY <1>1, <1>2, <1>3 DEF OneOutcome, Recorded, Writes
<1>7. ClaimsOpen
  BY <1>1 DEF Init, ClaimsOpen
<1>8. LogsBacked
  <2>1. ASSUME NEW a \in Attempts
        PROVE  Cardinality({i \in DOMAIN logs : logs[i].attempt = a}) <= events[a].done + events[a].failed
    <3>1. {i \in DOMAIN logs : logs[i].attempt = a} = {}
      BY HistoryAssumption DEF Init, Attempts
    <3>2. QED
      BY SMTT(40), <1>3, <3>1, FS_EmptySet
  <2>2. QED
    BY <2>1 DEF LogsBacked
<1>9. QED
  BY <1>4, <1>5, <1>6, <1>7, <1>8 DEF OnceInv

\* Steps that neither write a result nor move a job: requests only leave what
\* they do, and claims are only deleted.
Leaves ==
  /\ \A s \in Submissions : claim'[s] = claim[s] \/ claim'[s] = NoClaim
  /\ \A h \in Handlers, s \in Submissions : Marks(h, s)' => Marks(h, s)
  /\ \A h \in Handlers, a \in Attempts : Writes(h, a)' => Writes(h, a)

LEMMA OnceFrame ==
  ASSUME TypeInv, OnceInv, UNCHANGED <<status, queue, events, logs, watch>>, Leaves
  PROVE  OnceInv'
<1>1. InOnePlace'
  BY DEF OnceInv, InOnePlace, Leaves
<1>2. ConcludedIsOver'
  <2>1. \A a \in Attempts : Concluded(a)' => Concluded(a)
    BY DEF Concluded, Leaves
  <2>2. ASSUME NEW a \in Attempts, Concluded(a)' PROVE Over(events[a].sub)'
    <3>1. PICK s : s = events[a].sub
      OBVIOUS
    <3>2. Over(s)
      BY <2>1, <2>2, <3>1 DEF OnceInv, ConcludedIsOver
    <3>3. s \in Submissions
      BY <2>1, <2>2, <3>1, ConcludedKnown
    <3>4. Over(s)'
      BY <3>2, <3>3 DEF Over, Leaves
    <3>5. QED
      BY <3>1, <3>4 DEF Over, Marks
  <2>3. QED
    BY <2>2 DEF ConcludedIsOver
<1>3. OneOutcome'
  BY DEF OnceInv, OneOutcome, Recorded, Leaves
<1>4. ClaimsOpen'
  BY DEF OnceInv, ClaimsOpen, Open, Leaves
<1>5. LogsBacked'
  BY DEF OnceInv, LogsBacked
<1>6. QED
  BY <1>1, <1>2, <1>3, <1>4, <1>5 DEF OnceInv
-----------------------------------------------------------------------------
LEMMA SlotLeaves ==
  ASSUME TypeInv, NEW h \in Handlers, NEW x, req' = [req EXCEPT ![h] = x],
         \/ x.pc \notin {"mark_running", "count", "record"}
         \/ x.pc = "record" /\ req[h].pc = "count" /\ x.attempt = req[h].attempt
  PROVE  /\ \A g \in Handlers, s \in Submissions : Marks(g, s)' => Marks(g, s)
         /\ \A g \in Handlers, a \in Attempts : Writes(g, a)' => Writes(g, a)
<1>1. \A g \in Handlers : req'[g] = IF g = h THEN x ELSE req[g]
  BY DEF TypeInv, TypeOK
<1>2. QED
  BY <1>1 DEF Marks, Writes

LEMMA ReplyLeaves ==
  ASSUME TypeInv, NEW h \in Handlers, Reply(h)
  PROVE  /\ \A g \in Handlers, s \in Submissions : Marks(g, s)' => Marks(g, s)
         /\ \A g \in Handlers, a \in Attempts : Writes(g, a)' => Writes(g, a)
<1>1. Idle.pc = "idle"
  BY DEF Idle
<1>2. QED
  BY <1>1, SlotLeaves DEF Reply

LEMMA GotoLeaves ==
  ASSUME TypeInv, NEW h \in Handlers, NEW pc, Goto(h, pc),
         pc \notin {"mark_running", "count", "record"} \/ (pc = "record" /\ req[h].pc = "count")
  PROVE  /\ \A g \in Handlers, s \in Submissions : Marks(g, s)' => Marks(g, s)
         /\ \A g \in Handlers, a \in Attempts : Writes(g, a)' => Writes(g, a)
<1> DEFINE x == [req[h] EXCEPT !.pc = pc]
<1>1. req' = [req EXCEPT ![h] = x]
  BY DEF Goto
<1>2. x.pc = pc /\ x.attempt = req[h].attempt
  BY DEF TypeInv, TypeOK, Request
<1> HIDE DEF x
<1>3. QED
  BY <1>1, <1>2, SlotLeaves

LEMMA StepsLeave ==
  ASSUME TypeInv,
         \/ \E w \in Workers : RowStep(w)
         \/ \E h \in Handlers :
              \/ FetchWorker(h) \/ NoJob(h) \/ \E w \in Workers : ClaimNext(h, w)
              \/ \E w \in Workers, a \in Attempts : SubmitResult(h, w, a)
              \/ Dispatch(h) /\ Reply(h) /\ UNCHANGED <<queue, claim, events>>
              \/ CheckResult(h) \/ CountResult(h) \/ DeleteClaim(h)
              \/ MarkResult(h) /\ Reply(h) /\ UNCHANGED status
  PROVE  UNCHANGED <<status, queue, events, logs, watch>> /\ Leaves
<1> DEFINE Goal == UNCHANGED <<status, queue, events, logs, watch>> /\ Leaves
<1>1. ASSUME NEW w \in Workers, RowStep(w) PROVE Goal
  BY <1>1 DEF RowStep, Register, AdminApprove, AdminReject, AdminDelete, Leaves, Marks, Writes
<1>2. ASSUME NEW h \in Handlers, Reply(h) \/ req' = req, UNCHANGED <<status, queue, events, logs, watch>>,
             \A s \in Submissions : claim'[s] = claim[s] \/ claim'[s] = NoClaim
      PROVE  Goal
  BY <1>2, ReplyLeaves DEF Leaves, Marks, Writes
<1>3. ASSUME NEW h \in Handlers, FetchWorker(h) PROVE Goal
  <2>1. PICK kinds : req' = [req EXCEPT ![h].pc = "dispatch", ![h].kinds = kinds] \/ Reply(h)
    BY <1>3 DEF FetchWorker
  <2>2. UNCHANGED <<row, status, queue, claim, events, logs, watch>>
    BY <1>3 DEF FetchWorker
  <2>3. CASE req' = [req EXCEPT ![h].pc = "dispatch", ![h].kinds = kinds]
    <3> DEFINE x == [req[h] EXCEPT !.pc = "dispatch", !.kinds = kinds]
    <3>1. req' = [req EXCEPT ![h] = x]
      BY <2>3
    <3>2. x.pc = "dispatch"
      BY DEF TypeInv, TypeOK, Request
    <3> HIDE DEF x
    <3>3. QED
      BY <2>2, <3>1, <3>2, SlotLeaves DEF Leaves
  <2>4. QED
    BY <1>2, <2>1, <2>2, <2>3
<1>4. ASSUME NEW h \in Handlers, NEW w \in Workers, ClaimNext(h, w) PROVE Goal
  <2> DEFINE x == [Idle EXCEPT !.pc = "fetch", !.worker = w, !.token = row[w].token]
  <2>1. req' = [req EXCEPT ![h] = x] /\ x.pc = "fetch"
    BY <1>4 DEF ClaimNext, Idle
  <2> HIDE DEF x
  <2>2. QED
    BY <1>4, <2>1, SlotLeaves DEF ClaimNext, Leaves
<1>5. ASSUME NEW h \in Handlers, NEW w \in Workers, NEW a \in Attempts, SubmitResult(h, w, a) PROVE Goal
  <2> DEFINE x == [pc |-> "check", worker |-> w, token |-> row[w].token, sub |-> events[a].sub,
                   attempt |-> a, kinds |-> {}]
  <2>1. req' = [req EXCEPT ![h] = x] /\ x.pc = "check"
    BY <1>5 DEF SubmitResult
  <2> HIDE DEF x
  <2>2. QED
    BY <1>5, <2>1, SlotLeaves DEF SubmitResult, Leaves
<1>6. ASSUME NEW h \in Handlers, Dispatch(h) /\ Reply(h) /\ UNCHANGED <<queue, claim, events>> PROVE Goal
  BY <1>2, <1>6 DEF Dispatch
<1>7. ASSUME NEW h \in Handlers, MarkResult(h) /\ Reply(h) /\ UNCHANGED status PROVE Goal
  BY <1>2, <1>7 DEF MarkResult
<1>8. ASSUME NEW h \in Handlers, CheckResult(h) PROVE Goal
  <2>1. UNCHANGED <<row, status, queue, claim, events, logs, watch>> /\ (Goto(h, "mark") \/ Reply(h))
    BY <1>8 DEF CheckResult
  <2>2. CASE Goto(h, "mark")
    BY <2>1, <2>2, GotoLeaves DEF Leaves
  <2>3. QED
    BY <1>2, <2>1, <2>2
<1>9. ASSUME NEW h \in Handlers, CountResult(h) PROVE Goal
  <2>1. UNCHANGED <<status, queue, claim, events, logs, watch>> /\ Goto(h, "record") /\ req[h].pc = "count"
    BY <1>9 DEF CountResult
  <2>2. QED
    BY <2>1, GotoLeaves DEF Leaves
<1>10. ASSUME NEW h \in Handlers, DeleteClaim(h) PROVE Goal
  <2>1. \A s \in Submissions : claim'[s] = claim[s] \/ claim'[s] = NoClaim
    BY <1>10 DEF DeleteClaim, TypeInv, TypeOK
  <2>2. QED
    BY <1>2, <1>10, <2>1 DEF DeleteClaim
<1>11. ASSUME NEW h \in Handlers, NoJob(h) PROVE Goal
  BY <1>2, <1>11 DEF NoJob
<1>12. QED
  BY <1>1, <1>3, <1>4, <1>5, <1>6, <1>7, <1>8, <1>9, <1>10, <1>11
-----------------------------------------------------------------------------
\* Over for a submission that a step leaves alone.
OverStays(s) == /\ queue'[s] = queue[s] /\ status'[s] = status[s]
                /\ \A h \in Handlers : Marks(h, s)' => Marks(h, s)

LEMMA ConcludedStays ==
  ASSUME TypeInv, OnceInv, UNCHANGED events,
         \A a \in Attempts : Concluded(a)' => Concluded(a),
         \A s \in Submissions : Over(s) => OverStays(s)
  PROVE  ConcludedIsOver'
<1>1. ASSUME NEW a \in Attempts, Concluded(a)' PROVE Over(events[a].sub)'
  <2>1. PICK s \in Submissions : s = events[a].sub
    BY <1>1, ConcludedKnown
  <2>2. Over(s)
    BY <1>1, <2>1 DEF OnceInv, ConcludedIsOver
  <2>3. Over(s)'
    BY <2>2 DEF Over, OverStays
  <2>4. QED
    BY <2>1, <2>3 DEF Over, Marks
<1>2. QED
  BY <1>1 DEF ConcludedIsOver

LEMMA MarkRunningOnce ==
  ASSUME TypeInv, OnceInv, NEW h \in Handlers, MarkRunning(h)
  PROVE  OnceInv'
<1>1. PICK s \in Submissions : s = req[h].sub
  BY JobOf DEF MarkRunning, HasJob
<1>2. /\ Marks(h, s) /\ status' = [status EXCEPT ![s] = "running"] /\ Reply(h)
      /\ UNCHANGED <<row, queue, claim, events, logs, watch>>
  BY <1>1 DEF MarkRunning, Marks
<1>3. /\ \A g \in Handlers, t \in Submissions : Marks(g, t)' => Marks(g, t)
      /\ \A g \in Handlers, a \in Attempts : Writes(g, a)' => Writes(g, a)
  BY <1>2, ReplyLeaves
<1>4. queue[s] = 0 /\ \A g \in Handlers : Marks(g, s) => g = h
  <2>1. queue[s] \in Nat
    BY DEF TypeInv, TypeOK
  <2>2. QED
    BY <1>2, <2>1 DEF OnceInv, InOnePlace
<1>5. \A g \in Handlers : ~Marks(g, s)'
  <2>1. ~Marks(h, s)'
    BY <1>2 DEF Reply, Idle, Marks, TypeInv, TypeOK
  <2>2. QED
    BY <1>3, <1>4, <2>1
<1>6. \A t \in Submissions : t # s => status'[t] = status[t]
  BY <1>2 DEF TypeInv, TypeOK
<1>7. InOnePlace'
  BY <1>2, <1>3, <1>4, <1>5, <1>6 DEF OnceInv, InOnePlace
<1>8. ConcludedIsOver'
  <2>1. \A a \in Attempts : Concluded(a)' => Concluded(a)
    BY <1>2, <1>3 DEF Concluded
  <2>2. \A t \in Submissions : Over(t) => OverStays(t)
    BY <1>2, <1>3, <1>6 DEF Over, OverStays
  <2>3. QED
    BY <1>2, <2>1, <2>2, ConcludedStays
<1>9. OneOutcome'
  BY <1>2, <1>3 DEF OnceInv, OneOutcome, Recorded
<1>10. ClaimsOpen' /\ LogsBacked'
  BY <1>2 DEF OnceInv, ClaimsOpen, Open, LogsBacked
<1>11. QED
  BY <1>7, <1>8, <1>9, <1>10 DEF OnceInv

\* A result is committed: the submission is over and its attempt has not been
\* put back.
LEMMA MarkResultOnce ==
  ASSUME TypeInv, OnceInv, NEW h \in Handlers, MarkResult(h), MayCommit(h)
  PROVE  OnceInv'
<1>1. PICK s \in Submissions, a \in Attempts, v \in {"done", "failed"} :
        s = req[h].sub /\ a = req[h].attempt /\ v = Finished(h)
  <2>1. req[h].pc \in HasJob
    BY DEF MarkResult, HasJob
  <2>2. req[h].sub \in Submissions /\ req[h].attempt \in Attempts
    BY <2>1, JobOf
  <2>3. QED
    BY <2>2, RegistryAssumption DEF Finished
<1>2. /\ req[h].pc = "mark" /\ status[s] = "running" /\ claim[s].attempt = a /\ claim[s] # NoClaim
      /\ status' = [status EXCEPT ![s] = v] /\ Goto(h, "count")
      /\ UNCHANGED <<row, queue, claim, events, logs, watch>>
  <2>1. claim[s] = [worker |-> req[h].worker, attempt |-> a] /\ status[s] = "running"
    BY <1>1 DEF MayCommit, OwnsClaim
  <2>2. claim[s].attempt = a
    BY <2>1
  <2>3. claim[s] # NoClaim
    BY <2>2, RegistryAssumption DEF NoClaim, Attempts
  <2>4. QED
    BY <1>1, <2>1, <2>2, <2>3 DEF MarkResult
<1>3. events[a].sub = s
  BY <1>2 DEF TypeInv, ClaimsSound, AttemptOf
<1>4. \A g \in Handlers : req'[g].attempt = req[g].attempt /\ req'[g].sub = req[g].sub
                          /\ req'[g].pc = IF g = h THEN "count" ELSE req[g].pc
  BY <1>2 DEF Goto, TypeInv, TypeOK, Request
<1>5. /\ \A g \in Handlers, t \in Submissions : Marks(g, t)' => Marks(g, t)
      /\ \A g \in Handlers, c \in Attempts : Writes(g, c)' => Writes(g, c) \/ (g = h /\ c = a)
  BY <1>1, <1>4 DEF Marks, Writes
<1>6. \A t \in Submissions : t # s => status'[t] = status[t]
  BY <1>2 DEF TypeInv, TypeOK
<1>7. status'[s] # "running"
  BY <1>1, <1>2 DEF TypeInv, TypeOK
<1>8. queue[s] = 0 /\ \A g \in Handlers : ~Marks(g, s)
  <2>1. queue[s] \in Nat
    BY DEF TypeInv, TypeOK
  <2>2. QED
    BY <1>2, <2>1 DEF OnceInv, InOnePlace
<1>9. ~Concluded(a) /\ Recorded(a) = 0 /\ watch.back.attempt # a
  <2>1. ~Over(s)
    BY <1>2 DEF Over
  <2>2. ~Concluded(a)
    BY <1>3, <2>1 DEF OnceInv, ConcludedIsOver
  <2>3. events[a].requeued = 0 /\ watch.back.attempt # a
    BY <1>2 DEF OnceInv, ClaimsOpen, Open
  <2>4. QED
    BY <2>2, <2>3, CountsTyped DEF Concluded, Recorded
<1>10. InOnePlace'
  BY <1>2, <1>5, <1>6, <1>7, <1>8 DEF OnceInv, InOnePlace
<1>11. ConcludedIsOver'
  <2>1. ASSUME NEW c \in Attempts, Concluded(c)' PROVE Over(events[c].sub)'
    <3>1. CASE c = a
      <4>1. Over(s)'
        BY <1>2, <1>5, <1>7, <1>8 DEF Over
      <4>2. QED
        BY <1>2, <1>3, <3>1, <4>1 DEF Over, Marks
    <3>2. CASE c # a
      <4>1. Concluded(c)
        BY <1>2, <1>5, <2>1, <3>2 DEF Concluded
      <4>2. PICK t \in Submissions : t = events[c].sub
        BY <4>1, ConcludedKnown
      <4>3. Over(t)
        BY <4>1, <4>2 DEF OnceInv, ConcludedIsOver
      <4>4. t # s
        BY <1>2, <4>3 DEF Over
      <4>5. Over(t)'
        BY <1>2, <1>5, <1>6, <4>3, <4>4 DEF Over
      <4>6. QED
        BY <1>2, <4>2, <4>5 DEF Over, Marks
    <3>3. QED
      BY <3>1, <3>2
  <2>2. QED
    BY <2>1 DEF ConcludedIsOver
<1>12. OneOutcome'
  <2>1. \A g \in Handlers : ~Writes(g, a)
    BY <1>9 DEF Concluded
  <2>2. QED
    BY <1>2, <1>5, <1>9, <2>1 DEF OnceInv, OneOutcome, Recorded
<1>13. ClaimsOpen' /\ LogsBacked'
  BY <1>2 DEF OnceInv, ClaimsOpen, Open, LogsBacked
<1>14. QED
  BY <1>10, <1>11, <1>12, <1>13 DEF OnceInv
-----------------------------------------------------------------------------
\* The log of an attempt grows by at most one line.
LinesOf(log, a) == {i \in DOMAIN log : log[i].attempt = a}

LEMMA LinesCounted ==
  ASSUME NEW log, NEW n \in Nat, DOMAIN log = 1 .. n, NEW a
  PROVE  IsFiniteSet(LinesOf(log, a)) /\ Cardinality(LinesOf(log, a)) \in Nat
<1>1. LinesOf(log, a) \subseteq 1 .. n
  BY DEF LinesOf
<1>2. n \in Int /\ 1 \in Int
  OBVIOUS
<1>3. IsFiniteSet(1 .. n)
  BY <1>2, FS_Interval
<1>4. QED
  BY <1>1, <1>3, FS_Subset, FS_CardinalityType

LEMMA LogGrows ==
  ASSUME NEW l, NEW log, NEW log2, NEW n \in Nat, NEW a,
         DOMAIN log = 1 .. n, DOMAIN log2 = 1 .. n + 1,
         log2[n + 1] = l, \A i \in 1 .. n : log2[i] = log[i]
  PROVE  /\ Cardinality(LinesOf(log2, a)) <= Cardinality(LinesOf(log, a)) + 1
         /\ l.attempt # a => Cardinality(LinesOf(log2, a)) = Cardinality(LinesOf(log, a))
<1> DEFINE T == LinesOf(log, a)
           U == LinesOf(log2, a)
<1>1. IsFiniteSet(T)
  BY LinesCounted
<1>2. T \subseteq 1 .. n
  BY DEF LinesOf
<1>3. U = IF l.attempt = a THEN T \cup {n + 1} ELSE T
  BY DEF LinesOf
<1>4. n + 1 \notin T
  BY <1>2
<1> HIDE DEF T, U
<1>5. Cardinality(T \cup {n + 1}) = Cardinality(T) + 1 /\ Cardinality(T) \in Nat
  BY <1>1, <1>4, FS_AddElement, FS_CardinalityType
<1>6. Cardinality(U) <= Cardinality(T) + 1 /\ (l.attempt # a => Cardinality(U) = Cardinality(T))
  <2>1. CASE l.attempt = a
    BY <1>3, <1>5, <2>1
  <2>2. CASE l.attempt # a
    BY <1>3, <1>5, <2>2
  <2>3. QED
    BY <2>1, <2>2
<1>7. QED
  BY <1>6 DEF T, U

LEMMA RecordOnce ==
  ASSUME TypeInv, OnceInv, NEW h \in Handlers, RecordResult(h)
  PROVE  OnceInv'
<1>1. PICK a \in Attempts : a = req[h].attempt
  BY JobOf DEF RecordResult, HasJob
<1>2. events[a] # NoEvents /\ events[a] \in Events
  BY <1>1, JobOf DEF RecordResult, HasJob
<1>3. /\ Writes(h, a) /\ Goto(h, "delete")
      /\ UNCHANGED <<row, status, queue, claim, watch>>
      /\ \/ events' = [events EXCEPT ![a].done = @ + 1]
         \/ events' = [events EXCEPT ![a].failed = @ + 1]
  BY <1>1 DEF RecordResult, Writes
<1>4. /\ \A g \in Handlers, t \in Submissions : Marks(g, t)' => Marks(g, t)
      /\ \A g \in Handlers, c \in Attempts : Writes(g, c)' => Writes(g, c)
  BY <1>3, GotoLeaves
<1>5. /\ \A c \in Attempts : c # a => events'[c] = events[c]
      /\ events'[a].sub = events[a].sub /\ events'[a].requeued = events[a].requeued
      /\ events'[a].done + events'[a].failed = events[a].done + events[a].failed + 1
  <2>1. \A c \in Attempts : c # a => events'[c] = events[c]
    BY <1>2, <1>3, EventCounted
  <2>2. events[a].done \in Nat /\ events[a].failed \in Nat
    BY <1>2 DEF Events
  <2>3. PICK v : v = events[a]
    OBVIOUS
  <2>4. \/ events'[a] = [v EXCEPT !.done = @ + 1]
        \/ events'[a] = [v EXCEPT !.failed = @ + 1]
    BY <1>3, <2>3 DEF TypeInv, TypeOK
  <2>5. v \in Events
    BY <1>2, <2>3
  <2>6. /\ events'[a].sub = v.sub /\ events'[a].requeued = v.requeued
        /\ events'[a].done + events'[a].failed = v.done + v.failed + 1
    BY <2>4, <2>5 DEF Events
  <2>7. QED
    BY <2>1, <2>3, <2>6
<1>6. Recorded(a) = 0 /\ watch.back.attempt # a /\ \A g \in Handlers : Writes(g, a) => g = h
  BY <1>3 DEF OnceInv, OneOutcome
<1>7. Recorded(a)' = 1
  <2>1. events[a].done \in Nat /\ events[a].failed \in Nat /\ events[a].requeued \in Nat
    BY <1>2 DEF Events
  <2>2. QED
    BY <1>5, <1>6, <2>1 DEF Recorded
<1>8. \A g \in Handlers : ~Writes(g, a)'
  <2>1. ~Writes(h, a)'
    BY <1>3 DEF Goto, Writes, TypeInv, TypeOK, Request
  <2>2. QED
    BY <1>4, <1>6, <2>1
<1>9. InOnePlace'
  BY <1>3, <1>4 DEF OnceInv, InOnePlace
<1>10. ConcludedIsOver'
  <2>1. ASSUME NEW c \in Attempts, Concluded(c)' PROVE Over(events[c].sub)'
    <3>1. Concluded(c)
      BY <1>3, <1>4, <1>5, <2>1 DEF Concluded
    <3>2. PICK t \in Submissions : t = events[c].sub
      BY <3>1, ConcludedKnown
    <3>3. Over(t)
      BY <3>1, <3>2 DEF OnceInv, ConcludedIsOver
    <3>4. Over(t)'
      BY <1>3, <1>4, <3>3 DEF Over
    <3>5. events'[c].sub = t
      BY <1>5, <3>2
    <3>6. QED
      BY <3>4, <3>5 DEF Over, Marks
  <2>2. QED
    BY <2>1 DEF ConcludedIsOver
<1>11. OneOutcome'
  <2>1. \A c \in Attempts : c # a => Recorded(c)' = Recorded(c)
    BY <1>5 DEF Recorded
  <2>2. \A c \in Attempts : Recorded(c)' <= 1
    BY <1>7, <2>1 DEF OnceInv, OneOutcome
  <2>3. \A c \in Attempts, g \in Handlers : Writes(g, c)' =>
          /\ Recorded(c)' = 0 /\ watch'.back.attempt # c
          /\ \A k \in Handlers : Writes(k, c)' => k = g
    BY <1>3, <1>4, <1>8, <2>1 DEF OnceInv, OneOutcome
  <2>4. watch'.back # NoClaim => Recorded(watch.back.attempt)' = 0
    <3>1. PICK d : d = watch.back.attempt
      OBVIOUS
    <3>2. watch.back # NoClaim => d \in Attempts /\ d # a /\ Recorded(d) = 0
      BY <1>6, <3>1 DEF OnceInv, OneOutcome, TypeInv, WatchSound
    <3>3. watch.back # NoClaim => Recorded(d)' = 0
      BY <2>1, <3>2
    <3>4. QED
      BY <1>3, <3>1, <3>3 DEF Recorded
  <2>5. QED
    BY <2>2, <2>3, <2>4 DEF OneOutcome
<1>12. ClaimsOpen'
  <2>1. \A c \in Attempts : Open(c) => Open(c)'
    BY <1>3, <1>5 DEF Open
  <2>2. ASSUME NEW s \in Submissions, claim'[s] # NoClaim
        PROVE  Open(claim[s].attempt)' /\ \A c \in watch'.todo : c.attempt # claim'[s].attempt
    <3>1. PICK d : d = claim[s].attempt
      OBVIOUS
    <3>2. d \in Attempts /\ Open(d) /\ \A c \in watch.todo : c.attempt # d
      BY <1>3, <2>2, <3>1 DEF OnceInv, ClaimsOpen, TypeInv, ClaimsSound, AttemptOf
    <3>3. Open(d)'
      BY <2>1, <3>2
    <3>4. QED
      BY <1>3, <3>1, <3>2, <3>3 DEF Open
  <2>3. ASSUME NEW c \in watch.todo PROVE Open(c.attempt)'
    <3>1. c.attempt \in Attempts /\ Open(c.attempt)
      BY DEF OnceInv, ClaimsOpen, TypeInv, WatchSound, AttemptOf
    <3>2. QED
      BY <2>1, <3>1
  <2>4. QED
    BY <1>3, <2>2, <2>3 DEF ClaimsOpen
<1>13. LogsBacked'
  <2>1. PICK l : logs' = Append(logs, l) /\ l.attempt = a
    BY <1>1 DEF RecordResult
  <2>2. logs \in Seq(Log) /\ logs' \in Seq(Log)
    BY ResultTypes DEF TypeInv, TypeOK, ResultStep
  <2>3. PICK k : k = logs
    OBVIOUS
  <2>4. k \in Seq(Log \cup {l}) /\ logs' = Append(k, l)
    BY <2>1, <2>2, <2>3
  <2>5. ASSUME NEW c \in Attempts
        PROVE  Cardinality({i \in DOMAIN logs' : logs'[i].attempt = c})
                 <= events'[c].done + events'[c].failed
    <3>1. PICK log2 : log2 = logs'
      OBVIOUS
    <3>2. PICK m : m = Cardinality(LinesOf(k, c))
      OBVIOUS
    <3>3. PICK n : n = Cardinality(LinesOf(log2, c))
      OBVIOUS
    <3>4. m <= events[c].done + events[c].failed
      BY <2>3, <3>2 DEF OnceInv, LogsBacked, LinesOf
    <3>5. m \in Nat /\ n \in Nat /\ n <= m + 1 /\ (l.attempt # c => n = m)
      <4>1. k \in Seq(Log \cup {l}) /\ log2 = Append(k, l) /\ l \in Log \cup {l}
        BY <2>4, <3>1
      <4>2. PICK p : p = Len(k)
        OBVIOUS
      <4>3. /\ p \in Nat /\ DOMAIN k = 1 .. p /\ DOMAIN log2 = 1 .. p + 1
            /\ log2[p + 1] = l /\ \A i \in 1 .. p : log2[i] = k[i]
        BY <4>1, <4>2
      <4>4. Cardinality(LinesOf(k, c)) \in Nat /\ Cardinality(LinesOf(log2, c)) \in Nat
        <5>1. p + 1 \in Nat
          BY <4>3
        <5>2. QED
          BY <4>3, <5>1, LinesCounted
      <4>5. Cardinality(LinesOf(log2, c)) <= Cardinality(LinesOf(k, c)) + 1
        BY <4>3, LogGrows
      <4>6. l.attempt # c => Cardinality(LinesOf(log2, c)) = Cardinality(LinesOf(k, c))
        BY <4>3, LogGrows
      <4>7. QED
        BY <3>2, <3>3, <4>4, <4>5, <4>6
    <3>7. PICK e : e = events[c].done + events[c].failed
      OBVIOUS
    <3>8. PICK f : f = events'[c].done + events'[c].failed
      OBVIOUS
    <3>9. e \in Nat
      BY <3>7, CountsTyped
    <3>10. n <= f
      <4>1. CASE c = a
        <5>1. f = e + 1
          BY <1>5, <3>7, <3>8, <4>1
        <5>2. QED
          BY <3>4, <3>5, <3>7, <3>9, <5>1
      <4>2. CASE c # a
        <5>1. f = e /\ n = m
          BY <1>5, <2>1, <3>5, <3>7, <3>8, <4>2
        <5>2. QED
          BY <3>4, <3>7, <5>1
      <4>3. QED
        BY <4>1, <4>2
    <3>11. n = Cardinality({i \in DOMAIN logs' : logs'[i].attempt = c})
      BY <3>1, <3>3 DEF LinesOf
    <3>12. QED
      BY <3>8, <3>10, <3>11
  <2>6. QED
    BY <2>5 DEF LogsBacked
<1>14. QED
  BY <1>9, <1>10, <1>11, <1>12, <1>13 DEF OnceInv
-----------------------------------------------------------------------------
\* A running submission is nowhere else.
LEMMA RunningOnly ==
  ASSUME TypeInv, OnceInv, NEW s \in Submissions, status[s] = "running"
  PROVE  /\ queue[s] = 0 /\ \A h \in Handlers : ~Marks(h, s)
         /\ ~Over(s) /\ \A a \in Attempts : events[a].sub = s => ~Concluded(a)
<1>1. queue[s] \in Nat
  BY DEF TypeInv, TypeOK
<1>2. queue[s] = 0 /\ \A h \in Handlers : ~Marks(h, s)
  BY <1>1 DEF OnceInv, InOnePlace
<1>3. ~Over(s)
  BY DEF Over
<1>4. QED
  BY <1>2, <1>3 DEF OnceInv, ConcludedIsOver

\* A poll is handed a job.
LEMMA ClaimsOnce ==
  ASSUME TypeInv, OnceInv, NEW h \in Handlers, Dispatch(h),
         NEW s \in Submissions, NEW a \in Attempts, Claims(h, s, a)
  PROVE  OnceInv'
<1>1. UNCHANGED <<row, status, logs, watch>>
  BY DEF Dispatch
<1>2. PICK w : w = req[h].worker
  OBVIOUS
<1> DEFINE v == [worker |-> w, sub |-> s, done |-> 0, failed |-> 0, requeued |-> 0]
           x == [pc |-> "mark_running", worker |-> w, token |-> req[h].token,
                 sub |-> s, attempt |-> a, kinds |-> {}]
           c == [worker |-> w, attempt |-> a]
<1>3. /\ queue[s] > 0 /\ claim[s] = NoClaim /\ events[a] = NoEvents
      /\ queue' = [queue EXCEPT ![s] = queue[s] - 1] /\ claim' = [claim EXCEPT ![s] = c]
      /\ events' = [events EXCEPT ![a] = v] /\ req' = [req EXCEPT ![h] = x]
  BY <1>2 DEF Claims
<1>4. /\ v.sub = s /\ v.done = 0 /\ v.failed = 0 /\ v.requeued = 0
      /\ x.pc = "mark_running" /\ x.sub = s /\ c.attempt = a
  OBVIOUS
<1> HIDE DEF v, x, c
<1>5. /\ \A t \in Submissions : queue'[t] = IF t = s THEN queue[s] - 1 ELSE queue[t]
      /\ \A t \in Submissions : claim'[t] = IF t = s THEN c ELSE claim[t]
      /\ \A b \in Attempts : events'[b] = IF b = a THEN v ELSE events[b]
      /\ \A g \in Handlers : req'[g] = IF g = h THEN x ELSE req[g]
  BY <1>3 DEF TypeInv, TypeOK
<1>6. /\ \A g \in Handlers, t \in Submissions : Marks(g, t)' => Marks(g, t) \/ (g = h /\ t = s)
      /\ \A g \in Handlers, b \in Attempts : Writes(g, b)' => Writes(g, b)
  BY <1>4, <1>5 DEF Marks, Writes
<1>7. queue[s] \in Nat /\ status[s] # "running" /\ \A g \in Handlers : ~Marks(g, s)
  BY <1>3 DEF TypeInv, TypeOK, OnceInv, InOnePlace
<1>8. queue'[s] = 0
  BY <1>3, <1>5, <1>7 DEF OnceInv, InOnePlace
<1>9. ~Concluded(a) /\ Recorded(a) = 0
  BY <1>3, ConcludedKnown DEF Recorded, NoEvents
<1>10. /\ watch.back.attempt # a
       /\ \A d \in watch.todo : d.attempt # a
  <2>1. events[a].worker = None
    BY <1>3 DEF NoEvents
  <2>2. watch.back # NoClaim => watch.back.attempt # a
    BY <2>1, WatchTyped, SomeAreNone DEF TypeInv, WatchSound
  <2>3. watch.back = NoClaim => watch.back.attempt # a
    BY RegistryAssumption DEF NoClaim, Attempts
  <2>4. \A d \in watch.todo : d.attempt # a
    BY <2>1, WatchTyped, SomeAreNone DEF TypeInv, WatchSound, AttemptOf
  <2>5. QED
    BY <2>2, <2>3, <2>4
<1>11. \A b \in Attempts : /\ Recorded(b)' = Recorded(b)
                           /\ events'[b].done + events'[b].failed = events[b].done + events[b].failed
                           /\ events'[b].requeued = events[b].requeued
  <2>1. ASSUME NEW b \in Attempts, b # a
        PROVE  events'[b] = events[b]
    BY <1>5, <2>1
  <2>2. /\ events'[a].done = 0 /\ events'[a].failed = 0 /\ events'[a].requeued = 0
        /\ events[a].done = 0 /\ events[a].failed = 0 /\ events[a].requeued = 0
    BY <1>3, <1>4, <1>5 DEF NoEvents
  <2>3. QED
    BY <2>1, <2>2 DEF Recorded
<1>12. InOnePlace'
  <2>1. ASSUME NEW t \in Submissions, t # s
        PROVE  /\ queue'[t] = queue[t] /\ status'[t] = status[t]
               /\ \A g \in Handlers : Marks(g, t)' => Marks(g, t)
    BY <1>1, <1>5, <1>6, <2>1
  <2>2. \A g \in Handlers : Marks(g, s)' => g = h
    BY <1>6, <1>7
  <2>3. ASSUME NEW t \in Submissions
        PROVE  /\ queue'[t] <= 1
               /\ queue'[t] > 0 => status'[t] # "running" /\ \A g \in Handlers : ~Marks(g, t)'
               /\ \A g \in Handlers : Marks(g, t)' =>
                    status'[t] # "running" /\ \A k \in Handlers : Marks(k, t)' => k = g
    <3>1. CASE t = s
      BY <1>1, <1>7, <1>8, <2>2, <3>1
    <3>2. CASE t # s
      BY <2>1, <3>2 DEF OnceInv, InOnePlace
    <3>3. QED
      BY <3>1, <3>2
  <2>4. QED
    BY <2>3 DEF InOnePlace
<1>13. ConcludedIsOver'
  <2>1. ASSUME NEW b \in Attempts, Concluded(b)' PROVE Over(events[b].sub)'
    <3>1. Concluded(b)
      BY <1>6, <1>11, <2>1 DEF Concluded
    <3>2. b # a /\ events'[b] = events[b]
      BY <1>5, <1>9, <3>1
    <3>3. PICK t \in Submissions : t = events[b].sub
      BY <3>1, ConcludedKnown
    <3>4. Over(t)
      BY <3>1, <3>3 DEF OnceInv, ConcludedIsOver
    <3>5. t # s
      BY <1>3, <3>4 DEF Over
    <3>6. Over(t)'
      BY <1>1, <1>5, <1>6, <3>4, <3>5 DEF Over
    <3>7. QED
      BY <3>2, <3>3, <3>6 DEF Over, Marks
  <2>2. QED
    BY <2>1 DEF ConcludedIsOver
<1>14. OneOutcome'
  <2>1. \A b \in Attempts : Recorded(b)' <= 1
    BY <1>11 DEF OnceInv, OneOutcome
  <2>2. \A b \in Attempts, g \in Handlers : Writes(g, b)' =>
          /\ Recorded(b)' = 0 /\ watch'.back.attempt # b
          /\ \A k \in Handlers : Writes(k, b)' => k = g
    BY <1>1, <1>6, <1>11 DEF OnceInv, OneOutcome
  <2>3. watch'.back # NoClaim => Recorded(watch.back.attempt)' = 0
    <3>1. PICK d : d = watch.back.attempt
      OBVIOUS
    <3>2. watch.back # NoClaim => d \in Attempts /\ Recorded(d) = 0
      BY <3>1, WatchTyped DEF OnceInv, OneOutcome
    <3>3. watch.back # NoClaim => Recorded(d)' = 0
      BY <1>11, <3>2
    <3>4. QED
      BY <1>1, <3>1, <3>3 DEF Recorded
  <2>4. QED
    BY <2>1, <2>2, <2>3 DEF OneOutcome
<1>15. ClaimsOpen'
  <2>1. \A b \in Attempts : Open(b) => Open(b)'
    BY <1>1, <1>11 DEF Open
  <2>2. Open(a)'
    BY <1>1, <1>4, <1>5, <1>10 DEF Open
  <2>3. ASSUME NEW t \in Submissions, claim'[t] # NoClaim
        PROVE  Open(claim[t].attempt)' /\ \A d \in watch'.todo : d.attempt # claim'[t].attempt
    <3>1. PICK b : b = claim'[t].attempt
      OBVIOUS
    <3>2. Open(b)' /\ \A d \in watch.todo : d.attempt # b
      <4>1. CASE t = s
        <5>1. b = a
          BY <1>4, <1>5, <3>1, <4>1
        <5>2. QED
          BY <1>10, <2>2, <5>1
      <4>2. CASE t # s
        <5>1. claim[t] # NoClaim /\ b = claim[t].attempt
          BY <1>5, <2>3, <3>1, <4>2
        <5>2. b \in Attempts /\ Open(b) /\ \A d \in watch.todo : d.attempt # b
          BY <5>1 DEF OnceInv, ClaimsOpen, TypeInv, ClaimsSound, AttemptOf
        <5>3. QED
          BY <2>1, <5>2
      <4>3. QED
        BY <4>1, <4>2
    <3>3. QED
      BY <1>1, <3>1, <3>2 DEF Open
  <2>4. ASSUME NEW d \in watch.todo PROVE Open(d.attempt)'
    BY <2>1, WatchTyped DEF OnceInv, ClaimsOpen
  <2>5. QED
    BY <1>1, <2>3, <2>4 DEF ClaimsOpen
<1>16. LogsBacked'
  BY <1>1, <1>11 DEF OnceInv, LogsBacked
<1>17. QED
  BY <1>12, <1>13, <1>14, <1>15, <1>16 DEF OnceInv
-----------------------------------------------------------------------------
LEMMA StaleOnce ==
  ASSUME TypeInv, OnceInv, DeleteStaleClaims
  PROVE  OnceInv'
<1>1. PICK stale \in SUBSET {s \in Submissions : Claimed(s)} :
        /\ watch' = [WatchIdle EXCEPT !.todo = Taken(stale)]
        /\ claim' = [s \in Submissions |-> IF s \in stale THEN NoClaim ELSE claim[s]]
  BY DEF DeleteStaleClaims, Taken
<1>2. UNCHANGED <<row, status, queue, events, logs, req>> /\ watch.back = NoClaim
  BY DEF DeleteStaleClaims, WatchIdle
<1>3. watch'.todo = Taken(stale) /\ watch'.back = NoClaim
  BY <1>1 DEF WatchIdle
<1>4. \A a \in Attempts : NoClaim.attempt # a
  BY RegistryAssumption DEF NoClaim, Attempts
<1>5. \A s \in Submissions : claim[s] # NoClaim =>
        claim[s].attempt \in Attempts /\ Open(claim[s].attempt) /\ events[claim[s].attempt].sub = s
  BY DEF OnceInv, ClaimsOpen, TypeInv, ClaimsSound, AttemptOf
<1>6. \A a \in Attempts : Open(a) => Open(a)'
  BY <1>2, <1>3, <1>4 DEF Open
<1>7. InOnePlace'
  BY <1>2 DEF OnceInv, InOnePlace, Marks
<1>8. ConcludedIsOver'
  BY <1>2 DEF OnceInv, ConcludedIsOver, Concluded, Over, Writes, Marks
<1>9. OneOutcome'
  BY <1>2, <1>3, <1>4 DEF OnceInv, OneOutcome, Recorded, Writes
<1>10. ClaimsOpen'
  <2>1. ASSUME NEW t \in Submissions, claim'[t] # NoClaim
        PROVE  Open(claim[t].attempt)' /\ \A d \in watch'.todo : d.attempt # claim'[t].attempt
    <3>1. PICK b : b = claim[t].attempt
      OBVIOUS
    <3>2. t \notin stale /\ claim'[t] = claim[t] /\ claim[t] # NoClaim
      BY <1>1, <2>1
    <3>3. b \in Attempts /\ Open(b) /\ events[b].sub = t
      BY <1>5, <3>1, <3>2
    <3>4. Open(b)'
      BY <1>6, <3>3
    <3>5. \A d \in Taken(stale) : d.attempt # b
      <4>1. ASSUME NEW s \in stale, claim[s].attempt = b PROVE FALSE
        <5>1. events[b].sub = s
          BY <1>5, <4>1 DEF Claimed
        <5>2. QED
          BY <3>2, <3>3, <5>1
      <4>2. QED
        BY <4>1 DEF Taken
    <3>6. QED
      BY <1>3, <3>1, <3>2, <3>4, <3>5 DEF Open
  <2>2. ASSUME NEW d \in watch'.todo PROVE Open(d.attempt)'
    <3>1. PICK s \in stale : d.attempt = claim[s].attempt
      BY <1>3, <2>2 DEF Taken
    <3>2. PICK b : b = d.attempt
      OBVIOUS
    <3>3. b \in Attempts /\ Open(b)
      BY <1>5, <3>1, <3>2 DEF Claimed
    <3>4. Open(b)'
      BY <1>6, <3>3
    <3>5. QED
      BY <3>2, <3>4 DEF Open
  <2>3. QED
    BY <2>1, <2>2 DEF ClaimsOpen
<1>11. LogsBacked'
  BY <1>2 DEF OnceInv, LogsBacked
<1>12. QED
  BY <1>7, <1>8, <1>9, <1>10, <1>11 DEF OnceInv

\* A submission that was running waits in the queue again.
LEMMA PutBackInPlace ==
  ASSUME TypeInv, OnceInv, NEW s \in Submissions, status[s] = "running",
         status' = [status EXCEPT ![s] = "queued"], queue' = [queue EXCEPT ![s] = @ + 1],
         UNCHANGED <<events, req>>
  PROVE  InOnePlace' /\ ConcludedIsOver'
<1>1. queue[s] = 0 /\ ~Over(s) /\ \A h \in Handlers : ~Marks(h, s)
  BY RunningOnly
<1>2. /\ \A t \in Submissions : queue'[t] = IF t = s THEN 1 ELSE queue[t]
      /\ \A t \in Submissions : status'[t] = IF t = s THEN "queued" ELSE status[t]
  BY <1>1 DEF TypeInv, TypeOK
<1>3. InOnePlace'
  <2>1. ASSUME NEW t \in Submissions
        PROVE  /\ queue'[t] <= 1
               /\ queue'[t] > 0 => status'[t] # "running" /\ \A g \in Handlers : ~Marks(g, t)'
               /\ \A g \in Handlers : Marks(g, t)' =>
                    status'[t] # "running" /\ \A k \in Handlers : Marks(k, t)' => k = g
    <3>1. CASE t = s
      BY <1>1, <1>2, <3>1 DEF Marks
    <3>2. CASE t # s
      BY <1>2, <3>2 DEF OnceInv, InOnePlace, Marks
    <3>3. QED
      BY <3>1, <3>2
  <2>2. QED
    BY <2>1 DEF InOnePlace
<1>4. ConcludedIsOver'
  <2>1. \A a \in Attempts : Concluded(a)' => Concluded(a)
    BY DEF Concluded, Writes
  <2>2. \A t \in Submissions : Over(t) => OverStays(t)
    BY <1>1, <1>2 DEF OverStays, Marks
  <2>3. QED
    BY <2>1, <2>2, ConcludedStays
<1>5. QED
  BY <1>3, <1>4

LEMMA OrphanOnce ==
  ASSUME TypeInv, OnceInv, NEW s \in Submissions, RequeueOrphan(s)
  PROVE  OnceInv'
<1>1. InOnePlace' /\ ConcludedIsOver'
  BY PutBackInPlace DEF RequeueOrphan
<1>2. UNCHANGED <<claim, events, logs, req, watch>>
  BY DEF RequeueOrphan
<1>3. OneOutcome' /\ ClaimsOpen' /\ LogsBacked'
  BY <1>2 DEF OnceInv, OneOutcome, ClaimsOpen, LogsBacked, Recorded, Writes, Open
<1>4. QED
  BY <1>1, <1>3 DEF OnceInv

\* The reaper puts a job back, or leaves one alone that is not running.
LEMMA RequeueOnce ==
  ASSUME TypeInv, OnceInv, NEW c \in watch.todo, RequeueStale(c)
  PROVE  OnceInv'
<1>1. PICK s, a, w : s = c.sub /\ a = c.attempt /\ w = c.worker
  OBVIOUS
<1>2. /\ s \in Submissions /\ w \in Workers /\ a \in Attempts /\ Open(a)
      /\ events[a].sub = s /\ watch.back = NoClaim
  BY <1>1, WatchTyped DEF TypeInv, WatchSound, AttemptOf, OnceInv, ClaimsOpen, RequeueStale
<1>3. UNCHANGED <<row, claim, events, logs, req>>
  BY DEF RequeueStale
<1>4. PICK back, T : /\ watch' = [todo |-> T, back |-> back] /\ T = watch.todo \ {c}
                     /\ \/ /\ status[s] = "running" /\ back = [worker |-> w, attempt |-> a]
                           /\ status' = [status EXCEPT ![s] = "queued"]
                           /\ queue' = [queue EXCEPT ![s] = @ + 1]
                        \/ back = NoClaim /\ UNCHANGED <<status, queue>>
  <2>1. watch = [todo |-> watch.todo, back |-> NoClaim]
    BY <1>2, WatchTyped
  <2>2. [watch EXCEPT !.todo = @ \ {c}] = [todo |-> watch.todo \ {c}, back |-> NoClaim]
    BY <2>1
  <2>3. QED
    BY <1>1, <2>2 DEF RequeueStale
<1>5. watch'.todo = T /\ watch'.back = back
  BY <1>4
<1>6. back.attempt = a \/ (back = NoClaim /\ \A b \in Attempts : back.attempt # b)
  BY <1>4, RegistryAssumption DEF NoClaim, Attempts
<1>7. back # NoClaim => ~Concluded(a) /\ Recorded(a) = 0 /\ \A g \in Handlers : ~Writes(g, a)
  <2>1. back # NoClaim => ~Concluded(a)
    BY <1>2, <1>4, RunningOnly
  <2>2. QED
    BY <1>2, <2>1, CountsTyped DEF Concluded, Recorded, Open
<1>8. InOnePlace' /\ ConcludedIsOver'
  <2>1. CASE /\ status[s] = "running" /\ status' = [status EXCEPT ![s] = "queued"]
             /\ queue' = [queue EXCEPT ![s] = @ + 1]
    BY <1>2, <1>3, <2>1, PutBackInPlace
  <2>2. CASE UNCHANGED <<status, queue>>
    BY <1>3, <2>2 DEF OnceInv, InOnePlace, ConcludedIsOver, Concluded, Over, Writes, Marks
  <2>3. QED
    BY <1>4, <2>1, <2>2
<1>9. OneOutcome'
  <2>1. \A b \in Attempts : Recorded(b)' <= 1
    BY <1>3 DEF OnceInv, OneOutcome, Recorded
  <2>2. ASSUME NEW b \in Attempts, NEW g \in Handlers, Writes(g, b)'
        PROVE  /\ Recorded(b)' = 0 /\ watch'.back.attempt # b
               /\ \A k \in Handlers : Writes(k, b)' => k = g
    <3>1. Writes(g, b)
      BY <1>3, <2>2 DEF Writes
    <3>2. /\ Recorded(b)' = 0
          /\ \A k \in Handlers : Writes(k, b)' => k = g
      BY <1>3, <3>1 DEF OnceInv, OneOutcome, Recorded, Writes
    <3>3. back.attempt # b
      <4>1. CASE back = NoClaim
        BY <4>1, RegistryAssumption DEF NoClaim, Attempts
      <4>2. CASE back # NoClaim
        BY <1>6, <1>7, <3>1, <4>2
      <4>3. QED
        BY <4>1, <4>2
    <3>4. QED
      BY <1>5, <3>2, <3>3
  <2>3. watch'.back # NoClaim => Recorded(watch.back.attempt)' = 0
    <3>1. back # NoClaim => events[a].done + events[a].failed + events[a].requeued = 0 /\ back.attempt = a
      BY <1>6, <1>7 DEF Recorded
    <3>2. back # NoClaim => events'[back.attempt].done + events'[back.attempt].failed
                             + events'[back.attempt].requeued = 0
      BY <1>3, <3>1
    <3>3. QED
      BY <1>5, <3>2 DEF Recorded
  <2>4. QED
    BY <2>1, <2>2, <2>3 DEF OneOutcome
<1>10. ClaimsOpen'
  <2>1. \A b \in Attempts : Open(b) /\ b # a => Open(b)'
    BY <1>3, <1>5, <1>6 DEF Open
  <2>2. ASSUME NEW t \in Submissions, claim'[t] # NoClaim
        PROVE  Open(claim[t].attempt)' /\ \A d \in watch'.todo : d.attempt # claim'[t].attempt
    <3>1. PICK b : b = claim[t].attempt
      OBVIOUS
    <3>2. b \in Attempts /\ Open(b) /\ \A d \in watch.todo : d.attempt # b
      BY <1>3, <2>2, <3>1 DEF OnceInv, ClaimsOpen, TypeInv, ClaimsSound, AttemptOf
    <3>3. b # a
      BY <1>1, <3>2
    <3>4. Open(b)'
      BY <2>1, <3>2, <3>3
    <3>5. QED
      BY <1>3, <1>4, <1>5, <3>1, <3>2, <3>4 DEF Open
  <2>3. ASSUME NEW d \in T PROVE Open(d.attempt)'
    <3>1. PICK b : b = d.attempt
      OBVIOUS
    <3>2. d \in watch.todo /\ d # c
      BY <1>4
    <3>3. b \in Attempts /\ Open(b)
      BY <3>1, <3>2, WatchTyped DEF OnceInv, ClaimsOpen
    <3>4. b # a
      <4>1. SUFFICES ASSUME b = a PROVE FALSE
        OBVIOUS
      <4>2. d.sub = events[a].sub /\ d.worker = events[a].worker /\ d.attempt = a
        BY <3>1, <3>2, <4>1 DEF TypeInv, WatchSound, AttemptOf
      <4>3. c.sub = events[a].sub /\ c.worker = events[a].worker /\ c.attempt = a
        BY <1>1 DEF TypeInv, WatchSound, AttemptOf
      <4>4. c \in [sub: Submissions, worker: Workers, attempt: Attempts]
            /\ d \in [sub: Submissions, worker: Workers, attempt: Attempts]
        BY <3>2, WatchTyped DEF WatchTypes
      <4>5. c = d
        BY <4>2, <4>3, <4>4
      <4>6. QED
        BY <3>2, <4>5
    <3>5. Open(b)'
      BY <2>1, <3>3, <3>4
    <3>6. QED
      BY <3>1, <3>5 DEF Open
  <2>4. QED
    BY <1>5, <2>2, <2>3 DEF ClaimsOpen
<1>11. LogsBacked'
  BY <1>3 DEF OnceInv, LogsBacked
<1>12. QED
  BY <1>8, <1>9, <1>10, <1>11 DEF OnceInv

LEMMA CountOnce ==
  ASSUME TypeInv, OnceInv, CountRequeued
  PROVE  OnceInv'
<1>1. PICK a : a = watch.back.attempt
  OBVIOUS
<1>2. a \in Attempts /\ watch.back # NoClaim
  BY <1>1, WatchTyped DEF CountRequeued
<1>3. /\ events' = [events EXCEPT ![a].requeued = @ + 1]
      /\ UNCHANGED <<status, queue, claim, logs, req>>
  BY <1>1 DEF CountRequeued
<1>4. watch'.todo = watch.todo /\ watch'.back = NoClaim
  <2>1. watch' = [todo |-> watch.todo, back |-> NoClaim]
    BY WatchTyped DEF CountRequeued
  <2>2. QED
    BY <2>1
<1>5. /\ \A b \in Attempts : b # a => events'[b] = events[b]
      /\ events'[a].sub = events[a].sub /\ events'[a].done = events[a].done
      /\ events'[a].failed = events[a].failed /\ events'[a].requeued = events[a].requeued + 1
  <2>1. PICK v : v = events[a]
    OBVIOUS
  <2>2. v \in Events \cup {NoEvents}
    BY <1>2, <2>1 DEF TypeInv, TypeOK
  <2>3. events'[a] = [v EXCEPT !.requeued = @ + 1] /\ \A b \in Attempts : b # a => events'[b] = events[b]
    BY <1>2, <1>3, <2>1 DEF TypeInv, TypeOK
  <2>4. /\ events'[a].sub = v.sub /\ events'[a].done = v.done
        /\ events'[a].failed = v.failed /\ events'[a].requeued = v.requeued + 1
    BY <2>2, <2>3 DEF Events, NoEvents
  <2>5. QED
    BY <2>1, <2>3, <2>4
<1>6. \A b \in Attempts : NoClaim.attempt # b
  BY RegistryAssumption DEF NoClaim, Attempts
<1>7. Recorded(a) = 0 /\ \A g \in Handlers : ~Writes(g, a)
  BY <1>1, <1>2 DEF OnceInv, OneOutcome
<1>8. \A b \in Attempts : /\ events'[b].done + events'[b].failed = events[b].done + events[b].failed
                          /\ events'[b].sub = events[b].sub
  BY <1>5
<1>9. InOnePlace'
  BY <1>3 DEF OnceInv, InOnePlace, Marks
<1>10. ConcludedIsOver'
  <2>1. ASSUME NEW b \in Attempts, Concluded(b)' PROVE Over(events[b].sub)'
    <3>1. PICK t : t = events[b].sub
      OBVIOUS
    <3>2. Concluded(b)
      BY <1>3, <1>8, <2>1 DEF Concluded, Writes
    <3>3. Over(t)
      BY <3>1, <3>2 DEF OnceInv, ConcludedIsOver
    <3>4. Over(t)'
      BY <1>3, <3>3 DEF Over, Marks
    <3>5. QED
      BY <1>8, <3>1, <3>4 DEF Over, Marks
  <2>2. QED
    BY <2>1 DEF ConcludedIsOver
<1>11. OneOutcome'
  <2>1. Recorded(a)' = 1
    BY <1>2, <1>5, <1>7, CountsTyped DEF Recorded
  <2>2. \A b \in Attempts : b # a => Recorded(b)' = Recorded(b)
    BY <1>5 DEF Recorded
  <2>3. \A b \in Attempts : Recorded(b)' <= 1
    BY <2>1, <2>2 DEF OnceInv, OneOutcome
  <2>4. \A b \in Attempts, g \in Handlers : Writes(g, b)' => Writes(g, b) /\ b # a
    BY <1>3, <1>7 DEF Writes
  <2>5. \A b \in Attempts, g \in Handlers : Writes(g, b)' =>
          /\ Recorded(b)' = 0 /\ watch'.back.attempt # b
          /\ \A k \in Handlers : Writes(k, b)' => k = g
    BY <1>4, <1>6, <2>2, <2>4 DEF OnceInv, OneOutcome
  <2>6. QED
    BY <1>4, <2>3, <2>5 DEF OneOutcome
<1>12. ClaimsOpen'
  <2>1. \A b \in Attempts : Open(b) => Open(b)'
    BY <1>1, <1>4, <1>5, <1>6 DEF Open
  <2>2. ASSUME NEW t \in Submissions, claim'[t] # NoClaim
        PROVE  Open(claim[t].attempt)' /\ \A d \in watch'.todo : d.attempt # claim'[t].attempt
    <3>1. PICK b : b = claim[t].attempt
      OBVIOUS
    <3>2. b \in Attempts /\ Open(b) /\ \A d \in watch.todo : d.attempt # b
      BY <1>3, <2>2, <3>1 DEF OnceInv, ClaimsOpen, TypeInv, ClaimsSound, AttemptOf
    <3>3. Open(b)'
      BY <2>1, <3>2
    <3>4. QED
      BY <1>3, <1>4, <3>1, <3>2, <3>3 DEF Open
  <2>3. ASSUME NEW d \in watch.todo PROVE Open(d.attempt)'
    BY <2>1, WatchTyped DEF OnceInv, ClaimsOpen
  <2>4. QED
    BY <1>4, <2>2, <2>3 DEF ClaimsOpen
<1>13. LogsBacked'
  BY <1>3, <1>8 DEF OnceInv, LogsBacked
<1>14. QED
  BY <1>9, <1>10, <1>11, <1>12, <1>13 DEF OnceInv

LEMMA NextOnce == TypeInv /\ OnceInv /\ [Next]_vars => OnceInv'
<1> SUFFICES ASSUME TypeInv, OnceInv, [Next]_vars PROVE OnceInv'
  OBVIOUS
<1>1. ASSUME \/ \E w \in Workers : RowStep(w)
             \/ \E h \in Handlers :
                  \/ FetchWorker(h) \/ NoJob(h) \/ \E w \in Workers : ClaimNext(h, w)
                  \/ \E w \in Workers, a \in Attempts : SubmitResult(h, w, a)
                  \/ Dispatch(h) /\ Reply(h) /\ UNCHANGED <<queue, claim, events>>
                  \/ CheckResult(h) \/ CountResult(h) \/ DeleteClaim(h)
                  \/ MarkResult(h) /\ Reply(h) /\ UNCHANGED status
      PROVE  OnceInv'
  BY <1>1, StepsLeave, OnceFrame
<1>2. ASSUME NEW h \in Handlers, Dispatch(h) PROVE OnceInv'
  BY <1>1, <1>2, DispatchCases, ClaimsOnce
<1>3. ASSUME NEW h \in Handlers, MarkResult(h) PROVE OnceInv'
  <2>1. MayCommit(h) \/ (Reply(h) /\ UNCHANGED status)
    BY <1>3 DEF MarkResult
  <2>2. QED
    BY <1>1, <1>3, <2>1, MarkResultOnce
<1>4. ASSUME NEW h \in Handlers, MarkRunning(h) \/ RecordResult(h) PROVE OnceInv'
  BY <1>4, MarkRunningOnce, RecordOnce
<1>5. CASE ReaperStep
  BY <1>5, StaleOnce, OrphanOnce, RequeueOnce, CountOnce DEF ReaperStep
<1>6. CASE UNCHANGED vars
  <2>1. UNCHANGED <<status, queue, events, logs, watch>> /\ Leaves
    BY <1>6 DEF vars, Leaves, Marks, Writes
  <2>2. QED
    BY <2>1, OnceFrame
<1>7. CASE Next
  BY <1>1, <1>2, <1>3, <1>4, <1>5, <1>7 DEF Next, RowStep, ReaperStep
<1>8. QED
  BY <1>6, <1>7

\* Whatever an agent repeats and whatever the reaper takes meanwhile, an attempt
\* has at most one outcome among the events - its result committed as done, as
\* failed, or its job put back - and the log of run times has no line of it
\* without a committed result.  The argument: a submission waits in the queue,
\* is about to be marked, or runs, in one place only, and in none once a result
\* was committed; so a commit, which needs a running submission and a claim,
\* and a requeue, which needs a running submission, exclude each other.
THEOREM OneOutcomePerAttempt == Spec => []OutcomeRecordedOnce
<1>1. TypeInv /\ OnceInv => OutcomeRecordedOnce
  BY DEF OnceInv, OneOutcome, LogsBacked, OutcomeRecordedOnce, Recorded
<1>2. QED
  BY <1>1, InitTypes, NextTypes, InitOnce, NextOnce, PTL DEF Spec
-----------------------------------------------------------------------------
(***************************************************************************)
(* The counters of a worker and the events of its attempts.                *)
(***************************************************************************)
Dones == [a \in Attempts |-> events[a].done]
Losses == [a \in Attempts |-> events[a].failed + events[a].requeued]
CounterInv ==
  \A w \in Workers :
    /\ row[w].completed <= SumOf(Dones, AttemptsOf(w)) + Cardinality(Committing(w, "done"))
    /\ row[w].failed <= SumOf(Losses, AttemptsOf(w)) + Cardinality(Committing(w, "failed"))

LEMMA AttemptsFinite ==
  IsFiniteSet(Attempts) /\ \A w \in Workers : AttemptsOf(w) \subseteq Attempts /\ IsFiniteSet(AttemptsOf(w))
<1>1. 1 \in Int /\ MaxAttempts \in Int
  BY RegistryAssumption
<1>2. IsFiniteSet(1 .. MaxAttempts)
  BY <1>1, FS_Interval
<1>3. \A w \in Workers : AttemptsOf(w) \subseteq Attempts
  BY DEF AttemptsOf
<1>4. QED
  BY <1>2, <1>3, FS_Subset DEF Attempts

LEMMA DonesTyped ==
  TypeInv => \A a \in Attempts : Dones[a] \in Nat /\ Losses[a] \in Nat
BY CountsTyped DEF Dones, Losses

LEMMA TotalOfDones ==
  ASSUME NEW S \in SUBSET Attempts
  PROVE  Total(LAMBDA a : events[a].done, S) = SumOf(Dones, S)
<1> DEFINE Solves(g) == g = [s \in SUBSET S |-> IF s = {} THEN 0
                                                ELSE events[Pick(s)].done + g[s \ {Pick(s)}]]
<1>1. Total(LAMBDA a : events[a].done, S) = (CHOOSE g : Solves(g))[S]
  BY DEF Total, MapThenSumSet, MapThenFoldSet, Pick
<1>2. IsFiniteSet(S)
  BY AttemptsFinite, FS_Subset
<1>3. \A s \in SUBSET S : s # {} => Pick(s) \in Attempts /\ Dones[Pick(s)] = events[Pick(s)].done
  BY DEF Pick, Dones
<1>4. ASSUME NEW g PROVE Solves(g) <=> Sums(Dones, S, g)
  <2>1. [s \in SUBSET S |-> IF s = {} THEN 0 ELSE events[Pick(s)].done + g[s \ {Pick(s)}]]
          = [s \in SUBSET S |-> IF s = {} THEN 0 ELSE Dones[Pick(s)] + g[s \ {Pick(s)}]]
    BY <1>3
  <2>2. QED
    BY <2>1 DEF Sums
<1>5. PICK g : Sums(Dones, S, g)
  BY <1>2, SumsExist
<1> DEFINE g2 == CHOOSE h : Solves(h)
<1>6. Solves(g2)
  <2> HIDE DEF Solves
  <2> QED  BY <1>4, <1>5
<1> HIDE DEF g2, Solves
<1>7. SumOf(Dones, S) = g2[S]
  BY <1>2, <1>4, <1>6, SumIs
<1>8. QED
  BY <1>1, <1>7 DEF g2

LEMMA TotalOfLosses ==
  ASSUME NEW S \in SUBSET Attempts
  PROVE  Total(LAMBDA a : events[a].failed + events[a].requeued, S) = SumOf(Losses, S)
<1> DEFINE Solves(g) == g = [s \in SUBSET S |-> IF s = {} THEN 0
                               ELSE (events[Pick(s)].failed + events[Pick(s)].requeued) + g[s \ {Pick(s)}]]
<1>1. Total(LAMBDA a : events[a].failed + events[a].requeued, S) = (CHOOSE g : Solves(g))[S]
  BY DEF Total, MapThenSumSet, MapThenFoldSet, Pick
<1>2. IsFiniteSet(S)
  BY AttemptsFinite, FS_Subset
<1>3. \A s \in SUBSET S : s # {} =>
        Pick(s) \in Attempts /\ Losses[Pick(s)] = events[Pick(s)].failed + events[Pick(s)].requeued
  BY DEF Pick, Losses
<1>4. ASSUME NEW g PROVE Solves(g) <=> Sums(Losses, S, g)
  <2>1. [s \in SUBSET S |-> IF s = {} THEN 0
              ELSE (events[Pick(s)].failed + events[Pick(s)].requeued) + g[s \ {Pick(s)}]]
          = [s \in SUBSET S |-> IF s = {} THEN 0 ELSE Losses[Pick(s)] + g[s \ {Pick(s)}]]
    BY <1>3
  <2>2. QED
    BY <2>1 DEF Sums
<1>5. PICK g : Sums(Losses, S, g)
  BY <1>2, SumsExist
<1> DEFINE g2 == CHOOSE h : Solves(h)
<1>6. Solves(g2)
  <2> HIDE DEF Solves
  <2> QED  BY <1>4, <1>5
<1> HIDE DEF g2, Solves
<1>7. SumOf(Losses, S) = g2[S]
  BY <1>2, <1>4, <1>6, SumIs
<1>8. QED
  BY <1>1, <1>7 DEF g2

LEMMA CommittingFinite ==
  ASSUME NEW w, NEW v
  PROVE  IsFiniteSet(Committing(w, v)) /\ Cardinality(Committing(w, v)) \in Nat
<1>1. Committing(w, v) \subseteq Handlers
  BY DEF Committing
<1>2. QED
  BY <1>1, FiniteAssumption, FS_Subset, FS_CardinalityType

\* A slot that is at another step before and after.
LEMMA SlotCommits ==
  ASSUME TypeInv, NEW h \in Handlers, NEW x, req' = [req EXCEPT ![h] = x],
         req[h].pc # "record", x.pc # "record"
  PROVE  \A w, v : Committing(w, v)' = Committing(w, v)
<1>1. \A g \in Handlers : req'[g] = IF g = h THEN x ELSE req[g]
  BY DEF TypeInv, TypeOK
<1>2. QED
  BY <1>1 DEF Committing, Finished

LEMMA CountersFrame ==
  ASSUME TypeInv, TypeInv', CounterInv, UNCHANGED events,
         \A w \in Workers : row'[w].completed <= row[w].completed /\ row'[w].failed <= row[w].failed,
         \A w, v : Committing(w, v)' = Committing(w, v)
  PROVE  CounterInv'
<1>1. Dones' = Dones /\ Losses' = Losses /\ \A w \in Workers : AttemptsOf(w)' = AttemptsOf(w)
  BY DEF Dones, Losses, AttemptsOf
<1>2. ASSUME NEW w \in Workers
      PROVE  /\ row'[w].completed <= SumOf(Dones, AttemptsOf(w))' + Cardinality(Committing(w, "done"))'
             /\ row'[w].failed <= SumOf(Losses, AttemptsOf(w))' + Cardinality(Committing(w, "failed"))'
  <2>1. PICK d : d = SumOf(Dones, AttemptsOf(w)) + Cardinality(Committing(w, "done"))
    OBVIOUS
  <2>2. PICK l : l = SumOf(Losses, AttemptsOf(w)) + Cardinality(Committing(w, "failed"))
    OBVIOUS
  <2>3. d \in Nat /\ l \in Nat
    BY <2>1, <2>2, AttemptsFinite, CommittingFinite, SumTyped, DonesTyped
  <2>4. row[w].completed \in Nat /\ row'[w].completed \in Nat /\ row[w].failed \in Nat /\ row'[w].failed \in Nat
    BY DEF TypeInv, TypeOK, Row
  <2>5. row[w].completed <= d /\ row[w].failed <= l
    BY <2>1, <2>2 DEF CounterInv
  <2>6. row'[w].completed <= d /\ row'[w].failed <= l
    BY <2>3, <2>4, <2>5
  <2>7. /\ SumOf(Dones, AttemptsOf(w))' + Cardinality(Committing(w, "done"))' = d
        /\ SumOf(Losses, AttemptsOf(w))' + Cardinality(Committing(w, "failed"))' = l
    BY <1>1, <2>1, <2>2 DEF SumOf, Sums
  <2>8. QED
    BY <2>6, <2>7
<1>3. QED
  BY <1>2 DEF CounterInv
-----------------------------------------------------------------------------
\* Steps of a slot that count nothing.
QuietStep(h) ==
  \/ FetchWorker(h) \/ NoJob(h) \/ (\E w \in Workers : ClaimNext(h, w))
  \/ (\E w \in Workers, a \in Attempts : SubmitResult(h, w, a))
  \/ (Dispatch(h) /\ Reply(h) /\ UNCHANGED <<queue, claim, events>>)
  \/ MarkRunning(h) \/ CheckResult(h) \/ MarkResult(h) \/ DeleteClaim(h)

LEMMA QuietSlots ==
  ASSUME TypeInv, NEW h \in Handlers, QuietStep(h)
  PROVE  UNCHANGED <<row, events>> /\ \A w, v : Committing(w, v)' = Committing(w, v)
<1> DEFINE Same == UNCHANGED <<row, events>> /\ \A w, v : Committing(w, v)' = Committing(w, v)
<1>1. ASSUME Reply(h), req[h].pc # "record", UNCHANGED <<row, events>> PROVE Same
  <2>1. Idle.pc # "record"
    BY DEF Idle
  <2>2. QED
    BY <1>1, <2>1, SlotCommits DEF Reply
<1>2. ASSUME NEW pc, Goto(h, pc), pc # "record", req[h].pc # "record", UNCHANGED <<row, events>>
      PROVE  Same
  <2> DEFINE x == [req[h] EXCEPT !.pc = pc]
  <2>1. req' = [req EXCEPT ![h] = x]
    BY <1>2 DEF Goto
  <2>2. x.pc = pc
    BY DEF TypeInv, TypeOK, Request
  <2> HIDE DEF x
  <2>3. QED
    BY <1>2, <2>1, <2>2, SlotCommits
<1>3. ASSUME NEW w \in Workers, ClaimNext(h, w) PROVE Same
  <2> DEFINE x == [Idle EXCEPT !.pc = "fetch", !.worker = w, !.token = row[w].token]
  <2>1. req' = [req EXCEPT ![h] = x] /\ x.pc = "fetch"
    BY <1>3 DEF ClaimNext, Idle
  <2>2. req[h].pc # "record"
    BY <1>3 DEF ClaimNext, Idle
  <2> HIDE DEF x
  <2>3. QED
    BY <1>3, <2>1, <2>2, SlotCommits DEF ClaimNext
<1>4. ASSUME NEW w \in Workers, NEW a \in Attempts, SubmitResult(h, w, a) PROVE Same
  <2> DEFINE x == [pc |-> "check", worker |-> w, token |-> row[w].token, sub |-> events[a].sub,
                   attempt |-> a, kinds |-> {}]
  <2>1. req' = [req EXCEPT ![h] = x] /\ x.pc = "check"
    BY <1>4 DEF SubmitResult
  <2>2. req[h].pc # "record"
    BY <1>4 DEF SubmitResult, Idle
  <2> HIDE DEF x
  <2>3. QED
    BY <1>4, <2>1, <2>2, SlotCommits DEF SubmitResult
<1>5. CASE FetchWorker(h)
  <2>1. PICK kinds : req' = [req EXCEPT ![h].pc = "dispatch", ![h].kinds = kinds] \/ Reply(h)
    BY <1>5 DEF FetchWorker
  <2>2. req[h].pc # "record" /\ UNCHANGED <<row, events>>
    BY <1>5 DEF FetchWorker
  <2>3. CASE req' = [req EXCEPT ![h].pc = "dispatch", ![h].kinds = kinds]
    <3> DEFINE x == [req[h] EXCEPT !.pc = "dispatch", !.kinds = kinds]
    <3>1. req' = [req EXCEPT ![h] = x]
      BY <2>3
    <3>2. x.pc = "dispatch"
      BY DEF TypeInv, TypeOK, Request
    <3> HIDE DEF x
    <3>3. QED
      BY <2>2, <3>1, <3>2, SlotCommits
  <2>4. QED
    BY <1>1, <2>1, <2>2, <2>3
<1>6. CASE NoJob(h)
  BY <1>1, <1>6 DEF NoJob
<1>7. CASE Dispatch(h) /\ Reply(h) /\ UNCHANGED <<queue, claim, events>>
  BY <1>1, <1>7 DEF Dispatch
<1>8. CASE MarkRunning(h)
  BY <1>1, <1>8 DEF MarkRunning
<1>9. CASE CheckResult(h)
  BY <1>1, <1>2, <1>9 DEF CheckResult
<1>10. CASE MarkResult(h)
  BY <1>1, <1>2, <1>10 DEF MarkResult
<1>11. CASE DeleteClaim(h)
  BY <1>1, <1>11 DEF DeleteClaim
<1>12. QED
  BY <1>3, <1>4, <1>5, <1>6, <1>7, <1>8, <1>9, <1>10, <1>11 DEF QuietStep

LEMMA RowKeepsCounts ==
  ASSUME TypeInv, NEW w \in Workers, RowStep(w)
  PROVE  /\ UNCHANGED <<events, req>>
         /\ \A u \in Workers : row'[u].completed <= row[u].completed /\ row'[u].failed <= row[u].failed
<1>1. UNCHANGED <<events, req>>
  BY DEF RowStep, Register, AdminApprove, AdminReject, AdminDelete
<1>2. PICK v : v = row'[w]
  OBVIOUS
<1>3. row' = [row EXCEPT ![w] = v]
  BY <1>2 DEF RowStep, Register, AdminApprove, AdminReject, AdminDelete, TypeInv, TypeOK
<1>4. row[w] \in Row
  BY DEF TypeInv, TypeOK
<1>5. (v.completed = row[w].completed /\ v.failed = row[w].failed) \/ (v.completed = 0 /\ v.failed = 0)
  <2>1. PICK r : r = row[w]
    OBVIOUS
  <2>2. r \in Row
    BY <1>4, <2>1
  <2>3. \/ v = [r EXCEPT !.status = "pending"]
        \/ v = [r EXCEPT !.status = "active", !.token = @ + 1]
        \/ v = [r EXCEPT !.status = "rejected"]
        \/ v = [NoRow EXCEPT !.status = "deleted"]
    BY <1>2, <2>1 DEF RowStep, Register, AdminApprove, AdminReject, AdminDelete, TypeInv, TypeOK
  <2>4. (v.completed = r.completed /\ v.failed = r.failed) \/ (v.completed = 0 /\ v.failed = 0)
    BY <2>2, <2>3 DEF Row, NoRow
  <2>5. QED
    BY <2>1, <2>4
<1>6. \A u \in Workers : row[u].completed \in Nat /\ row[u].failed \in Nat
  BY DEF TypeInv, TypeOK, Row
<1>7. \A u \in Workers : u # w => row'[u] = row[u]
  BY <1>3 DEF TypeInv, TypeOK
<1>8. row'[w].completed <= row[w].completed /\ row'[w].failed <= row[w].failed
  BY <1>2, <1>5, <1>6
<1>9. QED
  BY <1>1, <1>6, <1>7, <1>8

\* The sums of the workers around a step.
LEMMA RoomOf ==
  ASSUME TypeInv, CounterInv, NEW w \in Workers
  PROVE  /\ SumOf(Dones, AttemptsOf(w)) \in Nat /\ SumOf(Losses, AttemptsOf(w)) \in Nat
         /\ Cardinality(Committing(w, "done")) \in Nat /\ Cardinality(Committing(w, "failed")) \in Nat
         /\ row[w].completed \in Nat /\ row[w].failed \in Nat
         /\ row[w].completed <= SumOf(Dones, AttemptsOf(w)) + Cardinality(Committing(w, "done"))
         /\ row[w].failed <= SumOf(Losses, AttemptsOf(w)) + Cardinality(Committing(w, "failed"))
<1>1. SumOf(Dones, AttemptsOf(w)) \in Nat /\ SumOf(Losses, AttemptsOf(w)) \in Nat
  BY AttemptsFinite, SumTyped, DonesTyped
<1>2. row[w].completed \in Nat /\ row[w].failed \in Nat
  BY DEF TypeInv, TypeOK, Row
<1>3. QED
  BY <1>1, <1>2, CommittingFinite DEF CounterInv

\* A result is about to be written to the events.
LEMMA CountResultCounts ==
  ASSUME TypeInv, CounterInv, NEW h \in Handlers, CountResult(h)
  PROVE  CounterInv'
<1>1. PICK u \in Workers, f \in {"done", "failed"} : u = req[h].worker /\ f = Finished(h)
  <2>1. req[h].worker \in Workers /\ req[h].sub \in Submissions
    BY JobOf DEF CountResult, HasJob
  <2>2. QED
    BY <2>1, RegistryAssumption DEF Finished
<1>2. /\ req[h].pc = "count" /\ Goto(h, "record") /\ UNCHANGED events
      /\ \/ row' = row
         \/ f = "done" /\ row' = [row EXCEPT ![u].completed = @ + 1]
         \/ f = "failed" /\ row' = [row EXCEPT ![u].failed = @ + 1]
  BY <1>1 DEF CountResult
<1>3. \A g \in Handlers : /\ req'[g].worker = req[g].worker /\ req'[g].sub = req[g].sub
                          /\ req'[g].pc = IF g = h THEN "record" ELSE req[g].pc
  BY <1>2 DEF Goto, TypeInv, TypeOK, Request
<1>4. \A w, v : Committing(w, v)' = IF w = u /\ v = f THEN Committing(w, v) \cup {h} ELSE Committing(w, v)
  BY <1>1, <1>2, <1>3 DEF Committing, Finished
<1>5. \A w, v : h \notin Committing(w, v)
  BY <1>2 DEF Committing
<1>6. \A w, v : Cardinality(Committing(w, v) \cup {h}) = Cardinality(Committing(w, v)) + 1
  BY <1>5, CommittingFinite, FS_AddElement
<1>7. ASSUME NEW w \in Workers
      PROVE  /\ row'[w].completed <= SumOf(Dones, AttemptsOf(w))' + Cardinality(Committing(w, "done"))'
             /\ row'[w].failed <= SumOf(Losses, AttemptsOf(w))' + Cardinality(Committing(w, "failed"))'
  <2>1. PICK d, l : d = SumOf(Dones, AttemptsOf(w)) /\ l = SumOf(Losses, AttemptsOf(w))
    OBVIOUS
  <2>2. PICK m, n : m = Cardinality(Committing(w, "done")) /\ n = Cardinality(Committing(w, "failed"))
    OBVIOUS
  <2>3. /\ d \in Nat /\ l \in Nat /\ m \in Nat /\ n \in Nat
        /\ row[w].completed \in Nat /\ row[w].failed \in Nat
        /\ row[w].completed <= d + m /\ row[w].failed <= l + n
    BY <2>1, <2>2, RoomOf
  <2>4. SumOf(Dones, AttemptsOf(w))' = d /\ SumOf(Losses, AttemptsOf(w))' = l
    BY <1>2, <2>1 DEF SumOf, Sums, Dones, Losses, AttemptsOf
  <2>5. PICK m2, n2 : m2 = Cardinality(Committing(w, "done"))' /\ n2 = Cardinality(Committing(w, "failed"))'
    OBVIOUS
  <2>6. /\ m2 = IF w = u /\ f = "done" THEN m + 1 ELSE m
        /\ n2 = IF w = u /\ f = "failed" THEN n + 1 ELSE n
    BY <1>4, <1>6, <2>2, <2>5
  <2>7. PICK k, r : k = row[w] /\ r = row'[w]
    OBVIOUS
  <2>8. k \in Row
    BY <2>7 DEF TypeInv, TypeOK
  <2>9. /\ r.completed = k.completed \/ (w = u /\ f = "done" /\ r.completed = k.completed + 1)
        /\ r.failed = k.failed \/ (w = u /\ f = "failed" /\ r.failed = k.failed + 1)
    <3>1. r = k \/ (w = u /\ f = "done" /\ r = [k EXCEPT !.completed = @ + 1])
                \/ (w = u /\ f = "failed" /\ r = [k EXCEPT !.failed = @ + 1])
      BY ZenonT(40), <1>2, <2>7 DEF TypeInv, TypeOK
    <3>2. QED
      BY <2>8, <3>1 DEF Row
  <2>10. r.completed <= d + m2 /\ r.failed <= l + n2
    BY <2>3, <2>6, <2>7, <2>9
  <2>11. QED
    BY <2>4, <2>5, <2>7, <2>10
<1>8. QED
  BY <1>7 DEF CounterInv
-----------------------------------------------------------------------------
\* The sums after an event of the attempt a: its worker's have one more, or a
\* sum has none.
LEMMA SumsAfterEvent ==
  ASSUME TypeInv, TypeInv', NEW a \in Attempts, events[a] # NoEvents,
         \/ events' = [events EXCEPT ![a].done = @ + 1]
         \/ events' = [events EXCEPT ![a].failed = @ + 1]
         \/ events' = [events EXCEPT ![a].requeued = @ + 1]
  PROVE  \A w \in Workers :
           /\ SumOf(Dones, AttemptsOf(w))' =
                IF w = events[a].worker /\ events' = [events EXCEPT ![a].done = @ + 1]
                THEN SumOf(Dones, AttemptsOf(w)) + 1 ELSE SumOf(Dones, AttemptsOf(w))
           /\ SumOf(Losses, AttemptsOf(w))' =
                IF w = events[a].worker /\ events' # [events EXCEPT ![a].done = @ + 1]
                THEN SumOf(Losses, AttemptsOf(w)) + 1 ELSE SumOf(Losses, AttemptsOf(w))
<1>1. /\ events[a] \in Events /\ EventsKept
      /\ \A b \in Attempts : b # a => events'[b] = events[b]
  BY EventCounted
<1>2. PICK v : v = events[a]
  OBVIOUS
<1>3. PICK v2 : v2 = events'[a]
  OBVIOUS
<1>4. v \in Events /\ v.done \in Nat /\ v.failed \in Nat /\ v.requeued \in Nat
  BY <1>1, <1>2 DEF Events
<1>5. v2.worker = v.worker
  BY <1>1, <1>2, <1>3 DEF EventsKept
<1>6. IF events' = [events EXCEPT ![a].done = @ + 1]
      THEN v2.done = v.done + 1 /\ v2.failed + v2.requeued = v.failed + v.requeued
      ELSE v2.done = v.done /\ v2.failed + v2.requeued = v.failed + v.requeued + 1
  <2>1. CASE events' = [events EXCEPT ![a].done = @ + 1]
    <3>1. v2 = [v EXCEPT !.done = @ + 1]
      BY <1>2, <1>3, <2>1 DEF TypeInv, TypeOK
    <3>2. QED
      BY <1>4, <2>1, <3>1 DEF Events
  <2>2. CASE events' # [events EXCEPT ![a].done = @ + 1]
    <3>1. v2 = [v EXCEPT !.failed = @ + 1] \/ v2 = [v EXCEPT !.requeued = @ + 1]
      BY <1>2, <1>3, <2>2 DEF TypeInv, TypeOK
    <3>2. v2.done = v.done /\ v2.failed + v2.requeued = v.failed + v.requeued + 1
      BY <1>4, <3>1 DEF Events
    <3>3. QED
      BY <2>2, <3>2
  <2>3. QED
    BY <2>1, <2>2
<1>7. PICK f1, l1 : f1 = Dones /\ l1 = Losses
  OBVIOUS
<1>8. PICK f2, l2 : f2 = Dones' /\ l2 = Losses'
  OBVIOUS
<1>9. /\ \A b \in Attempts : f1[b] \in Nat /\ l1[b] \in Nat
      /\ \A b \in Attempts : f2[b] \in Nat /\ l2[b] \in Nat
  <2>1. \A b \in Attempts : f1[b] \in Nat /\ l1[b] \in Nat
    BY <1>7, DonesTyped
  <2>2. ASSUME NEW b \in Attempts PROVE f2[b] \in Nat /\ l2[b] \in Nat
    <3>1. PICK y : y = events'[b]
      OBVIOUS
    <3>2. y \in Events \cup {NoEvents}
      BY <3>1 DEF TypeInv, TypeOK
    <3>3. y.done \in Nat /\ y.failed \in Nat /\ y.requeued \in Nat
      BY <3>2 DEF Events, NoEvents
    <3>4. f2[b] = y.done /\ l2[b] = y.failed + y.requeued
      BY <1>8, <3>1 DEF Dones, Losses
    <3>5. QED
      BY <3>3, <3>4
  <2>3. QED
    BY <1>8, <2>1, <2>2
<1>10. /\ f1[a] = v.done /\ f2[a] = v2.done
       /\ l1[a] = v.failed + v.requeued /\ l2[a] = v2.failed + v2.requeued
       /\ \A b \in Attempts : b # a => f2[b] = f1[b] /\ l2[b] = l1[b]
  BY <1>1, <1>2, <1>3, <1>7, <1>8 DEF Dones, Losses
<1>11. ASSUME NEW w \in Workers
       PROVE  /\ SumOf(f2, AttemptsOf(w)') =
                   IF w = v.worker /\ events' = [events EXCEPT ![a].done = @ + 1]
                   THEN SumOf(f1, AttemptsOf(w)) + 1 ELSE SumOf(f1, AttemptsOf(w))
              /\ SumOf(l2, AttemptsOf(w)') =
                   IF w = v.worker /\ events' # [events EXCEPT ![a].done = @ + 1]
                   THEN SumOf(l1, AttemptsOf(w)) + 1 ELSE SumOf(l1, AttemptsOf(w))
  <2>1. PICK S : S = AttemptsOf(w)
    OBVIOUS
  <2>2. AttemptsOf(w)' = S
    BY <1>1, <1>2, <1>3, <1>5, <2>1 DEF AttemptsOf
  <2>3. S \subseteq Attempts /\ IsFiniteSet(S) /\ (a \in S <=> w = v.worker)
    BY <1>2, <2>1, AttemptsFinite DEF AttemptsOf
  <2>4. CASE w # v.worker
    <3>1. \A b \in S : f2[b] = f1[b] /\ l2[b] = l1[b]
      BY <1>10, <2>3, <2>4
    <3>2. SumOf(f2, S) = SumOf(f1, S) /\ SumOf(l2, S) = SumOf(l1, S)
      BY <2>3, <3>1, SumSame
    <3>3. QED
      BY <2>1, <2>2, <2>4, <3>2
  <2>5. CASE w = v.worker /\ events' = [events EXCEPT ![a].done = @ + 1]
    <3>1. f2[a] = f1[a] + 1 /\ l2[a] = l1[a]
      BY <1>6, <1>10, <2>5
    <3>2. \A b \in S : l2[b] = l1[b]
      BY <1>10, <2>3, <3>1
    <3>3. SumOf(l2, S) = SumOf(l1, S)
      BY <2>3, <3>2, SumSame
    <3>4. SumOf(f2, S) = SumOf(f1, S) + 1
      <4>1. /\ \A b \in S : f1[b] \in Nat
            /\ \A b \in S : f2[b] \in Nat
            /\ a \in S /\ \A b \in S : b # a => f2[b] = f1[b]
        BY <1>9, <1>10, <2>3, <2>5
      <4>2. QED
        BY <2>3, <3>1, <4>1, SumRaised
    <3>5. QED
      BY <2>1, <2>2, <2>5, <3>3, <3>4
  <2>6. CASE w = v.worker /\ events' # [events EXCEPT ![a].done = @ + 1]
    <3>1. l2[a] = l1[a] + 1 /\ f2[a] = f1[a]
      BY <1>6, <1>10, <2>6
    <3>2. \A b \in S : f2[b] = f1[b]
      BY <1>10, <2>3, <3>1
    <3>3. SumOf(f2, S) = SumOf(f1, S)
      BY <2>3, <3>2, SumSame
    <3>4. SumOf(l2, S) = SumOf(l1, S) + 1
      <4>1. /\ \A b \in S : l1[b] \in Nat
            /\ \A b \in S : l2[b] \in Nat
            /\ a \in S /\ \A b \in S : b # a => l2[b] = l1[b]
        BY <1>9, <1>10, <2>3, <2>6
      <4>2. QED
        BY <2>3, <3>1, <4>1, SumRaised
    <3>5. QED
      BY <2>1, <2>2, <2>6, <3>3, <3>4
  <2>7. QED
    BY <2>4, <2>5, <2>6
<1>12. \A w \in Workers : /\ SumOf(Dones, AttemptsOf(w))' = SumOf(f2, AttemptsOf(w)')
                          /\ SumOf(Losses, AttemptsOf(w))' = SumOf(l2, AttemptsOf(w)')
                          /\ SumOf(Dones, AttemptsOf(w)) = SumOf(f1, AttemptsOf(w))
                          /\ SumOf(Losses, AttemptsOf(w)) = SumOf(l1, AttemptsOf(w))
  BY <1>7, <1>8 DEF SumOf, Sums
<1>13. QED
  BY <1>2, <1>11, <1>12
-----------------------------------------------------------------------------
\* What CounterInv asks after a step, number by number.
LEMMA RoomAfter ==
  ASSUME \A w \in Workers :
           \E d, l, m, n : /\ d = SumOf(Dones, AttemptsOf(w))' /\ l = SumOf(Losses, AttemptsOf(w))'
                           /\ m = Cardinality(Committing(w, "done"))'
                           /\ n = Cardinality(Committing(w, "failed"))'
                           /\ row'[w].completed <= d + m /\ row'[w].failed <= l + n
  PROVE  CounterInv'
BY DEF CounterInv

LEMMA RecordCounts ==
  ASSUME TypeInv, TypeInv', CounterInv, NEW h \in Handlers, RecordResult(h)
  PROVE  CounterInv'
<1>1. PICK u \in Workers : u = req[h].worker
  BY JobOf DEF RecordResult, HasJob
<1>2. PICK f \in {"done", "failed"} : f = Finished(h)
  <2>1. req[h].sub \in Submissions
    BY JobOf DEF RecordResult, HasJob
  <2>2. QED
    BY <2>1, RegistryAssumption DEF Finished
<1>3. PICK a \in Attempts : a = req[h].attempt
  BY JobOf DEF RecordResult, HasJob
<1>4. events[a] # NoEvents /\ events[a].worker = u /\ events[a] \in Events
  BY <1>1, <1>3, JobOf DEF RecordResult, HasJob, AttemptOf
<1>5. /\ req[h].pc = "record" /\ Goto(h, "delete") /\ UNCHANGED row
      /\ events' = IF f = "done" THEN [events EXCEPT ![a].done = @ + 1]
                   ELSE [events EXCEPT ![a].failed = @ + 1]
  BY <1>2, <1>3 DEF RecordResult
<1>6. f = "failed" => events' # [events EXCEPT ![a].done = @ + 1]
  <2>1. PICK v : v = events[a]
    OBVIOUS
  <2>2. v \in Events /\ v.done \in Nat
    BY <1>4, <2>1 DEF Events
  <2>3. [v EXCEPT !.failed = @ + 1].done # [v EXCEPT !.done = @ + 1].done
    BY <2>2 DEF Events
  <2>4. [events EXCEPT ![a].failed = @ + 1][a] # [events EXCEPT ![a].done = @ + 1][a]
    BY <2>1, <2>3 DEF TypeInv, TypeOK
  <2>5. QED
    BY <1>5, <2>4
<1>7. \A g \in Handlers : /\ req'[g].worker = req[g].worker /\ req'[g].sub = req[g].sub
                          /\ req'[g].pc = IF g = h THEN "delete" ELSE req[g].pc
  BY <1>5 DEF Goto, TypeInv, TypeOK, Request
<1>8. \A w, v : Committing(w, v)' = IF w = u /\ v = f THEN Committing(w, v) \ {h} ELSE Committing(w, v)
  BY <1>1, <1>2, <1>5, <1>7 DEF Committing, Finished
<1>9. h \in Committing(u, f)
  BY <1>1, <1>2, <1>5 DEF Committing
<1>10. Cardinality(Committing(u, f) \ {h}) = Cardinality(Committing(u, f)) - 1
  BY <1>9, CommittingFinite, FS_RemoveElement
<1>11. ASSUME NEW w \in Workers
       PROVE  \E d, l, m, n : /\ d = SumOf(Dones, AttemptsOf(w))' /\ l = SumOf(Losses, AttemptsOf(w))'
                              /\ m = Cardinality(Committing(w, "done"))'
                              /\ n = Cardinality(Committing(w, "failed"))'
                              /\ row'[w].completed <= d + m /\ row'[w].failed <= l + n
  <2>1. PICK d, l : d = SumOf(Dones, AttemptsOf(w)) /\ l = SumOf(Losses, AttemptsOf(w))
    OBVIOUS
  <2>2. PICK m, n : m = Cardinality(Committing(w, "done")) /\ n = Cardinality(Committing(w, "failed"))
    OBVIOUS
  <2>3. PICK d2, l2 : d2 = SumOf(Dones, AttemptsOf(w))' /\ l2 = SumOf(Losses, AttemptsOf(w))'
    OBVIOUS
  <2>4. PICK m2, n2 : m2 = Cardinality(Committing(w, "done"))' /\ n2 = Cardinality(Committing(w, "failed"))'
    OBVIOUS
  <2>5. /\ d \in Nat /\ l \in Nat /\ m \in Nat /\ n \in Nat
        /\ row[w].completed \in Nat /\ row[w].failed \in Nat
        /\ row[w].completed <= d + m /\ row[w].failed <= l + n
    BY <2>1, <2>2, RoomOf
  <2>6. /\ d2 = IF w = u /\ events' = [events EXCEPT ![a].done = @ + 1] THEN d + 1 ELSE d
        /\ l2 = IF w = u /\ events' # [events EXCEPT ![a].done = @ + 1] THEN l + 1 ELSE l
    BY <1>4, <1>5, <2>1, <2>3, SumsAfterEvent
  <2>7. /\ d2 = IF w = u /\ f = "done" THEN d + 1 ELSE d
        /\ l2 = IF w = u /\ f = "failed" THEN l + 1 ELSE l
    BY <1>5, <1>6, <2>6
  <2>8. /\ m2 = IF w = u /\ f = "done" THEN m - 1 ELSE m
        /\ n2 = IF w = u /\ f = "failed" THEN n - 1 ELSE n
    BY <1>8, <1>10, <2>2, <2>4
  <2>9. row[w].completed <= d2 + m2 /\ row[w].failed <= l2 + n2
    BY <2>5, <2>7, <2>8
  <2>10. QED
    BY <1>5, <2>3, <2>4, <2>9
<1>12. QED
  BY <1>11, RoomAfter

LEMMA RequeuedCounts ==
  ASSUME TypeInv, TypeInv', CounterInv, CountRequeued
  PROVE  CounterInv'
<1>1. PICK a, u : a = watch.back.attempt /\ u = watch.back.worker
  OBVIOUS
<1>2. /\ a \in Attempts /\ u \in Workers /\ events[a].worker = u
      /\ events' = [events EXCEPT ![a].requeued = @ + 1] /\ UNCHANGED req
      /\ row' = row \/ row' = [row EXCEPT ![u].failed = @ + 1]
  BY <1>1, WatchTyped DEF CountRequeued, TypeInv, WatchSound
<1>3. events[a] \in Events /\ events[a] # NoEvents
  BY <1>2, SomeAreNone DEF TypeInv, TypeOK
<1>4. events' # [events EXCEPT ![a].done = @ + 1]
  <2>1. PICK v : v = events[a]
    OBVIOUS
  <2>2. v \in Events /\ v.done \in Nat
    BY <1>3, <2>1 DEF Events
  <2>3. [v EXCEPT !.requeued = @ + 1].done # [v EXCEPT !.done = @ + 1].done
    BY <2>2 DEF Events
  <2>4. [events EXCEPT ![a].requeued = @ + 1][a] # [events EXCEPT ![a].done = @ + 1][a]
    BY <1>2, <2>1, <2>3 DEF TypeInv, TypeOK
  <2>5. QED
    BY <1>2, <2>4
<1>5. \A w, v : Committing(w, v)' = Committing(w, v)
  BY <1>2 DEF Committing, Finished
<1>6. ASSUME NEW w \in Workers
      PROVE  \E d, l, m, n : /\ d = SumOf(Dones, AttemptsOf(w))' /\ l = SumOf(Losses, AttemptsOf(w))'
                             /\ m = Cardinality(Committing(w, "done"))'
                             /\ n = Cardinality(Committing(w, "failed"))'
                             /\ row'[w].completed <= d + m /\ row'[w].failed <= l + n
  <2>1. PICK d, l : d = SumOf(Dones, AttemptsOf(w)) /\ l = SumOf(Losses, AttemptsOf(w))
    OBVIOUS
  <2>2. PICK m, n : m = Cardinality(Committing(w, "done")) /\ n = Cardinality(Committing(w, "failed"))
    OBVIOUS
  <2>3. PICK d2, l2 : d2 = SumOf(Dones, AttemptsOf(w))' /\ l2 = SumOf(Losses, AttemptsOf(w))'
    OBVIOUS
  <2>4. /\ d \in Nat /\ l \in Nat /\ m \in Nat /\ n \in Nat
        /\ row[w].completed \in Nat /\ row[w].failed \in Nat
        /\ row[w].completed <= d + m /\ row[w].failed <= l + n
    BY <2>1, <2>2, RoomOf
  <2>5. d2 = d /\ l2 = IF w = u THEN l + 1 ELSE l
    BY <1>2, <1>3, <1>4, <2>1, <2>3, SumsAfterEvent
  <2>6. /\ m = Cardinality(Committing(w, "done"))'
        /\ n = Cardinality(Committing(w, "failed"))'
    BY <1>5, <2>2
  <2>7. PICK k, r : k = row[w] /\ r = row'[w]
    OBVIOUS
  <2>8. r.completed = k.completed /\ (r.failed = k.failed \/ (w = u /\ r.failed = k.failed + 1))
    <3>1. k \in Row
      BY <2>7 DEF TypeInv, TypeOK
    <3>2. r = k \/ (w = u /\ r = [k EXCEPT !.failed = @ + 1])
      BY <1>2, <2>7 DEF TypeInv, TypeOK
    <3>3. QED
      BY <3>1, <3>2 DEF Row
  <2>9. r.completed <= d2 + m /\ r.failed <= l2 + n
    BY <2>4, <2>5, <2>7, <2>8
  <2>10. QED
    BY <2>3, <2>6, <2>7, <2>9
<1>7. QED
  BY <1>6, RoomAfter

LEMMA ClaimsCount ==
  ASSUME TypeInv, TypeInv', CounterInv, NEW h \in Handlers, Dispatch(h),
         NEW s \in Submissions, NEW a \in Attempts, Claims(h, s, a)
  PROVE  CounterInv'
<1>1. PICK u : u = req[h].worker
  OBVIOUS
<1> DEFINE v == [worker |-> u, sub |-> s, done |-> 0, failed |-> 0, requeued |-> 0]
           x == [pc |-> "mark_running", worker |-> u, token |-> req[h].token,
                 sub |-> s, attempt |-> a, kinds |-> {}]
<1>2. /\ UNCHANGED row /\ req[h].pc = "dispatch" /\ events[a] = NoEvents
      /\ events' = [events EXCEPT ![a] = v] /\ req' = [req EXCEPT ![h] = x]
  BY <1>1 DEF Dispatch, Claims
<1>3. v.worker = u /\ v.done = 0 /\ v.failed = 0 /\ v.requeued = 0 /\ x.pc = "mark_running"
  OBVIOUS
<1> HIDE DEF v, x
<1>4. \A w, k : Committing(w, k)' = Committing(w, k)
  BY <1>2, <1>3, SlotCommits
<1>5. \A b \in Attempts : events'[b] = IF b = a THEN v ELSE events[b]
  BY <1>2 DEF TypeInv, TypeOK
<1>6. PICK f1, l1 : f1 = Dones /\ l1 = Losses
  OBVIOUS
<1>7. PICK f2, l2 : f2 = Dones' /\ l2 = Losses'
  OBVIOUS
<1>8. /\ \A b \in Attempts : f1[b] \in Nat /\ l1[b] \in Nat
      /\ f2[a] = 0 /\ l2[a] = 0
      /\ \A b \in Attempts : b # a => f2[b] = f1[b] /\ l2[b] = l1[b]
  <2>1. \A b \in Attempts : f1[b] \in Nat /\ l1[b] \in Nat
    BY <1>6, DonesTyped
  <2>2. f2[a] = 0 /\ l2[a] = 0
    BY <1>3, <1>5, <1>7 DEF Dones, Losses
  <2>3. \A b \in Attempts : b # a => f2[b] = f1[b] /\ l2[b] = l1[b]
    BY <1>5, <1>6, <1>7 DEF Dones, Losses
  <2>4. QED
    BY <2>1, <2>2, <2>3
<1>9. ASSUME NEW w \in Workers
      PROVE  /\ SumOf(Dones, AttemptsOf(w))' = SumOf(Dones, AttemptsOf(w))
             /\ SumOf(Losses, AttemptsOf(w))' = SumOf(Losses, AttemptsOf(w))
  <2>1. PICK S : S = AttemptsOf(w)
    OBVIOUS
  <2>2. S \subseteq Attempts /\ IsFiniteSet(S) /\ a \notin S
    <3>1. events[a].worker # w
      BY <1>2, SomeAreNone
    <3>2. QED
      BY <2>1, <3>1, AttemptsFinite DEF AttemptsOf
  <2>3. PICK S2 : S2 = AttemptsOf(w)'
    OBVIOUS
  <2>4. S2 = S \/ S2 = S \cup {a}
    <3>1. S2 = {b \in Attempts : events'[b].worker = w} /\ S = {b \in Attempts : events[b].worker = w}
      BY <2>1, <2>3 DEF AttemptsOf
    <3>2. \A b \in Attempts : b # a => events'[b] = events[b]
      BY <1>5
    <3>3. \A b : b # a => (b \in S2 <=> b \in S)
      BY <3>1, <3>2
    <3>4. CASE a \in S2
      <4>1. S2 = S \cup {a}
        BY <3>3, <3>4
      <4>2. QED
        BY <4>1
    <3>5. CASE a \notin S2
      <4>1. S2 = S
        BY <2>2, <3>3, <3>5
      <4>2. QED
        BY <4>1
    <3>6. QED
      BY <3>4, <3>5
  <2>5. \A b \in S : f1[b] \in Nat /\ l1[b] \in Nat /\ f2[b] = f1[b] /\ l2[b] = l1[b]
    BY <1>8, <2>2
  <2>6. SumOf(f2, S) = SumOf(f1, S) /\ SumOf(l2, S) = SumOf(l1, S)
    BY <2>2, <2>5, SumSame
  <2>7. SumOf(f2, S \cup {a}) = SumOf(f1, S)
    BY <1>8, <2>2, <2>5, SumGrown
  <2>8. SumOf(l2, S \cup {a}) = SumOf(l1, S)
    BY <1>8, <2>2, <2>5, SumGrown
  <2>9. SumOf(f2, S2) = SumOf(f1, S) /\ SumOf(l2, S2) = SumOf(l1, S)
    BY <2>4, <2>6, <2>7, <2>8
  <2>10. /\ SumOf(Dones, AttemptsOf(w))' = SumOf(f2, S2) /\ SumOf(Losses, AttemptsOf(w))' = SumOf(l2, S2)
         /\ SumOf(Dones, AttemptsOf(w)) = SumOf(f1, S) /\ SumOf(Losses, AttemptsOf(w)) = SumOf(l1, S)
    BY <1>6, <1>7, <2>1, <2>3 DEF SumOf, Sums
  <2>11. QED
    BY <2>9, <2>10
<1>10. ASSUME NEW w \in Workers
       PROVE  \E d, l, m, n : /\ d = SumOf(Dones, AttemptsOf(w))' /\ l = SumOf(Losses, AttemptsOf(w))'
                              /\ m = Cardinality(Committing(w, "done"))'
                              /\ n = Cardinality(Committing(w, "failed"))'
                              /\ row'[w].completed <= d + m /\ row'[w].failed <= l + n
  BY <1>2, <1>4, <1>9, RoomOf
<1>11. QED
  BY <1>10, RoomAfter

LEMMA InitCounts == Init => CounterInv
<1> SUFFICES ASSUME Init PROVE CounterInv
  OBVIOUS
<1>1. TypeInv
  BY InitTypes
<1>2. ASSUME NEW w \in Workers
      PROVE  /\ row[w].completed <= SumOf(Dones, AttemptsOf(w)) + Cardinality(Committing(w, "done"))
             /\ row[w].failed <= SumOf(Losses, AttemptsOf(w)) + Cardinality(Committing(w, "failed"))
  <2>1. row[w].completed = 0 /\ row[w].failed = 0
    BY DEF Init, NoRow
  <2>2. SumOf(Dones, AttemptsOf(w)) \in Nat /\ SumOf(Losses, AttemptsOf(w)) \in Nat
    BY <1>1, AttemptsFinite, SumTyped, DonesTyped
  <2>3. QED
    BY <2>1, <2>2, CommittingFinite
<1>3. QED
  BY <1>2 DEF CounterInv

LEMMA NextCounts == TypeInv /\ CounterInv /\ [Next]_vars => CounterInv'
<1> SUFFICES ASSUME TypeInv, CounterInv, [Next]_vars PROVE CounterInv'
  OBVIOUS
<1>1. TypeInv'
  BY NextTypes
<1>2. \A w \in Workers : row[w].completed \in Nat /\ row[w].failed \in Nat
  BY DEF TypeInv, TypeOK, Row
<1>3. ASSUME UNCHANGED <<row, events, req>> PROVE CounterInv'
  <2>1. \A w, v : Committing(w, v)' = Committing(w, v)
    BY <1>3 DEF Committing, Finished
  <2>2. QED
    BY <1>1, <1>2, <1>3, <2>1, CountersFrame
<1>4. ASSUME NEW w \in Workers, RowStep(w) PROVE CounterInv'
  <2>1. /\ UNCHANGED <<events, req>>
        /\ \A u \in Workers : row'[u].completed <= row[u].completed /\ row'[u].failed <= row[u].failed
    BY <1>4, RowKeepsCounts
  <2>2. \A u, v : Committing(u, v)' = Committing(u, v)
    BY <2>1 DEF Committing, Finished
  <2>3. QED
    BY <1>1, <2>1, <2>2, CountersFrame
<1>5. ASSUME NEW h \in Handlers, QuietStep(h) PROVE CounterInv'
  <2>1. UNCHANGED <<row, events>> /\ \A w, v : Committing(w, v)' = Committing(w, v)
    BY <1>5, QuietSlots
  <2>2. QED
    BY <1>1, <1>2, <2>1, CountersFrame
<1>6. ASSUME NEW h \in Handlers, Dispatch(h) PROVE CounterInv'
  BY <1>1, <1>5, <1>6, DispatchCases, ClaimsCount DEF QuietStep
<1>7. ASSUME NEW h \in Handlers, CountResult(h) \/ RecordResult(h) PROVE CounterInv'
  BY <1>1, <1>7, CountResultCounts, RecordCounts
<1>8. CASE CountRequeued
  BY <1>1, <1>8, RequeuedCounts
<1>9. ASSUME \/ DeleteStaleClaims \/ (\E s \in Submissions : RequeueOrphan(s))
             \/ \E c \in watch.todo : RequeueStale(c)
             \/ UNCHANGED vars
      PROVE  CounterInv'
  BY <1>3, <1>9 DEF DeleteStaleClaims, RequeueOrphan, RequeueStale, vars
<1>10. CASE Next
  <2>1. \/ \E w \in Workers : RowStep(w)
        \/ \E h \in Handlers : QuietStep(h) \/ Dispatch(h) \/ CountResult(h) \/ RecordResult(h)
        \/ ReaperStep
    BY <1>10, NextSplits DEF QuietStep, ResultStep
  <2>2. QED
    BY <1>4, <1>5, <1>6, <1>7, <1>8, <1>9, <2>1 DEF ReaperStep
<1>11. QED
  BY <1>9, <1>10

\* The counters of a worker's row never say more than the events of its
\* attempts: no retry of a result, no reaped claim and no approval in between
\* counts a job twice.  The room is made of the events and of the requests that
\* have counted and are about to write theirs.
THEOREM CountersAreBacked == Spec => []CountersMatchEvents
<1>1. TypeInv /\ CounterInv => CountersMatchEvents
  <2> SUFFICES ASSUME TypeInv, CounterInv PROVE CountersMatchEvents
    OBVIOUS
  <2>1. ASSUME NEW w \in Workers
        PROVE  /\ row[w].completed <= Total(LAMBDA a : events[a].done, AttemptsOf(w))
                                       + Cardinality(Committing(w, "done"))
               /\ row[w].failed <= Total(LAMBDA a : events[a].failed + events[a].requeued, AttemptsOf(w))
                                    + Cardinality(Committing(w, "failed"))
    <3>1. AttemptsOf(w) \in SUBSET Attempts
      BY AttemptsFinite
    <3>2. Total(LAMBDA a : events[a].done, AttemptsOf(w)) = SumOf(Dones, AttemptsOf(w))
      BY <3>1, TotalOfDones
    <3>3. Total(LAMBDA a : events[a].failed + events[a].requeued, AttemptsOf(w))
            = SumOf(Losses, AttemptsOf(w))
      BY <3>1, TotalOfLosses
    <3>4. QED
      BY <3>2, <3>3 DEF CounterInv
  <2>2. QED
    BY <2>1 DEF CountersMatchEvents
<1>2. QED
  BY <1>1, InitTypes, NextTypes, InitCounts, NextCounts, PTL DEF Spec
-----------------------------------------------------------------------------
(***************************************************************************)
(* The pool as the scheduler sees it.                                      *)
(***************************************************************************)
LEMMA ClaimsCounted ==
  ASSUME TypeInv, NEW w \in Workers
  PROVE  /\ OutputClaims(w) \in Nat /\ InferenceClaims(w) \in Nat
         /\ Cardinality(ClaimsOf(w)) = OutputClaims(w) + InferenceClaims(w)
<1> DEFINE C == ClaimsOf(w)
           D == C \ FinalSubs
           E == C \cap FinalSubs
<1>1. IsFiniteSet(C) /\ IsFiniteSet(D) /\ IsFiniteSet(E)
  <2>1. C \subseteq Submissions /\ D \subseteq Submissions /\ E \subseteq Submissions
    BY DEF ClaimsOf
  <2>2. QED
    BY <2>1, FiniteAssumption, FS_Subset
<1>2. C = D \cup E /\ D \cap E = {}
  OBVIOUS
<1> HIDE DEF C, D, E
<1>3. /\ Cardinality(D) \in Nat /\ Cardinality(E) \in Nat
      /\ Cardinality(D \cup E) = Cardinality(D) + Cardinality(E) - Cardinality(D \cap E)
      /\ Cardinality({}) = 0
  BY <1>1, FS_CardinalityType, FS_Union, FS_EmptySet
<1>4. Cardinality(C) = Cardinality(D) + Cardinality(E)
  <2>1. Cardinality(D \cap E) = 0
    BY <1>2, <1>3
  <2>2. Cardinality(C) = Cardinality(D \cup E)
    BY <1>2
  <2>3. QED
    BY <1>3, <2>1, <2>2
<1>5. QED
  BY <1>3, <1>4 DEF C, D, E, OutputClaims, InferenceClaims

LEMMA PoolTyped ==
  ASSUME TypeInv
  PROVE  /\ IsFiniteSet(Pool)
         /\ \A a \in Pool : /\ a \in PoolWorker /\ a.availableIn \in {0, DefaultWait}
                            /\ a.availableIn = 0 <=> a.output + a.inference < a.profile.maxWorkers
<1>1. IsFiniteSet(Pool)
  <2> DEFINE A == {v \in Workers : row[v].status = "active"}
  <2>1. IsFiniteSet(A)
    BY FiniteAssumption, FS_Subset
  <2>2. Pool = {Availability(w) : w \in A}
    BY DEF Pool
  <2> HIDE DEF A
  <2>3. PICK f : f = [w \in A |-> Availability(w)]
    OBVIOUS
  <2>4. Pool = {f[w] : w \in A}
    BY <2>2, <2>3
  <2>5. f \in Surjection(A, Pool)
    BY <2>3, <2>4 DEF Surjection
  <2>6. QED
    BY <2>1, <2>5, FS_Surjection
<1>2. ASSUME NEW a \in Pool
      PROVE  /\ a \in PoolWorker /\ a.availableIn \in {0, DefaultWait}
             /\ a.availableIn = 0 <=> a.output + a.inference < a.profile.maxWorkers
  <2>1. PICK w \in Workers : a = Availability(w)
    BY DEF Pool
  <2>2. /\ a = [worker |-> w, profile |-> ProfileOf[w], bench |-> BenchmarkOf[w],
                output |-> OutputClaims(w), inference |-> InferenceClaims(w),
                availableIn |-> a.availableIn]
        /\ a.availableIn = IF Cardinality(ClaimsOf(w)) < ProfileOf[w].maxWorkers
                           THEN 0 ELSE DefaultWait
    BY <2>1 DEF Availability
  <2>3. ProfileOf[w] \in Profile /\ BenchmarkOf[w] \in Benchmark
    BY RegistryAssumption
  <2>4. /\ OutputClaims(w) \in Nat /\ InferenceClaims(w) \in Nat
        /\ Cardinality(ClaimsOf(w)) = OutputClaims(w) + InferenceClaims(w)
    BY ClaimsCounted
  <2>5. DefaultWait \in Int /\ DefaultWait # 0
    BY DEF DefaultWait
  <2>6. a.availableIn \in {0, DefaultWait}
    BY <2>2
  <2>7. a \in PoolWorker
    BY <2>2, <2>3, <2>4, <2>5, <2>6 DEF PoolWorker
  <2>8. a.output = OutputClaims(w) /\ a.inference = InferenceClaims(w) /\ a.profile = ProfileOf[w]
    BY <2>2
  <2>9. a.availableIn = 0 <=> a.output + a.inference < a.profile.maxWorkers
    BY <2>2, <2>4, <2>5, <2>8
  <2>10. QED
    BY <2>6, <2>7, <2>9
<1>3. QED
  BY <1>1, <1>2

\* What the claim handlers hand out is what FreeSlots counts.
LEMMA ClaimableIsFree ==
  ASSUME NEW a \in PoolWorker, NEW isFinal \in BOOLEAN
  PROVE  Claimable(a, isFinal) = FreeSlots(a, isFinal) /\ FreeSlots(a, isFinal) \in Nat
<1> DEFINE n == FreeSlots(a, isFinal)
<1>1. /\ n \in Nat
      /\ \A m \in Nat : m < n => TakesOneMore(a, isFinal, m)
      /\ ~TakesOneMore(a, isFinal, n)
  BY FreeSlotsAreThoseClaimed
<1>2. a.profile.maxWorkers \in Nat /\ a.output \in Nat /\ a.inference \in Nat
  BY DEF PoolWorker, Profile
<1> HIDE DEF n
<1>3. n <= a.profile.maxWorkers
  <2>1. SUFFICES ASSUME n > a.profile.maxWorkers PROVE FALSE
    BY <1>1, <1>2
  <2>2. TakesOneMore(a, isFinal, a.profile.maxWorkers)
    BY <1>1, <1>2, <2>1
  <2>3. QED
    BY <1>2, <2>2 DEF TakesOneMore
<1>4. n \in 0 .. a.profile.maxWorkers
  BY <1>1, <1>2, <1>3
<1> DEFINE Right(k) == ~TakesOneMore(a, isFinal, k) /\ \A m \in 0 .. k - 1 : TakesOneMore(a, isFinal, m)
<1>5. Right(n)
  BY <1>1
<1>6. \A k \in 0 .. a.profile.maxWorkers : Right(k) => k = n
  <2>1. SUFFICES ASSUME NEW k \in 0 .. a.profile.maxWorkers, Right(k), k # n PROVE FALSE
    OBVIOUS
  <2>2. k \in Nat
    BY <1>2
  <2>3. CASE k < n
    BY <1>1, <2>1, <2>2, <2>3
  <2>4. CASE n < k
    <3>1. n \in 0 .. k - 1
      BY <1>1, <2>2, <2>4
    <3>2. QED
      BY <1>1, <2>1, <3>1
  <2>5. QED
    BY <1>1, <2>1, <2>2, <2>3, <2>4
<1>7. Claimable(a, isFinal) = CHOOSE k \in 0 .. a.profile.maxWorkers : Right(k)
  BY DEF Claimable, TakesOneMore
<1> HIDE DEF Right
<1>8. Claimable(a, isFinal) = n
  BY <1>4, <1>5, <1>6, <1>7
<1>9. QED
  BY <1>1, <1>8 DEF n
-----------------------------------------------------------------------------
\* Two totals over a finite set whose summands are equal.
LEMMA FreeTotal ==
  ASSUME NEW S, IsFiniteSet(S), NEW isFinal
  PROVE  ImmediateFreeSlots(S, isFinal) = SumOf([a \in S |-> FreeSlots(a, isFinal)], S)
<1> DEFINE f == [a \in S |-> FreeSlots(a, isFinal)]
           Solves(g) == g = [s \in SUBSET S |-> IF s = {} THEN 0
                                                ELSE FreeSlots(Pick(s), isFinal) + g[s \ {Pick(s)}]]
<1>1. ImmediateFreeSlots(S, isFinal) = (CHOOSE g : Solves(g))[S]
  BY DEF ImmediateFreeSlots, MapThenSumSet, MapThenFoldSet, Pick
<1>2. \A s \in SUBSET S : s # {} => f[Pick(s)] = FreeSlots(Pick(s), isFinal)
  BY DEF Pick
<1> HIDE DEF f
<1>3. ASSUME NEW g PROVE Solves(g) <=> Sums(f, S, g)
  <2>1. [s \in SUBSET S |-> IF s = {} THEN 0 ELSE FreeSlots(Pick(s), isFinal) + g[s \ {Pick(s)}]]
          = [s \in SUBSET S |-> IF s = {} THEN 0 ELSE f[Pick(s)] + g[s \ {Pick(s)}]]
    BY <1>2
  <2>2. QED
    BY <2>1 DEF Sums
<1>4. PICK g : Sums(f, S, g)
  BY SumsExist
<1> DEFINE g2 == CHOOSE h : Solves(h)
<1>5. Solves(g2)
  <2> HIDE DEF Solves
  <2> QED  BY <1>3, <1>4
<1> HIDE DEF g2, Solves
<1>6. SumOf(f, S) = g2[S]
  BY <1>3, <1>5, SumIs
<1>7. QED
  BY <1>1, <1>6 DEF g2, f

LEMMA ClaimableTotal ==
  ASSUME NEW S, IsFiniteSet(S), NEW isFinal
  PROVE  Total(LAMBDA a : Claimable(a, isFinal), S) = SumOf([a \in S |-> Claimable(a, isFinal)], S)
<1> DEFINE f == [a \in S |-> Claimable(a, isFinal)]
           Solves(g) == g = [s \in SUBSET S |-> IF s = {} THEN 0
                                                ELSE Claimable(Pick(s), isFinal) + g[s \ {Pick(s)}]]
<1>1. Total(LAMBDA a : Claimable(a, isFinal), S) = (CHOOSE g : Solves(g))[S]
  BY DEF Total, MapThenSumSet, MapThenFoldSet, Pick
<1>2. \A s \in SUBSET S : s # {} => f[Pick(s)] = Claimable(Pick(s), isFinal)
  BY DEF Pick
<1> HIDE DEF f
<1>3. ASSUME NEW g PROVE Solves(g) <=> Sums(f, S, g)
  <2>1. [s \in SUBSET S |-> IF s = {} THEN 0 ELSE Claimable(Pick(s), isFinal) + g[s \ {Pick(s)}]]
          = [s \in SUBSET S |-> IF s = {} THEN 0 ELSE f[Pick(s)] + g[s \ {Pick(s)}]]
    BY <1>2
  <2>2. QED
    BY <2>1 DEF Sums
<1>4. PICK g : Sums(f, S, g)
  BY SumsExist
<1> DEFINE g2 == CHOOSE h : Solves(h)
<1>5. Solves(g2)
  <2> HIDE DEF Solves
  <2> QED  BY <1>3, <1>4
<1> HIDE DEF g2, Solves
<1>6. SumOf(f, S) = g2[S]
  BY <1>3, <1>5, SumIs
<1>7. QED
  BY <1>1, <1>6 DEF g2, f

\* In every state, also one in which a worker holds more claims than its
\* profile would allow, the free slots that ImmediateFreeSlots announces of the
\* pool are the jobs that the claim handlers would hand out, and
\* ComputeGPUScarcity sees a free graphics processor where they would.
THEOREM FreeSlotsAreHandedOut == Spec => []FreeSlotsAreClaimable
<1>1. TypeInv => FreeSlotsAreClaimable
  <2> SUFFICES ASSUME TypeInv PROVE FreeSlotsAreClaimable
    OBVIOUS
  <2>1. PICK pool : pool = Pool
    OBVIOUS
  <2>2. IsFiniteSet(pool) /\ \A a \in pool : a \in PoolWorker
    BY <2>1, PoolTyped
  <2>3. ASSUME NEW isFinal \in BOOLEAN
        PROVE  ImmediateFreeSlots(pool, isFinal) = Total(LAMBDA a : Claimable(a, isFinal), pool)
    <3> DEFINE f == [a \in pool |-> FreeSlots(a, isFinal)]
               g == [a \in pool |-> Claimable(a, isFinal)]
    <3>1. \A a \in pool : f[a] = g[a]
      BY <2>2, ClaimableIsFree
    <3>2. ImmediateFreeSlots(pool, isFinal) = SumOf(f, pool)
      BY <2>2, FreeTotal
    <3>3. Total(LAMBDA a : Claimable(a, isFinal), pool) = SumOf(g, pool)
      BY <2>2, ClaimableTotal
    <3> HIDE DEF f, g
    <3>4. SumOf(f, pool) = SumOf(g, pool)
      BY <2>2, <3>1, SumSame
    <3>5. QED
      BY <3>2, <3>3, <3>4
  <2>4. \A a \in pool : FreeGpu(a) > 0 <=> a.bench.gpu > 0 /\ Accepting(a, TRUE)
    BY <2>2, ScarcityCountsTheAccepting
  <2>5. QED
    BY <2>1, <2>3, <2>4 DEF FreeSlotsAreClaimable
<1>2. QED
  BY <1>1, TypesHold, PTL

\* When the scheduler would finish a job, seen from a worker of the pool.
LEMMA FinishTyped ==
  ASSUME NEW a \in PoolWorker, NEW d, Known(d)
  PROVE  Finish(a, d) \in Nat /\ (a.availableIn = DefaultWait => Finish(a, d) >= DefaultWait)
<1>1. a.profile \in Profile /\ a.bench \in Benchmark /\ a.availableIn \in Int
  BY DEF PoolWorker
<1>2. EstimateRuntime(a.profile, a.bench, d) \in Nat
  BY <1>1, RuntimeTyped
<1>3. QED
  BY <1>1, <1>2 DEF Finish, Larger, DefaultWait

\* A worker that accepts a job and could claim none is full.
LEMMA AcceptingFull ==
  ASSUME TypeInv, NEW a \in Pool, NEW isFinal \in BOOLEAN, Accepting(a, isFinal),
         ~(Claimable(a, isFinal) > 0)
  PROVE  a.availableIn = DefaultWait
<1>1. /\ a \in PoolWorker /\ a.availableIn \in {0, DefaultWait}
      /\ a.availableIn = 0 <=> a.output + a.inference < a.profile.maxWorkers
  BY PoolTyped
<1>2. /\ a.profile.maxWorkers \in Nat /\ a.profile.outputSlots \in Nat
      /\ a.profile.inferenceSlots \in Nat /\ a.output \in Nat /\ a.inference \in Nat
  BY <1>1 DEF PoolWorker, Profile
<1>3. ~(FreeSlots(a, isFinal) > 0)
  BY <1>1, ClaimableIsFree
<1>4. ~(a.output + a.inference < a.profile.maxWorkers)
  <2>1. CASE isFinal
    BY <1>2, <1>3, <2>1 DEF FreeSlots, Accepting, CanAcceptJob, Larger
  <2>2. CASE ~isFinal
    BY <1>2, <1>3, <2>2 DEF FreeSlots, Accepting, CanAcceptJob, Larger
  <2>3. QED
    BY <2>1, <2>2
<1>5. QED
  BY <1>1, <1>4

\* Whatever the pool and its load: as long as an active worker may take a job
\* and would finish it before the default wait of a full one, a worker that may
\* take it is told that it is the best one.  A full worker can be the earliest
\* to finish only after that wait.
THEOREM JobsFindTheirWorker == Spec => []BestWorkerCanTakeIt
<1>1. ASSUME TypeInv, NEW s \in Submissions, NEW pool, pool = Pool, NEW d, d = ObservedDemand(s),
             NEW able, able = {a \in pool : /\ Claimable(a, d.isFinal) > 0
                                            /\ Feasible(a.profile, a.bench, d)},
             NEW a \in able, Finish(a, d) <= DefaultWait
      PROVE  \E b \in able : IsGloballyBestWorker(b, pool, d)
  <2>1. Known(d) /\ d.isFinal \in BOOLEAN
    BY <1>1, ObservedKnown DEF Known
  <2>2. \A b \in pool : b \in PoolWorker /\ Finish(b, d) \in Nat
    BY <1>1, <2>1, PoolTyped, FinishTyped
  <2>3. \A b \in able : b \in Candidates(pool, d)
    <3>1. ASSUME NEW b \in able PROVE Accepting(b, d.isFinal)
      <4>1. FreeSlots(b, d.isFinal) > 0
        BY <1>1, <2>1, <2>2, ClaimableIsFree
      <4>2. QED
        BY <4>1 DEF FreeSlots
    <3>2. QED
      BY <1>1, <3>1 DEF Candidates
  <2> DEFINE times == {Finish(b, d) : b \in Candidates(pool, d)}
  <2>4. times \subseteq Nat /\ times # {}
    BY <1>1, <2>2, <2>3 DEF Candidates
  <2>5. PICK c \in Candidates(pool, d) : Min(times) = Finish(c, d)
    BY <2>4, LeastOf
  <2>6. GlobalBestFinishTime(pool, d) = Finish(c, d)
    BY <2>4, <2>5 DEF GlobalBestFinishTime
  <2>7. c \in pool /\ Feasible(c.profile, c.bench, d) /\ Accepting(c, d.isFinal)
    BY <2>5 DEF Candidates
  <2> HIDE DEF times
  <2>8. CASE c \in able
    BY <2>2, <2>6, <2>7, <2>8 DEF IsGloballyBestWorker
  <2>9. CASE c \notin able
    <3>1. ~(Claimable(c, d.isFinal) > 0)
      BY <1>1, <2>7, <2>9
    <3>2. c.availableIn = DefaultWait
      BY <1>1, <2>1, <2>7, <3>1, AcceptingFull
    <3>3. Finish(c, d) >= DefaultWait
      BY <2>1, <2>2, <2>7, <3>2, FinishTyped
    <3>4. Finish(a, d) <= Finish(c, d)
      BY <1>1, <2>2, <2>7, <3>3 DEF DefaultWait
    <3>5. IsGloballyBestWorker(a, pool, d)
      BY <1>1, <2>6, <3>4 DEF IsGloballyBestWorker
    <3>6. QED
      BY <1>1, <3>5
  <2>10. QED
    BY <2>8, <2>9
<1>2. TypeInv => BestWorkerCanTakeIt
  BY <1>1 DEF BestWorkerCanTakeIt
<1>3. QED
  BY <1>2, TypesHold, PTL
-----------------------------------------------------------------------------
(***************************************************************************)
(* What is learned of the runs.                                            *)
(***************************************************************************)
Values(v) == {v[i] : i \in DOMAIN v}
UpTo(v, x) == {i \in DOMAIN v : v[i] <= x}
Under(v, x) == {i \in DOMAIN v : v[i] < x}

\* The rows of a group: finitely many, each with a positive number.
Group(v) == IsFiniteSet(DOMAIN v) /\ \A i \in DOMAIN v : v[i] \in Nat \ {0}

LEMMA CountsOfGroup ==
  ASSUME NEW v, Group(v), NEW x \in Nat
  PROVE  /\ IsFiniteSet(UpTo(v, x)) /\ IsFiniteSet(Under(v, x))
         /\ Cardinality(UpTo(v, x)) \in Nat /\ Cardinality(Under(v, x)) \in Nat
         /\ Cardinality(DOMAIN v) \in Nat
         /\ Cardinality(Under(v, x)) <= Cardinality(DOMAIN v)
<1>1. UpTo(v, x) \subseteq DOMAIN v /\ Under(v, x) \subseteq DOMAIN v /\ IsFiniteSet(DOMAIN v)
  BY DEF UpTo, Under, Group
<1>2. QED
  BY <1>1, FS_Subset, FS_CardinalityType

\* Some number bounds all values of a group.
LEMMA GroupBounded ==
  ASSUME NEW v, Group(v)
  PROVE  \E x \in Nat : UpTo(v, x) = DOMAIN v
<1> DEFINE B == {D \in SUBSET DOMAIN v : \E x \in Nat : \A i \in D : v[i] <= x}
           S == {n \in Nat : \A D \in SUBSET DOMAIN v :
                               IsFiniteSet(D) /\ Cardinality(D) = n => D \in B}
<1>1. 0 \in S
  <2>1. {} \in B
    OBVIOUS
  <2>2. \A D : IsFiniteSet(D) /\ Cardinality(D) = 0 => D = {}
    BY FS_EmptySet
  <2>3. QED
    BY <2>1, <2>2
<1>2. ASSUME NEW n \in Nat, n \in S PROVE n + 1 \in S
  <2>1. ASSUME NEW D \in SUBSET DOMAIN v, IsFiniteSet(D), Cardinality(D) = n + 1
        PROVE  D \in B
    <3>1. D # {}
      BY <2>1, FS_EmptySet
    <3>2. PICK i \in D : TRUE
      BY <3>1
    <3>3. IsFiniteSet(D \ {i}) /\ Cardinality(D \ {i}) = n
      BY <2>1, <3>2, FS_RemoveElement
    <3>4. D \ {i} \in B
      BY <1>2, <2>1, <3>3
    <3>5. PICK x \in Nat : \A j \in D \ {i} : v[j] <= x
      BY <3>4
    <3>6. \A j \in D : v[j] \in Nat
      BY <2>1 DEF Group
    <3>7. \A j \in D : v[j] <= x + v[i]
      BY <3>2, <3>5, <3>6
    <3>8. x + v[i] \in Nat
      BY <3>2, <3>6
    <3>9. QED
      BY <3>7, <3>8
  <2> HIDE DEF B
  <2>2. QED
    BY <2>1
<1>3. Nat \subseteq S
  <2> HIDE DEF S
  <2>1. QED
    BY <1>1, <1>2, SetInduction
<1>4. DOMAIN v \in B
  <2>1. IsFiniteSet(DOMAIN v) /\ Cardinality(DOMAIN v) \in Nat
    BY FS_CardinalityType DEF Group
  <2> HIDE DEF B
  <2>2. QED
    BY <1>3, <2>1
<1>5. QED
  BY <1>4 DEF UpTo

\* Each row of the sorted group has a value: the least number that as many
\* rows reach.
LEMMA SmallestIs ==
  ASSUME NEW v, Group(v), NEW k \in Nat, 1 <= k, k <= Cardinality(DOMAIN v)
  PROVE  /\ Smallest(v, k) \in Values(v) /\ Smallest(v, k) \in Nat \ {0}
         /\ Cardinality(Under(v, Smallest(v, k))) < k
         /\ Cardinality(UpTo(v, Smallest(v, k))) >= k
<1> DEFINE T == {x \in Nat : Cardinality(UpTo(v, x)) >= k}
<1>1. T \in SUBSET Nat /\ T # {}
  BY GroupBounded, CountsOfGroup
<1>2. PICK x \in T : \A y \in T : x <= y
  <2> HIDE DEF T
  <2>1. QED
    BY <1>1, LeastOf
<1>3. x \in Nat /\ Cardinality(UpTo(v, x)) >= k
  BY <1>2
<1>4. \A i \in DOMAIN v : v[i] \in Nat \ {0}
  BY DEF Group
<1>5. Cardinality(Under(v, x)) < k
  <2>1. CASE x = 0
    <3>1. Under(v, x) = {}
      BY <1>4, <2>1 DEF Under
    <3>2. QED
      BY <3>1, FS_EmptySet
  <2>2. CASE x # 0
    <3>1. x - 1 \in Nat /\ ~(x <= x - 1)
      BY <1>3, <2>2
    <3>2. ~(Cardinality(UpTo(v, x - 1)) >= k)
      BY <1>2, <3>1
    <3>3. Under(v, x) = UpTo(v, x - 1)
      BY <1>3, <1>4, <3>1 DEF Under, UpTo
    <3>4. QED
      BY <3>1, <3>2, <3>3, CountsOfGroup
  <2>3. QED
    BY <2>1, <2>2
<1>6. x \in Values(v)
  <2>1. SUFFICES ASSUME x \notin Values(v) PROVE FALSE
    OBVIOUS
  <2>2. UpTo(v, x) = Under(v, x)
    BY <1>3, <1>4, <2>1 DEF UpTo, Under, Values
  <2>3. QED
    BY <1>3, <1>5, <2>2, CountsOfGroup
<1>7. /\ Smallest(v, k) \in Values(v)
      /\ Cardinality(Under(v, Smallest(v, k))) < k
      /\ Cardinality(UpTo(v, Smallest(v, k))) >= k
  BY <1>3, <1>5, <1>6 DEF Smallest, Values, Under, UpTo
<1>8. QED
  BY <1>4, <1>7 DEF Values

\* A later row of the sorted group is not smaller.
LEMMA SmallestGrows ==
  ASSUME NEW v, Group(v), NEW k \in Nat, 1 <= k, k + 1 <= Cardinality(DOMAIN v)
  PROVE  Smallest(v, k) <= Smallest(v, k + 1)
<1> DEFINE x == Smallest(v, k)
           y == Smallest(v, k + 1)
<1>1. x \in Nat /\ y \in Nat /\ Cardinality(Under(v, x)) < k
      /\ Cardinality(UpTo(v, y)) >= k + 1
  BY SmallestIs, CountsOfGroup
<1> HIDE DEF x, y
<1>2. SUFFICES ASSUME y < x PROVE FALSE
  BY <1>1 DEF x, y
<1>3. UpTo(v, y) \subseteq Under(v, x)
  BY <1>1, <1>2 DEF UpTo, Under, Group
<1>4. Cardinality(UpTo(v, y)) <= Cardinality(Under(v, x))
  BY <1>1, <1>3, CountsOfGroup, FS_Subset
<1>5. Cardinality(UpTo(v, y)) \in Nat /\ Cardinality(Under(v, x)) \in Nat
  BY <1>1, CountsOfGroup
<1>6. QED
  BY <1>1, <1>4, <1>5

\* The rows that a number does not exceed, and those it does.
LEMMA RowsFrom ==
  ASSUME NEW v, Group(v), NEW x \in Nat, NEW f \in Nat, f <= x
  PROVE  LET above == {i \in DOMAIN v : v[i] >= f}
         IN  /\ Cardinality(above) \in Nat
             /\ Cardinality(above) >= Cardinality(DOMAIN v) - Cardinality(Under(v, x))
<1> DEFINE above == {i \in DOMAIN v : v[i] >= f}
           rest == DOMAIN v \ Under(v, x)
<1>1. rest \subseteq above /\ above \subseteq DOMAIN v
  BY DEF Under, Group
<1>2. IsFiniteSet(DOMAIN v)
  BY DEF Group
<1>3. IsFiniteSet(above) /\ Cardinality(rest) <= Cardinality(above)
  BY <1>1, <1>2, FS_Subset
<1>4. Cardinality(rest) = Cardinality(DOMAIN v) - Cardinality(DOMAIN v \cap Under(v, x))
  BY <1>2, FS_Difference
<1>5. DOMAIN v \cap Under(v, x) = Under(v, x)
  BY DEF Under
<1>6. Cardinality(above) \in Nat
  BY <1>3, FS_CardinalityType
<1> HIDE DEF above, rest
<1>7. QED
  BY <1>3, <1>4, <1>5, <1>6 DEF above

\* The median of at least three rows lies between the two middle ones.
LEMMA MedianBetween ==
  ASSUME NEW v, Group(v), Cardinality(DOMAIN v) >= 3
  PROVE  \E x, y \in Values(v) :
           /\ Median(v) \in Nat \ {0} /\ x <= Median(v) /\ Median(v) <= y
           /\ 2 * Cardinality(UpTo(v, x)) >= Cardinality(DOMAIN v)
           /\ 2 * Cardinality(Under(v, y)) <= Cardinality(DOMAIN v)
<1> DEFINE n == Cardinality(DOMAIN v)
<1>1. n \in Nat /\ n >= 3
  BY CountsOfGroup, 0 \in Nat
<1>2. Median(v) = LET at == 50 * (n - 1)
                      below == Smallest(v, at \div 100 + 1)
                      above == IF at % 100 = 0 THEN below ELSE Smallest(v, at \div 100 + 2)
                  IN  below + ((above - below) * (at % 100)) \div 100
  BY <1>1 DEF Median, PercentileCont, RowAt
<1> HIDE DEF n
<1>3. CASE n % 2 = 1
  <2>1. PICK m \in Nat : n = 2 * m + 1 /\ m >= 1
    <3>1. n = 2 * (n \div 2) + 1 /\ n \div 2 \in Nat /\ n \div 2 >= 1
      BY <1>1, <1>3
    <3>2. QED
      BY <3>1
  <2> DEFINE x == Smallest(v, m + 1)
  <2>2. (50 * (n - 1)) \div 100 = m /\ (50 * (n - 1)) % 100 = 0
    <3>1. 50 * (n - 1) = 100 * m
      BY <2>1
    <3>2. QED
      BY <2>1, <3>1
  <2>3. /\ x \in Values(v) /\ x \in Nat \ {0} /\ Cardinality(Under(v, x)) < m + 1
        /\ Cardinality(UpTo(v, x)) >= m + 1
    BY <2>1, SmallestIs DEF n
  <2>4. Cardinality(Under(v, x)) \in Nat /\ Cardinality(UpTo(v, x)) \in Nat
    BY <2>3, CountsOfGroup
  <2>5. Median(v) = x + ((x - x) * 0) \div 100
    BY <1>2, <2>2
  <2> HIDE DEF x
  <2>6. Median(v) = x
    BY <2>3, <2>5
  <2>7. QED
    BY <2>1, <2>3, <2>4, <2>6 DEF n
<1>4. CASE n % 2 = 0
  <2>1. PICK m \in Nat : n = 2 * m /\ m >= 2
    <3>1. n = 2 * (n \div 2) /\ n \div 2 \in Nat /\ n \div 2 >= 2
      BY <1>1, <1>4
    <3>2. QED
      BY <3>1
  <2> DEFINE x == Smallest(v, m)
             y == Smallest(v, m + 1)
  <2>2. (50 * (n - 1)) \div 100 = m - 1 /\ (50 * (n - 1)) % 100 = 50
    <3>1. 50 * (n - 1) = 100 * (m - 1) + 50
      BY <2>1
    <3>2. QED
      BY <2>1, <3>1
  <2>3. /\ x \in Values(v) /\ x \in Nat \ {0} /\ Cardinality(Under(v, x)) < m
        /\ Cardinality(UpTo(v, x)) >= m
    BY <2>1, SmallestIs DEF n
  <2>4. /\ y \in Values(v) /\ y \in Nat \ {0} /\ Cardinality(Under(v, y)) < m + 1
        /\ Cardinality(UpTo(v, y)) >= m + 1
    BY <2>1, SmallestIs DEF n
  <2>5. x <= y
    BY <2>1, SmallestGrows DEF n
  <2>6. /\ Cardinality(UpTo(v, x)) \in Nat /\ Cardinality(Under(v, y)) \in Nat
    BY <2>3, <2>4, CountsOfGroup
  <2>7. Median(v) = x + ((y - x) * 50) \div 100
    <3>1. m - 1 + 1 = m /\ m - 1 + 2 = m + 1
      BY <2>1
    <3>2. QED
      BY <1>2, <2>2, <3>1
  <2> HIDE DEF x, y
  <2>8. Median(v) \in Nat \ {0} /\ x <= Median(v) /\ Median(v) <= y
    BY <2>3, <2>4, <2>5, <2>7
  <2>9. QED
    BY <2>1, <2>3, <2>4, <2>6, <2>8 DEF n
<1>5. QED
  BY <1>1, <1>3, <1>4

\* The learned factor halves the runs that are known, however many they are
\* and however their measured times scatter.
THEOREM MedianHalvesTheRuns ==
  ASSUME NEW v, Group(v), Cardinality(DOMAIN v) >= 3
  PROVE  LET f == CorrectionFactor(v)
         IN  /\ f \in Nat \ {0}
             /\ 2 * Cardinality({i \in DOMAIN v : v[i] <= f}) >= Cardinality(DOMAIN v)
             /\ 2 * Cardinality({i \in DOMAIN v : v[i] >= f}) >= Cardinality(DOMAIN v)
<1> DEFINE n == Cardinality(DOMAIN v)
           f == Median(v)
           over == {i \in DOMAIN v : v[i] >= f}
<1>1. n \in Nat /\ n >= 3
  BY CountsOfGroup, 0 \in Nat
<1>2. PICK x \in Values(v), y \in Values(v) :
        /\ f \in Nat \ {0} /\ x <= f /\ f <= y
        /\ 2 * Cardinality(UpTo(v, x)) >= n /\ 2 * Cardinality(Under(v, y)) <= n
  BY MedianBetween
<1>3. x \in Nat /\ y \in Nat
  BY DEF Values, Group
<1>4. CorrectionFactor(v) = f
  BY <1>1, <1>2 DEF CorrectionFactor
<1> HIDE DEF f
<1>5. 2 * Cardinality(UpTo(v, f)) >= n
  <2>1. UpTo(v, x) \subseteq UpTo(v, f)
    BY <1>2, <1>3 DEF UpTo, Group
  <2>2. Cardinality(UpTo(v, x)) <= Cardinality(UpTo(v, f))
    BY <1>2, <2>1, CountsOfGroup, FS_Subset
  <2>3. Cardinality(UpTo(v, x)) \in Nat /\ Cardinality(UpTo(v, f)) \in Nat
    BY <1>2, <1>3, CountsOfGroup
  <2>4. QED
    BY <1>1, <1>2, <2>2, <2>3
<1>6. 2 * Cardinality(over) >= n
  <2>1. Cardinality(over) \in Nat /\ Cardinality(over) >= n - Cardinality(Under(v, y))
    BY <1>2, <1>3, RowsFrom
  <2>2. Cardinality(Under(v, y)) \in Nat
    BY <1>3, CountsOfGroup
  <2> HIDE DEF over, n
  <2>3. QED
    BY <1>1, <1>2, <2>1, <2>2
<1>7. QED
  BY <1>2, <1>4, <1>5, <1>6 DEF UpTo

\* Whatever runs are logged, in whatever order and by whichever attempts: the
\* factor is the median of those of a kind once there are three, 1 before.
THEOREM FactorFollowsRuns == Spec => []CorrectionFollowsRuns
<1>1. ASSUME TypeInv, NEW isFinal \in BOOLEAN
      PROVE  Group(Ratios(isFinal))
  <2>1. logs \in Seq(Log)
    BY <1>1 DEF TypeInv, TypeOK
  <2>2. DOMAIN Ratios(isFinal) \subseteq 1 .. Len(logs)
    BY <2>1 DEF Ratios, RunsOf
  <2>3. IsFiniteSet(DOMAIN Ratios(isFinal))
    BY <2>1, <2>2, FS_Interval, FS_Subset
  <2>4. ASSUME NEW i \in DOMAIN Ratios(isFinal)
        PROVE  Ratios(isFinal)[i] \in Nat \ {0}
    <3>1. i \in DOMAIN logs /\ logs[i].ratio > 0 /\ Ratios(isFinal)[i] = logs[i].ratio
      BY <2>4 DEF Ratios, RunsOf
    <3>2. logs[i] \in Log
      BY <2>1, <3>1
    <3>3. QED
      BY <3>1, <3>2 DEF Log
  <2>5. QED
    BY <2>3, <2>4 DEF Group
<1>2. ASSUME TypeInv, NEW isFinal \in BOOLEAN, NEW r, r = Ratios(isFinal)
      PROVE  IF Cardinality(DOMAIN r) < 3 THEN CorrectionFactor(r) = Scale
             ELSE LET f == CorrectionFactor(r)
                  IN  /\ 2 * Cardinality({i \in DOMAIN r : r[i] <= f}) >= Cardinality(DOMAIN r)
                      /\ 2 * Cardinality({i \in DOMAIN r : r[i] >= f}) >= Cardinality(DOMAIN r)
  <2>1. Group(r)
    BY <1>1, <1>2
  <2>2. Cardinality(DOMAIN r) \in Nat
    BY <2>1, FS_CardinalityType DEF Group
  <2>3. CASE Cardinality(DOMAIN r) < 3
    BY <2>3 DEF CorrectionFactor
  <2>4. CASE Cardinality(DOMAIN r) >= 3
    BY <2>1, <2>2, <2>4, MedianHalvesTheRuns
  <2>5. QED
    BY <2>2, <2>3, <2>4
<1>3. TypeInv => CorrectionFollowsRuns
  BY <1>2 DEF CorrectionFollowsRuns
<1>4. QED
  BY <1>3, TypesHold, PTL
-----------------------------------------------------------------------------
(***************************************************************************)
(* The claims as a fenced lease.  Attempts are used in order, so the last   *)
(* one used is the last token; and no result was committed for a submission *)
(* that runs, so a commit replaces none.                                    *)
(***************************************************************************)
UsedUpTo(n) == n \in 0 .. MaxAttempts /\ \A a \in Attempts : events[a] # NoEvents <=> a <= n
UsedFirst == \E n \in Nat : UsedUpTo(n)

\* What the abstract lease sees as its last token and the last write.
Issued == Max({0} \cup (Attempts \ Unused))
Written(s) == Max({0} \cup CommittedFor(s))

LEMMA MaxIs ==
  ASSUME NEW S \in SUBSET Nat, NEW n \in S, \A y \in S : y <= n
  PROVE  Max(S) = n
<1>1. \A y \in S : n >= y
  OBVIOUS
<1>2. ASSUME NEW x \in S, \A y \in S : x >= y PROVE x = n
  BY <1>2
<1>3. QED
  BY <1>1, <1>2 DEF Max

LEMMA TokenOf ==
  ASSUME NEW n \in 0 .. MaxAttempts, NEW U, U = {a \in Attempts : a > n}
  PROVE  Max({0} \cup (Attempts \ U)) = n
<1>1. Attempts \ U = 1 .. n
  BY RegistryAssumption DEF Attempts
<1> DEFINE S == {0} \cup (Attempts \ U)
<1>2. S \in SUBSET Nat /\ n \in S /\ \A y \in S : y <= n
  BY <1>1, RegistryAssumption
<1> HIDE DEF S
<1>3. Max(S) = n
  BY <1>2, MaxIs
<1>4. QED
  BY <1>3 DEF S

LEMMA LastToken ==
  \A n \in Nat : (UsedUpTo(n) => Issued = n) /\ (UsedUpTo(n)' => Issued' = n)
<1>1. ASSUME NEW n \in Nat, UsedUpTo(n) PROVE Issued = n
  <2>1. Unused = {a \in Attempts : a > n} /\ n \in 0 .. MaxAttempts
    BY <1>1 DEF UsedUpTo, Unused, Attempts
  <2>2. QED
    BY <2>1, TokenOf DEF Issued
<1>2. ASSUME NEW n \in Nat, UsedUpTo(n)' PROVE Issued' = n
  <2>1. Unused' = {a \in Attempts : a > n} /\ n \in 0 .. MaxAttempts
    BY <1>2 DEF UsedUpTo, Unused, Attempts
  <2>2. QED
    BY <2>1, TokenOf DEF Issued
<1>3. QED
  BY <1>1, <1>2

\* A new attempt is the first that was not used.
LEMMA DispatchFirst ==
  ASSUME TypeInv, NEW h \in Handlers, Dispatch(h), NEW s \in Submissions, NEW a \in Attempts,
         Claims(h, s, a)
  PROVE  \A b \in Unused : a <= b
<1>1. events'[a] # events[a]
  BY SomeAreNone DEF Claims, TypeInv, TypeOK, NoEvents
<1>2. PICK t \in Submissions : /\ Unused # {}
                 /\ events' = [events EXCEPT ![Min(Unused)] =
                      [NoEvents EXCEPT !.worker = req[h].worker, !.sub = t]]
  BY <1>1 DEF Dispatch, Waiting
<1>3. a = Min(Unused)
  BY <1>1, <1>2 DEF TypeInv, TypeOK
<1>4. Unused \in SUBSET Nat
  BY RegistryAssumption DEF Unused, Attempts
<1>5. QED
  BY <1>2, <1>3, <1>4, LeastOf

\* The attempts that are used stay so, and no other is.
SameUsed == \A a \in Attempts : events'[a] = NoEvents <=> events[a] = NoEvents

LEMMA UsedStays ==
  ASSUME SameUsed, NEW n, UsedUpTo(n)
  PROVE  UsedUpTo(n)'
BY DEF SameUsed, UsedUpTo

LEMMA ClaimsUseNext ==
  ASSUME TypeInv, NEW h \in Handlers, Dispatch(h), NEW s \in Submissions, NEW a \in Attempts,
         Claims(h, s, a), NEW n \in Nat, UsedUpTo(n)
  PROVE  a = n + 1 /\ UsedUpTo(n + 1)'
<1>1. a \in Nat /\ a <= MaxAttempts /\ MaxAttempts \in Nat /\ a >= 1
  BY RegistryAssumption DEF Attempts
<1>2. events[a] = NoEvents /\ a > n
  BY <1>1 DEF Claims, UsedUpTo
<1>3. a = n + 1
  <2>1. n + 1 \in Attempts
    BY <1>1, <1>2 DEF Attempts
  <2>2. n + 1 \in Unused
    BY <2>1 DEF Unused, UsedUpTo
  <2>3. a <= n + 1
    BY <2>2, DispatchFirst
  <2>4. QED
    BY <1>1, <1>2, <2>3
<1>4. /\ \A b \in Attempts : b # a => events'[b] = events[b]
      /\ events'[a] # NoEvents
  BY SomeAreNone DEF Claims, TypeInv, TypeOK, NoEvents
<1>5. \A b \in Attempts : events'[b] # NoEvents <=> b <= n + 1
  <2>1. ASSUME NEW b \in Attempts PROVE events'[b] # NoEvents <=> b <= n + 1
    <3>1. b \in Nat
      BY DEF Attempts
    <3>2. CASE b = a
      BY <1>1, <1>3, <1>4, <3>2
    <3>3. CASE b # a
      BY <1>3, <1>4, <3>1, <3>3 DEF UsedUpTo
    <3>4. QED
      BY <3>2, <3>3
  <2>2. QED
    BY <2>1
<1>6. QED
  BY <1>1, <1>3, <1>5 DEF UsedUpTo
-----------------------------------------------------------------------------
\* The results that count as committed stay the same.
SameConcluded ==
  \A a \in Attempts : /\ Concluded(a)' <=> Concluded(a)
                      /\ Concluded(a) => events'[a].sub = events[a].sub

LEMMA CommittedOf ==
  \A s : CommittedFor(s) = {a \in Attempts : events[a].sub = s /\ Concluded(a)}
BY DEF CommittedFor, Concluded, Writes

LEMMA WrittenStays ==
  ASSUME SameConcluded, NEW s
  PROVE  CommittedFor(s)' = CommittedFor(s)
<1>1. \A a \in Attempts : (events'[a].sub = s /\ Concluded(a)') <=> (events[a].sub = s /\ Concluded(a))
  BY DEF SameConcluded
<1>2. CommittedFor(s)' = {a \in Attempts : events'[a].sub = s /\ Concluded(a)'}
  BY DEF CommittedFor, Concluded, Writes
<1>3. QED
  BY <1>1, <1>2, CommittedOf

\* A slot that neither starts nor ends the writing of a result.
LEMMA WritesStay ==
  ASSUME NEW h \in Handlers, \A g \in Handlers : g # h => req'[g] = req[g],
         \/ /\ req[h].pc \notin {"count", "record"}
            /\ req'[h].pc \notin {"count", "record"}
         \/ /\ req[h].pc = "count" /\ req'[h].pc = "record"
            /\ req'[h].attempt = req[h].attempt
  PROVE  \A g \in Handlers, a \in Attempts : Writes(g, a)' <=> Writes(g, a)
<1>1. ASSUME NEW g \in Handlers, NEW a \in Attempts PROVE Writes(g, a)' <=> Writes(g, a)
  <2>1. CASE g # h
    BY <2>1 DEF Writes
  <2>2. CASE g = h
    BY <2>2 DEF Writes
  <2>3. QED
    BY <2>1, <2>2
<1>2. QED
  BY <1>1

LEMMA ReplyWrites ==
  ASSUME TypeInv, NEW h \in Handlers, Reply(h), req[h].pc \notin {"count", "record"}
  PROVE  \A g \in Handlers, a \in Attempts : Writes(g, a)' <=> Writes(g, a)
<1>1. req'[h].pc = "idle" /\ \A g \in Handlers : g # h => req'[g] = req[g]
  BY DEF Reply, Idle, TypeInv, TypeOK
<1>2. QED
  BY <1>1, WritesStay

LEMMA GotoWrites ==
  ASSUME TypeInv, NEW h \in Handlers, NEW pc, Goto(h, pc),
         \/ req[h].pc \notin {"count", "record"} /\ pc \notin {"count", "record"}
         \/ req[h].pc = "count" /\ pc = "record"
  PROVE  \A g \in Handlers, a \in Attempts : Writes(g, a)' <=> Writes(g, a)
<1>1. /\ req'[h].pc = pc /\ req'[h].attempt = req[h].attempt
      /\ \A g \in Handlers : g # h => req'[g] = req[g]
  BY DEF Goto, TypeInv, TypeOK, Request
<1>2. QED
  BY <1>1, WritesStay

\* The steps that leave every result as it is.
LEMMA QuietWrites ==
  ASSUME TypeInv,
         \/ \E w \in Workers : RowStep(w)
         \/ \E h \in Handlers :
              \/ FetchWorker(h) \/ NoJob(h) \/ \E w \in Workers : ClaimNext(h, w)
              \/ \E w \in Workers, a \in Attempts : SubmitResult(h, w, a)
              \/ Dispatch(h) /\ Reply(h)
              \/ CheckResult(h) \/ CountResult(h) \/ DeleteClaim(h) \/ MarkRunning(h)
              \/ MarkResult(h) /\ Reply(h)
         \/ ReaperStep
         \/ UNCHANGED vars
  PROVE  \A g \in Handlers, a \in Attempts : Writes(g, a)' <=> Writes(g, a)
<1> DEFINE Same == \A g \in Handlers, a \in Attempts : Writes(g, a)' <=> Writes(g, a)
<1>1. CASE UNCHANGED req
  BY <1>1 DEF Writes
<1>2. ASSUME NEW h \in Handlers, Reply(h), req[h].pc \notin {"count", "record"} PROVE Same
  BY <1>2, ReplyWrites
<1>3. ASSUME NEW h \in Handlers, FetchWorker(h) PROVE Same
  <2>1. PICK kinds : req' = [req EXCEPT ![h].pc = "dispatch", ![h].kinds = kinds] \/ Reply(h)
    BY <1>3 DEF FetchWorker
  <2>2. req[h].pc = "fetch"
    BY <1>3 DEF FetchWorker
  <2>3. CASE req' = [req EXCEPT ![h].pc = "dispatch", ![h].kinds = kinds]
    <3>1. req'[h].pc = "dispatch" /\ \A g \in Handlers : g # h => req'[g] = req[g]
      BY <2>3 DEF TypeInv, TypeOK, Request
    <3>2. QED
      BY <2>2, <3>1, WritesStay
  <2>4. QED
    BY <1>2, <2>1, <2>2, <2>3
<1>4. ASSUME NEW h \in Handlers, NEW w \in Workers, ClaimNext(h, w) PROVE Same
  <2>1. /\ req[h].pc = "idle" /\ req'[h].pc = "fetch"
        /\ \A g \in Handlers : g # h => req'[g] = req[g]
    BY <1>4 DEF ClaimNext, Idle, TypeInv, TypeOK
  <2>2. QED
    BY <2>1, WritesStay
<1>5. ASSUME NEW h \in Handlers, NEW w \in Workers, NEW a \in Attempts, SubmitResult(h, w, a)
      PROVE  Same
  <2>1. /\ req[h].pc = "idle" /\ req'[h].pc = "check"
        /\ \A g \in Handlers : g # h => req'[g] = req[g]
    BY <1>5 DEF SubmitResult, Idle, TypeInv, TypeOK
  <2>2. QED
    BY <2>1, WritesStay
<1>6. ASSUME NEW h \in Handlers, \/ Dispatch(h) /\ Reply(h)
                                 \/ MarkResult(h) /\ Reply(h)
                                 \/ NoJob(h) \/ DeleteClaim(h) \/ MarkRunning(h)
      PROVE  Same
  <2>1. Reply(h) /\ req[h].pc \notin {"count", "record"}
    BY <1>6 DEF Dispatch, MarkResult, NoJob, DeleteClaim, MarkRunning
  <2>2. QED
    BY <1>2, <2>1
<1>7. ASSUME NEW h \in Handlers, CheckResult(h) PROVE Same
  <2>1. req[h].pc = "check" /\ (Goto(h, "mark") \/ Reply(h))
    BY <1>7 DEF CheckResult
  <2>2. CASE Goto(h, "mark")
    BY <2>1, <2>2, GotoWrites
  <2>3. QED
    BY <1>2, <2>1, <2>2
<1>8. ASSUME NEW h \in Handlers, CountResult(h) PROVE Same
  <2>1. req[h].pc = "count" /\ Goto(h, "record")
    BY <1>8 DEF CountResult
  <2>2. QED
    BY <2>1, GotoWrites
<1>9. ASSUME (\E w \in Workers : RowStep(w)) \/ ReaperStep \/ UNCHANGED vars PROVE Same
  <2>1. UNCHANGED req
    BY <1>9 DEF RowStep, Register, AdminApprove, AdminReject, AdminDelete, ReaperStep,
                DeleteStaleClaims, CountRequeued, RequeueOrphan, RequeueStale, vars
  <2>2. QED
    BY <1>1, <2>1
<1>10. QED
  BY <1>3, <1>4, <1>5, <1>6, <1>7, <1>8, <1>9
-----------------------------------------------------------------------------
\* A step that grants no claim and commits nothing.
Revokes ==
  /\ \A s \in Submissions : claim'[s] = claim[s] \/ claim'[s] = NoClaim
  /\ SameUsed /\ SameConcluded

LEMMA QuietRevokes ==
  ASSUME TypeInv,
         \/ \E w \in Workers : RowStep(w)
         \/ \E h \in Handlers :
              \/ FetchWorker(h) \/ NoJob(h) \/ \E w \in Workers : ClaimNext(h, w)
              \/ \E w \in Workers, a \in Attempts : SubmitResult(h, w, a)
              \/ Dispatch(h) /\ Reply(h) /\ UNCHANGED <<queue, claim, events>>
              \/ CheckResult(h) \/ CountResult(h) \/ DeleteClaim(h) \/ MarkRunning(h)
              \/ MarkResult(h) /\ Reply(h) /\ UNCHANGED status
         \/ ReaperStep
         \/ UNCHANGED vars
  PROVE  Revokes
<1>1. \A g \in Handlers, a \in Attempts : Writes(g, a)' <=> Writes(g, a)
  BY QuietWrites
<1>2. \A s \in Submissions : claim'[s] = claim[s] \/ claim'[s] = NoClaim
  <2>1. CASE DeleteStaleClaims
    BY <2>1 DEF DeleteStaleClaims
  <2>2. CASE \E h \in Handlers : MarkRunning(h)
    BY <2>2 DEF MarkRunning
  <2>3. CASE ReaperStep /\ ~DeleteStaleClaims
    BY <2>3 DEF ReaperStep, CountRequeued, RequeueOrphan, RequeueStale
  <2>4. CASE UNCHANGED vars
    BY <2>4 DEF vars
  <2>5. CASE Leaves
    BY <2>5 DEF Leaves
  <2>6. QED
    BY <2>1, <2>2, <2>3, <2>4, <2>5, StepsLeave
<1>3. CASE UNCHANGED events
  <2>1. SameUsed
    BY <1>3 DEF SameUsed
  <2>2. SameConcluded
    BY <1>1, <1>3 DEF SameConcluded, Concluded
  <2>3. QED
    BY <1>2, <2>1, <2>2 DEF Revokes
<1>4. CASE CountRequeued
  <2>1. PICK b \in Attempts : /\ events[b] # NoEvents
                              /\ events' = [events EXCEPT ![b].requeued = @ + 1]
    <3>1. watch.back # NoClaim /\ watch.back.attempt \in Attempts
      BY <1>4, WatchTyped DEF CountRequeued
    <3>2. events[watch.back.attempt] # NoEvents
      BY <3>1, WatchTyped, SomeAreNone DEF TypeInv, WatchSound
    <3>3. QED
      BY <1>4, <3>1, <3>2 DEF CountRequeued
  <2>2. /\ \A a \in Attempts : a # b => events'[a] = events[a]
        /\ events'[b] \in Events /\ events[b] \in Events
    BY <2>1, EventCounted
  <2>3. /\ events'[b].sub = events[b].sub /\ events'[b].done = events[b].done
        /\ events'[b].failed = events[b].failed
    <3>1. PICK v : v = events[b]
      OBVIOUS
    <3>2. events'[b] = [v EXCEPT !.requeued = @ + 1]
      BY <2>1, <3>1 DEF TypeInv, TypeOK
    <3>3. QED
      BY <2>2, <3>1, <3>2 DEF Events
  <2>4. SameUsed
    BY <2>2, SomeAreNone DEF SameUsed
  <2>5. ASSUME NEW a \in Attempts
        PROVE  /\ events'[a].sub = events[a].sub
               /\ events'[a].done = events[a].done /\ events'[a].failed = events[a].failed
    BY <2>2, <2>3
  <2>6. SameConcluded
    BY <1>1, <2>5 DEF SameConcluded, Concluded
  <2>7. QED
    BY <1>2, <2>4, <2>6 DEF Revokes
<1>5. UNCHANGED events \/ CountRequeued
  <2>1. CASE UNCHANGED vars
    BY <2>1 DEF vars
  <2>2. CASE ReaperStep
    BY <2>2 DEF ReaperStep, DeleteStaleClaims, RequeueOrphan, RequeueStale
  <2>3. CASE \E h \in Handlers : MarkRunning(h)
    BY <2>3 DEF MarkRunning
  <2>4. QED
    BY <2>1, <2>2, <2>3, StepsLeave
<1>6. QED
  BY <1>3, <1>4, <1>5

\* A request that writes the events of its result leaves it committed.
LEMMA RecordRevokes ==
  ASSUME TypeInv, OnceInv, NEW h \in Handlers, RecordResult(h)
  PROVE  Revokes
<1>1. PICK a \in Attempts : a = req[h].attempt /\ events[a] # NoEvents
  BY JobOf DEF RecordResult, HasJob
<1>2. /\ Writes(h, a) /\ Goto(h, "delete") /\ UNCHANGED claim
      /\ \/ events' = [events EXCEPT ![a].done = @ + 1]
         \/ events' = [events EXCEPT ![a].failed = @ + 1]
  BY <1>1 DEF RecordResult, Writes
<1>3. /\ \A b \in Attempts : b # a => events'[b] = events[b]
      /\ events'[a] \in Events /\ events[a] \in Events
  BY <1>1, <1>2, EventCounted
<1>4. events'[a].sub = events[a].sub /\ events'[a].done + events'[a].failed > 0
  <2>1. PICK v : v = events[a]
    OBVIOUS
  <2>2. events'[a] = [v EXCEPT !.done = @ + 1] \/ events'[a] = [v EXCEPT !.failed = @ + 1]
    BY <1>2, <2>1 DEF TypeInv, TypeOK
  <2>3. QED
    BY <1>3, <2>1, <2>2 DEF Events
<1>5. SameUsed
  BY <1>3, SomeAreNone DEF SameUsed
<1>6. \A b \in Attempts, g \in Handlers : b # a => (Writes(g, b)' <=> Writes(g, b))
  <2>1. /\ \A g \in Handlers : g # h => req'[g] = req[g]
        /\ req'[h].pc = "delete"
    BY <1>2 DEF Goto, TypeInv, TypeOK, Request
  <2>2. ASSUME NEW b \in Attempts, NEW g \in Handlers, b # a
        PROVE  Writes(g, b)' <=> Writes(g, b)
    <3>1. CASE g = h
      BY <1>1, <2>1, <2>2, <3>1 DEF Writes
    <3>2. CASE g # h
      BY <2>1, <3>2 DEF Writes
    <3>3. QED
      BY <3>1, <3>2
  <2>3. QED
    BY <2>2
<1>7. SameConcluded
  <2>1. ASSUME NEW b \in Attempts
        PROVE  (Concluded(b)' <=> Concluded(b)) /\ events'[b].sub = events[b].sub
    <3>1. CASE b = a
      BY <1>2, <1>4, <3>1 DEF Concluded
    <3>2. CASE b # a
      BY <1>3, <1>6, <3>2 DEF Concluded
    <3>3. QED
      BY <3>1, <3>2
  <2>2. QED
    BY <2>1 DEF SameConcluded
<1>8. QED
  BY <1>2, <1>5, <1>7 DEF Revokes

\* Such a step revokes the claims that are gone.
LEMMA RevokesOnly ==
  ASSUME UsedFirst, Revokes
  PROVE  UsedFirst' /\ Lease!LeaseNext
<1>1. PICK n \in Nat : UsedUpTo(n)
  BY DEF UsedFirst
<1>2. UsedUpTo(n)'
  BY <1>1, UsedStays DEF Revokes
<1>3. Issued' = Issued
  BY <1>1, <1>2, LastToken
<1>4. \A s \in Submissions : Written(s)' = Written(s)
  BY WrittenStays DEF Revokes, Written
<1>5. PICK R \in SUBSET Submissions :
        \A s \in Submissions : claim'[s] = IF s \in R THEN NoClaim ELSE claim[s]
  <2> DEFINE G == {s \in Submissions : claim'[s] = NoClaim}
  <2>1. \A s \in Submissions : claim'[s] = IF s \in G THEN NoClaim ELSE claim[s]
    BY DEF Revokes
  <2>2. G \in SUBSET Submissions
    OBVIOUS
  <2> HIDE DEF G
  <2>3. QED
    BY <2>1, <2>2
<1>6. \A s \in Submissions : claim'[s].attempt = IF s \in R THEN 0 ELSE claim[s].attempt
  BY <1>5 DEF NoClaim
<1>7. Lease!Revoke(R)
  BY <1>3, <1>4, <1>6 DEF Lease!Revoke, Issued, Written
<1>8. QED
  BY <1>1, <1>2, <1>7 DEF Lease!LeaseNext, UsedFirst
-----------------------------------------------------------------------------
\* A poll that gets a job is granted the lease of its submission under the next
\* token.
LEMMA ClaimsGrant ==
  ASSUME TypeInv, UsedFirst, NEW h \in Handlers, Dispatch(h),
         NEW s \in Submissions, NEW a \in Attempts, Claims(h, s, a)
  PROVE  UsedFirst' /\ Lease!LeaseNext
<1>1. PICK n \in Nat : UsedUpTo(n)
  BY DEF UsedFirst
<1>2. a = n + 1 /\ UsedUpTo(n + 1)' /\ n + 1 \in Nat
  BY <1>1, ClaimsUseNext
<1>3. Issued = n /\ Issued' = n + 1
  BY <1>1, <1>2, LastToken
<1>4. claim[s].attempt = 0 /\ \A t \in Submissions :
        claim'[t].attempt = IF t = s THEN n + 1 ELSE claim[t].attempt
  <2>1. claim[s] = NoClaim /\ claim' = [claim EXCEPT ![s] = [worker |-> req[h].worker, attempt |-> a]]
    BY DEF Claims
  <2>2. QED
    BY <1>2, <2>1 DEF NoClaim, TypeInv, TypeOK
<1>5. SameConcluded
  <2>1. req[h].pc = "dispatch" /\ req'[h].pc = "mark_running"
        /\ \A g \in Handlers : g # h => req'[g] = req[g]
    BY DEF Claims, TypeInv, TypeOK
  <2>2. \A g \in Handlers, b \in Attempts : Writes(g, b)' <=> Writes(g, b)
    BY <2>1, WritesStay
  <2>3. \A b \in Attempts : b # a => events'[b] = events[b]
    BY DEF Claims, TypeInv, TypeOK
  <2>4. /\ events'[a].done = 0 /\ events'[a].failed = 0
        /\ events[a].done = 0 /\ events[a].failed = 0 /\ events[a] = NoEvents
    BY DEF Claims, TypeInv, TypeOK, NoEvents
  <2>5. ~Concluded(a)
    BY <2>4, ConcludedKnown
  <2>6. ASSUME NEW b \in Attempts
        PROVE  /\ Concluded(b)' <=> Concluded(b)
               /\ Concluded(b) => events'[b].sub = events[b].sub
    <3>1. CASE b = a
      BY <2>2, <2>4, <2>5, <3>1 DEF Concluded
    <3>2. CASE b # a
      BY <2>2, <2>3, <3>2 DEF Concluded
    <3>3. QED
      BY <3>1, <3>2
  <2>7. QED
    BY <2>6 DEF SameConcluded
<1>6. \A t \in Submissions : Written(t)' = Written(t)
  BY <1>5, WrittenStays DEF Written
<1>7. Lease!Grant(s)
  BY <1>3, <1>4, <1>6 DEF Lease!Grant, Issued, Written
<1>8. QED
  BY <1>2, <1>7 DEF Lease!LeaseNext, UsedFirst

\* A commit is a write by the attempt that holds the lease; it is the first for
\* its submission, which was running.
LEMMA CommitWrites ==
  ASSUME TypeInv, OnceInv, UsedFirst, NEW h \in Handlers, MarkResult(h), MayCommit(h)
  PROVE  UsedFirst' /\ Lease!LeaseNext
<1>1. PICK s \in Submissions, a \in Attempts : s = req[h].sub /\ a = req[h].attempt
  BY JobOf DEF MarkResult, HasJob
<1>2. /\ req[h].pc = "mark" /\ status[s] = "running" /\ claim[s].attempt = a
      /\ Goto(h, "count") /\ UNCHANGED <<claim, events>>
  BY <1>1 DEF MarkResult, MayCommit, OwnsClaim
<1>3. a \in Nat /\ a # 0 /\ claim[s] # NoClaim
  BY <1>2, RegistryAssumption DEF Attempts, NoClaim
<1>4. events[a].sub = s
  BY <1>2, <1>3 DEF TypeInv, ClaimsSound, AttemptOf
<1>5. /\ \A g \in Handlers : g # h => req'[g] = req[g]
      /\ req'[h].pc = "count" /\ req'[h].attempt = a
  BY <1>1, <1>2 DEF Goto, TypeInv, TypeOK, Request
<1>6. \A b \in Attempts : Concluded(b)' <=> Concluded(b) \/ b = a
  <2>1. ASSUME NEW g \in Handlers, NEW b \in Attempts
        PROVE  Writes(g, b)' <=> Writes(g, b) \/ (g = h /\ b = a)
    <3>1. CASE g = h
      BY <1>2, <1>5, <3>1 DEF Writes
    <3>2. CASE g # h
      BY <1>5, <3>2 DEF Writes
    <3>3. QED
      BY <3>1, <3>2
  <2>2. QED
    BY <1>2, <2>1 DEF Concluded
<1>7. \A t \in Submissions :
        CommittedFor(t)' = {b \in Attempts : events[b].sub = t /\ (Concluded(b) \/ b = a)}
  <2>1. ASSUME NEW t \in Submissions
        PROVE  CommittedFor(t)' = {b \in Attempts : events'[b].sub = t /\ Concluded(b)'}
    BY DEF CommittedFor, Concluded, Writes
  <2>2. QED
    BY <1>2, <1>6, <2>1
<1>8. CommittedFor(s)' = {a}
  <2>1. \A b \in Attempts : events[b].sub = s => ~Concluded(b)
    BY <1>2, RunningOnly
  <2>2. QED
    BY <1>4, <1>7, <2>1
<1>9. Written(s)' = a
  <2> DEFINE S == {0} \cup {a}
  <2>1. S \in SUBSET Nat /\ a \in S /\ \A y \in S : y <= a
    BY <1>3
  <2> HIDE DEF S
  <2>2. Max(S) = a
    BY <2>1, MaxIs
  <2>3. Written(s)' = Max({0} \cup CommittedFor(s)')
    BY DEF Written
  <2>4. QED
    BY <1>8, <2>2, <2>3 DEF S
<1>10. ASSUME NEW t \in Submissions, t # s PROVE Written(t)' = Written(t)
  <2>1. CommittedFor(t)' = CommittedFor(t)
    BY <1>4, <1>7, <1>10, CommittedOf
  <2>2. QED
    BY <2>1 DEF Written
<1>11. UsedFirst' /\ Issued' = Issued
  <2>1. SameUsed
    BY <1>2 DEF SameUsed
  <2>2. PICK n \in Nat : UsedUpTo(n)
    BY DEF UsedFirst
  <2>3. UsedUpTo(n)'
    BY <2>1, <2>2, UsedStays
  <2>4. QED
    BY <2>2, <2>3, LastToken DEF UsedFirst
<1>12. Lease!Write(s)
  <2>1. \A t \in Submissions : Written(t)' = IF t = s THEN claim[s].attempt ELSE Written(t)
    BY <1>2, <1>9, <1>10
  <2>2. QED
    BY <1>2, <1>3, <1>11, <2>1 DEF Lease!Write, Issued, Written
<1>13. QED
  BY <1>11, <1>12 DEF Lease!LeaseNext

\* At the start nothing is claimed, used or committed.
LEMMA LeaseStart == Init => UsedFirst /\ Lease!LeaseInit
<1> SUFFICES ASSUME Init PROVE UsedFirst /\ Lease!LeaseInit
  OBVIOUS
<1>1. UsedUpTo(0)
  BY RegistryAssumption DEF Init, UsedUpTo, Attempts
<1>2. Issued = 0
  BY <1>1, LastToken
<1>3. \A s \in Submissions : claim[s].attempt = 0
  BY DEF Init, NoClaim
<1>4. ASSUME NEW s \in Submissions PROVE Written(s) = 0
  <2>1. \A a \in Attempts : events[a].sub = None
    BY DEF Init, NoEvents
  <2>2. CommittedFor(s) = {}
    BY <2>1, RegistryAssumption DEF CommittedFor
  <2> DEFINE S == {0} \cup {}
  <2>3. S \in SUBSET Nat /\ 0 \in S /\ \A y \in S : y <= 0
    OBVIOUS
  <2> HIDE DEF S
  <2>4. Max(S) = 0
    BY <2>3, MaxIs
  <2>5. QED
    BY <2>2, <2>4 DEF S, Written
<1>5. QED
  BY <1>1, <1>2, <1>3, <1>4 DEF UsedFirst, Lease!LeaseInit, Issued, Written

LEMMA LeaseNextHolds ==
  TypeInv /\ OnceInv /\ UsedFirst /\ [Next]_vars => UsedFirst' /\ Lease!LeaseNext
<1> SUFFICES ASSUME TypeInv, OnceInv, UsedFirst, [Next]_vars PROVE UsedFirst' /\ Lease!LeaseNext
  OBVIOUS
<1>1. ASSUME \/ \E w \in Workers : RowStep(w)
             \/ \E h \in Handlers :
                  \/ FetchWorker(h) \/ NoJob(h) \/ \E w \in Workers : ClaimNext(h, w)
                  \/ \E w \in Workers, a \in Attempts : SubmitResult(h, w, a)
                  \/ Dispatch(h) /\ Reply(h) /\ UNCHANGED <<queue, claim, events>>
                  \/ CheckResult(h) \/ CountResult(h) \/ DeleteClaim(h) \/ MarkRunning(h)
                  \/ MarkResult(h) /\ Reply(h) /\ UNCHANGED status
             \/ ReaperStep
             \/ UNCHANGED vars
      PROVE  UsedFirst' /\ Lease!LeaseNext
  BY <1>1, QuietRevokes, RevokesOnly
<1>2. ASSUME NEW h \in Handlers, Dispatch(h) PROVE UsedFirst' /\ Lease!LeaseNext
  BY <1>1, <1>2, DispatchCases, ClaimsGrant
<1>3. ASSUME NEW h \in Handlers, MarkResult(h) PROVE UsedFirst' /\ Lease!LeaseNext
  <2>1. MayCommit(h) \/ (Reply(h) /\ UNCHANGED status)
    BY <1>3 DEF MarkResult
  <2>2. QED
    BY <1>1, <1>3, <2>1, CommitWrites
<1>4. ASSUME NEW h \in Handlers, RecordResult(h) PROVE UsedFirst' /\ Lease!LeaseNext
  BY <1>4, RecordRevokes, RevokesOnly
<1>5. CASE Next
  BY <1>1, <1>2, <1>3, <1>4, <1>5 DEF Next, RowStep, ReaperStep
<1>6. QED
  BY <1>1, <1>5

\* The registry implements the fenced lease, whatever is approved anew, deleted,
\* reaped or repeated: a claim is granted under a new attempt, never while one is
\* held, and only the attempt that holds the claim of a submission commits a
\* result of it.  JudgePipeline has the same refinement with its own queue; here
\* the tokens are those of the events, and what was written is what the events
\* and the requests in flight say was committed.
THEOREM RegistryImplementsLease == Spec => ImplementsLease
<1>1. TypeInv /\ OnceInv /\ UsedFirst /\ [Next]_vars
        => UsedFirst' /\ [Lease!LeaseNext]_(Lease!lvars)
  BY LeaseNextHolds
<1>2. QED
  BY <1>1, LeaseStart, InitTypes, NextTypes, InitOnce, NextOnce, PTL
  DEF Spec, ImplementsLease, Lease!LeaseSpec

\* What follows of every fenced lease.
Fences == INSTANCE FencedLeaseProofs WITH
            Resources <- Submissions,
            holder    <- [s \in Submissions |-> claim[s].attempt],
            written   <- [s \in Submissions |-> Max({0} \cup CommittedFor(s))],
            issued    <- Max({0} \cup (Attempts \ Unused))

\* No two claims are held under one attempt, the attempt that holds a claim is at
\* least as new as any that committed a result of the submission, and none of
\* them is newer than the events know.
THEOREM ClaimsAreOrdered == Spec => []Lease!LeaseOrder
<1>1. Lease!LeaseInit => Fences!LeaseInit
  BY DEF Lease!LeaseInit, Fences!LeaseInit
<1>2. [Lease!LeaseNext]_(Lease!lvars) => [Fences!LeaseNext]_(Fences!lvars)
  BY DEF Lease!LeaseNext, Lease!Grant, Lease!Revoke, Lease!Write, Lease!lvars,
         Fences!LeaseNext, Fences!Grant, Fences!Revoke, Fences!Write, Fences!lvars
<1>3. Fences!LeaseOrder => Lease!LeaseOrder
  BY DEF Fences!LeaseOrder, Lease!LeaseOrder
<1>4. QED
  BY <1>1, <1>2, <1>3, RegistryImplementsLease, Fences!LeaseKeepsOrder, PTL
  DEF ImplementsLease, Lease!LeaseSpec, Fences!LeaseSpec
=============================================================================
