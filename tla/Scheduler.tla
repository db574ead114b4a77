----------------------------- MODULE Scheduler -----------------------------
(***************************************************************************)
(* The pure part of backend/internal/scheduler: what a job demands, how    *)
(* long a worker would take for it, which worker would finish it first,    *)
(* how many jobs the pool can start now, how a pair of worker and job is   *)
(* ranked, and the factor learned from earlier runs.                       *)
(*                                                                         *)
(* Seconds, bytes and operations are natural numbers in the units of the   *)
(* instance, and a quotient is its whole part; ratios are in thousandths.  *)
(* A worker of the pool is a record of its Profile, its Benchmark, its     *)
(* open claims of either kind and the seconds until it has a free slot.    *)
(***************************************************************************)
EXTENDS WorkerProfile, FiniteSets, SequencesExt

CONSTANTS
  OutputDemand,     \* what EstimateJobDemand assumes of a job: ...
  FinalDemand       \* ... of an output job and of a final one

Benchmark == [cpu: Nat, gpu: Nat, unzip: Nat, diskWrite: Nat, download: Nat,
              docker: Nat, sandbox: BOOLEAN, native: BOOLEAN,
              ram: Nat, vram: Nat]
Demand == [isFinal: BOOLEAN, cpuOps: Nat, gpuOps: Nat, ram: Nat, vram: Nat,
           unzip: Nat, network: Nat, timeout: Nat]

ASSUME DemandAssumption ==
  /\ OutputDemand \in Demand /\ ~OutputDemand.isFinal
  /\ FinalDemand \in Demand /\ FinalDemand.isFinal

Scale == 1000
Never == -1            \* math.MaxFloat64: no worker can do it
DefaultWait == 1200    \* interval '20 minutes'
-----------------------------------------------------------------------------
(* Demand and run time.                                                    *)

Larger(a, b) == IF a < b THEN b ELSE a
SafeDivide(a, b) == IF b <= 0 THEN 0 ELSE a \div b

\* The submission is downloaded, and unpacked when the job is final.
EstimateJobDemand(isFinal, bytes) ==
  IF isFinal THEN [FinalDemand EXCEPT !.unzip = bytes, !.network = bytes]
  ELSE [OutputDemand EXCEPT !.network = bytes]

\* What at least three earlier runs of the phase used replaces the guess.
ApplyObservedResourceProfile(d, samples, ram, vram) ==
  [d EXCEPT !.ram  = IF samples >= 3 /\ ram > 0 THEN ram ELSE @,
            !.vram = IF samples >= 3 /\ d.isFinal /\ vram > 0
                     THEN vram ELSE @]

Slots(p) == Larger(1, p.maxWorkers)

\* The hard constraints of EstimateRuntime.
Feasible(p, b, d) ==
  /\ d.isFinal => b.sandbox \/ b.native
  /\ b.cpu > 0
  /\ d.ram <= b.ram \div Slots(p)

\* Each slot gets an equal share of the processor and of the disk.
SetupTime(p, b, d) ==
  SafeDivide(d.network, b.download)
  + Larger(SafeDivide(d.unzip * Slots(p), b.unzip),
           SafeDivide(d.unzip * Slots(p), b.diskWrite))
  + IF d.isFinal /\ b.sandbox THEN b.docker ELSE 0

CpuTime(p, b, d) == SetupTime(p, b, d) + SafeDivide(d.cpuOps * Slots(p), b.cpu)
GpuTime(p, b, d) == SetupTime(p, b, d) + SafeDivide(d.gpuOps, b.gpu)

UsesGpu(p, b, d) ==
  /\ d.isFinal /\ b.gpu > 0
  /\ d.vram <= b.vram
  /\ GpuTime(p, b, d) < CpuTime(p, b, d)

EstimateRuntime(p, b, d) ==
  IF UsesGpu(p, b, d) THEN GpuTime(p, b, d) ELSE CpuTime(p, b, d)
-----------------------------------------------------------------------------
(* The pool of active workers.                                             *)

Accepting(a, isFinal) == CanAcceptJob(a.profile, a.output, a.inference, isFinal)

\* Mutant of FreeSlots: the slots of a kind are taken for the free ones.
FreeSlotsOfKind(a, isFinal) ==
  IF ~Accepting(a, isFinal) THEN 0
  ELSE Larger(0, IF isFinal THEN a.profile.inferenceSlots - a.inference
                 ELSE a.profile.outputSlots - a.output)

FreeSlots(a, isFinal) ==
  LET shared == a.profile.maxWorkers - (a.output + a.inference)
      typed == IF isFinal THEN a.profile.inferenceSlots - a.inference
               ELSE a.profile.outputSlots - a.output
  IN  IF ~Accepting(a, isFinal) \/ shared <= 0 THEN 0
      ELSE Larger(0, IF typed > shared THEN shared ELSE typed)

ImmediateFreeSlots(pool, isFinal) ==
  MapThenSumSet(LAMBDA a : FreeSlots(a, isFinal), pool)

Finish(a, d) ==
  Larger(0, a.availableIn) + EstimateRuntime(a.profile, a.bench, d)

\* Mutant of Candidates: a worker without a slot for the job counts as well.
CandidatesOfAnyLoad(pool, d) ==
  {a \in pool : Feasible(a.profile, a.bench, d)}

Candidates(pool, d) ==
  {a \in pool : Accepting(a, d.isFinal) /\ Feasible(a.profile, a.bench, d)}

GlobalBestFinishTime(pool, d) ==
  LET times == {Finish(a, d) : a \in Candidates(pool, d)}
  IN  IF times = {} THEN Never ELSE Min(times)

IsGloballyBestWorker(a, pool, d) ==
  LET best == GlobalBestFinishTime(pool, d)
  IN  /\ Feasible(a.profile, a.bench, d)
      /\ best = Never \/ Finish(a, d) <= best
-----------------------------------------------------------------------------
(* The rank of a pair, and the scarcity of graphics processors.            *)

Cost == [timeoutViolation: {0, 1}, finishDelay: Nat, stress: Nat, waste: Nat,
         createdAt: Nat]

Apart(x, y, tolerance) == x - y > tolerance \/ y - x > tolerance

\* Delays within 0.1 s, stress and waste within 0.01 are taken for equal;
\* all three are in thousandths here.
LessThan(a, b) ==
  IF a.timeoutViolation # b.timeoutViolation
  THEN a.timeoutViolation < b.timeoutViolation
  ELSE IF Apart(a.finishDelay, b.finishDelay, 100)
  THEN a.finishDelay < b.finishDelay
  ELSE IF Apart(a.stress, b.stress, 10) THEN a.stress < b.stress
  ELSE IF Apart(a.waste, b.waste, 10) THEN a.waste < b.waste
  ELSE a.createdAt < b.createdAt

ComputeStress(p, b, d) ==
  LET time == SafeDivide(Scale * EstimateRuntime(p, b, d), d.timeout)
      ram == SafeDivide(Scale * d.ram, b.ram)
      vram == IF UsesGpu(p, b, d) THEN SafeDivide(Scale * d.vram, b.vram)
              ELSE 0
  IN  Larger(Larger(time, ram), vram)

\* Mutant of FreeGpu: an exclusive worker counts while it runs other jobs.
FreeGpuOfAny(a) ==
  a.bench.gpu * Larger(0, a.profile.inferenceSlots - a.inference)

\* The graphics capacity of the slots that a final job may still take.
FreeGpu(a) ==
  IF \/ ~HasJobSlotCapability(a.profile, TRUE)
     \/ a.profile.exclusive /\ a.output > 0
  THEN 0
  ELSE a.bench.gpu * Larger(0, a.profile.inferenceSlots - a.inference)

\* The demands are those of the queue, a sequence: equal jobs add up.
ComputeGPUScarcity(pool, demands) ==
  SafeDivide(
    Scale * FoldSeq(LAMBDA d, n : n + (IF d.isFinal THEN d.gpuOps ELSE 0),
                    0, demands),
    MapThenSumSet(FreeGpu, pool))

ComputeGPUWaste(p, b, d, scarcity) ==
  IF scarcity > 0 /\ ~d.isFinal /\ b.gpu > 0 THEN scarcity ELSE 0
-----------------------------------------------------------------------------
(* What the earlier runs of a phase teach: the median of the ratios of the *)
(* measured to the predicted time, in thousandths.                         *)

\* The k-th smallest value of a group of rows, as WITHIN GROUP sorts them.
Smallest(v, k) ==
  CHOOSE x \in {v[i] : i \in DOMAIN v} :
    /\ Cardinality({i \in DOMAIN v : v[i] < x}) < k
    /\ Cardinality({i \in DOMAIN v : v[i] <= x}) >= k

\* Mutant of RowAt: the first of the n rows is taken for row 1.
RowAtFromOne(percent, n) == percent * n

\* Where the percentile of n rows lies, in hundredths of a row.
RowAt(percent, n) == percent * (n - 1)

\* PERCENTILE_CONT, between the two nearest of the sorted values.
PercentileCont(percent, v) ==
  LET n == Cardinality(DOMAIN v)
      at == RowAt(percent, n)
      below == Smallest(v, at \div 100 + 1)
      above == IF at % 100 = 0 THEN below ELSE Smallest(v, at \div 100 + 2)
  IN  IF n = 0 THEN 0 ELSE below + ((above - below) * (at % 100)) \div 100

Median(v) == PercentileCont(50, v)

CorrectionFactor(ratios) ==
  IF Cardinality(DOMAIN ratios) < 3 THEN Scale
  ELSE IF Median(ratios) <= 0 THEN Scale ELSE Median(ratios)

CorrectedRuntime(p, b, d, ratios) ==
  IF ~Feasible(p, b, d) THEN 0
  ELSE (EstimateRuntime(p, b, d) * CorrectionFactor(ratios)) \div Scale

=============================================================================
