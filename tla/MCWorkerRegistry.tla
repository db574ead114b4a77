-------------------------- MODULE MCWorkerRegistry --------------------------
(***************************************************************************)
(* A small instance of WorkerRegistry: an exclusive worker with a graphics *)
(* processor and a shared one without, an output job and a final one.      *)
(***************************************************************************)
EXTENDS WorkerRegistry

CONSTANTS w1, w2, s1, s2

MCProfileOf ==
  w1 :> ParseWorkerProfile(2, 2, 1, TRUE)
  @@ w2 :> ParseWorkerProfile(1, -1, 2, FALSE)

Bench(cpu, gpu) ==
  [cpu |-> cpu, gpu |-> gpu, unzip |-> 10, diskWrite |-> 5, download |-> 0,
   docker |-> 2, sandbox |-> TRUE, native |-> FALSE, ram |-> 8, vram |-> 4]
MCBenchmarkOf == w1 :> Bench(10, 20) @@ w2 :> Bench(5, 0)

MCOutputDemand ==
  [isFinal |-> FALSE, cpuOps |-> 20, gpuOps |-> 0, ram |-> 1, vram |-> 0,
   unzip |-> 0, network |-> 0, timeout |-> 600]
MCFinalDemand ==
  [isFinal |-> TRUE, cpuOps |-> 200, gpuOps |-> 100, ram |-> 2, vram |-> 4,
   unzip |-> 0, network |-> 0, timeout |-> 600]

MCBytesOf == [s \in Submissions |-> 10]

MCRunOf ==
  s1 :> [verdict |-> "done", seconds |-> 8, ram |-> 5]
  @@ s2 :> [verdict |-> "failed", seconds |-> 40, ram |-> 0]

\* Two runs of each kind were logged before.
OldRun(isFinal, ratio) ==
  [isFinal |-> isFinal, attempt |-> 0, ratio |-> ratio, ram |-> 3]
MCHistory ==
  <<OldRun(FALSE, 4000), OldRun(FALSE, 500), OldRun(TRUE, 3000),
    OldRun(TRUE, 1000)>>

\* One worker is approved twice.
MCMaxApprovals == w1 :> 1 @@ w2 :> 2

Symmetry == Permutations(Handlers)
=============================================================================
