--------------------------- MODULE WorkerProfile ---------------------------
(***************************************************************************)
(* The capacity rules of a volunteer worker, backend/internal/scheduler/   *)
(* profile.go.  A profile keeps the fields the claim handlers read: the    *)
(* row's max_workers, the two slot counts and the exclusive flag that      *)
(* ParseWorkerProfile takes from the capabilities JSON.  Benchmark figures *)
(* only feed run time estimates: module Scheduler has them.                *)
(***************************************************************************)
EXTENDS Integers

Profile == [maxWorkers: Nat, outputSlots: Nat,
            inferenceSlots: Nat, exclusive: BOOLEAN]

Declared == Nat \cup {-1}      \* a capability field, -1 when undeclared

\* Slots that the capabilities leave undeclared default to max_workers.
ParseWorkerProfile(maxWorkers, output, inference, exclusive) ==
  [maxWorkers     |-> maxWorkers,
   outputSlots    |-> IF output = -1 THEN maxWorkers ELSE output,
   inferenceSlots |-> IF inference = -1 THEN maxWorkers ELSE inference,
   exclusive      |-> exclusive]

HasJobSlotCapability(p, isFinal) ==
  IF isFinal THEN p.inferenceSlots > 0 ELSE p.outputSlots > 0

\* Mutant of CanAcceptJob: the exclusive flag is ignored.
CanAcceptJobMixed(p, outputClaims, inferenceClaims, isFinal) ==
  /\ HasJobSlotCapability(p, isFinal)
  /\ isFinal  => inferenceClaims < p.inferenceSlots
  /\ ~isFinal => outputClaims < p.outputSlots

CanAcceptJob(p, outputClaims, inferenceClaims, isFinal) ==
  /\ HasJobSlotCapability(p, isFinal)
  /\ isFinal  => /\ inferenceClaims < p.inferenceSlots
                 /\ p.exclusive => outputClaims <= 0
  /\ ~isFinal => /\ outputClaims < p.outputSlots
                 /\ p.exclusive => inferenceClaims <= 0

=============================================================================
