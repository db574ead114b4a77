-------------------------- MODULE MCOfficialWorker --------------------------
(***************************************************************************)
(* One official worker beside one volunteer of one slot.                   *)
(***************************************************************************)
EXTENDS OfficialWorker

MCSingle == [w \in Workers |-> ParseWorkerProfile(1, -1, -1, FALSE)]
=============================================================================
