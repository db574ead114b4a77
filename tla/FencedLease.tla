---------------------------- MODULE FencedLease ----------------------------
(***************************************************************************)
(* What volunteer_worker_claims promises, without streams, requests or     *)
(* clocks: a lease on each resource, granted under a token larger than all *)
(* tokens before it, revocable at any time, and required for a write.      *)
(* JudgePipeline and WorkerRegistry implement it: a claim is a lease, its  *)
(* attempt the token, and a committed result what is written.              *)
(***************************************************************************)
EXTENDS Naturals

CONSTANT Resources

VARIABLES
  holder,    \* the token that holds each resource, 0 when it is free
  written,   \* the token of the last write of each resource, 0 for none
  issued     \* the last token granted

lvars == <<holder, written, issued>>

LeaseInit ==
  /\ holder = [r \in Resources |-> 0]
  /\ written = [r \in Resources |-> 0]
  /\ issued = 0

Grant(r) ==
  /\ holder[r] = 0
  /\ issued' = issued + 1
  /\ holder' = [holder EXCEPT ![r] = issued + 1]
  /\ UNCHANGED written

Revoke(R) ==
  /\ holder' = [r \in Resources |-> IF r \in R THEN 0 ELSE holder[r]]
  /\ UNCHANGED <<written, issued>>

Write(r) ==
  /\ holder[r] # 0
  /\ written' = [written EXCEPT ![r] = holder[r]]
  /\ UNCHANGED <<holder, issued>>

LeaseNext ==
  \/ \E r \in Resources : Grant(r) \/ Write(r)
  \/ \E R \in SUBSET Resources : Revoke(R)

LeaseSpec == LeaseInit /\ [][LeaseNext]_lvars

LeaseTypeOK ==
  /\ holder \in [Resources -> Nat]
  /\ written \in [Resources -> Nat]
  /\ issued \in Nat

\* Tokens never exceed the last one issued, no two resources share one, and
\* a holder is at least as new as the last write of its resource.
LeaseOrder ==
  /\ \A r \in Resources : holder[r] <= issued /\ written[r] <= issued
  /\ \A r \in Resources : holder[r] # 0 => written[r] <= holder[r]
  /\ \A q, r \in Resources : holder[q] = holder[r] /\ holder[q] # 0 => q = r

\* A write never replaces that of a newer token.
WritesInOrder == [][\A r \in Resources : written'[r] >= written[r]]_lvars
=============================================================================
