------------------------- MODULE FencedLeaseProofs -------------------------
(***************************************************************************)
(* Why a fenced lease is worth having: only the holder writes and tokens   *)
(* grow, so that writes never go back.  JudgePipeline and WorkerRegistry   *)
(* implement FencedLease and inherit what is proved here.                  *)
(***************************************************************************)
EXTENDS FencedLease, TLAPS

LeaseInv == LeaseTypeOK /\ LeaseOrder

LEMMA LeaseStarts == LeaseInit => LeaseInv
BY DEF LeaseInit, LeaseInv, LeaseTypeOK, LeaseOrder

\* A grant hands out a token that nobody has seen.
LEMMA GrantKeeps ==
  ASSUME LeaseInv, NEW r \in Resources, Grant(r)
  PROVE  LeaseInv'
<1>1. /\ issued \in Nat /\ issued' = issued + 1 /\ UNCHANGED written
      /\ \A q \in Resources : holder[q] \in Nat /\ holder[q] <= issued
      /\ \A q \in Resources : written[q] \in Nat /\ written[q] <= issued
  BY DEF LeaseInv, LeaseTypeOK, LeaseOrder, Grant
<1>2. /\ holder' \in [Resources -> Nat]
      /\ \A q \in Resources : holder'[q] = IF q = r THEN issued + 1 ELSE holder[q]
  BY DEF LeaseInv, LeaseTypeOK, Grant
<1>3. LeaseTypeOK'
  BY <1>1, <1>2 DEF LeaseInv, LeaseTypeOK
<1>4. \A q \in Resources : holder'[q] <= issued' /\ written'[q] <= issued'
  BY <1>1, <1>2
<1>5. \A q \in Resources : holder'[q] # 0 => written'[q] <= holder'[q]
  BY <1>1, <1>2 DEF LeaseInv, LeaseOrder
<1>6. ASSUME NEW q \in Resources, NEW p \in Resources, holder'[q] = holder'[p], holder'[q] # 0
      PROVE  q = p
  <2>1. CASE q = r \/ p = r
    BY <1>1, <1>2, <1>6, <2>1
  <2>2. CASE q # r /\ p # r
    BY <1>2, <1>6, <2>2 DEF LeaseInv, LeaseOrder
  <2>3. QED
    BY <2>1, <2>2
<1>7. QED
  BY <1>3, <1>4, <1>5, <1>6 DEF LeaseInv, LeaseOrder

LEMMA RevokeKeeps ==
  ASSUME LeaseInv, NEW R \in SUBSET Resources, Revoke(R)
  PROVE  LeaseInv'
<1>1. /\ UNCHANGED <<written, issued>>
      /\ \A q \in Resources : holder'[q] = 0 \/ holder'[q] = holder[q]
      /\ holder' \in [Resources -> Nat]
  BY DEF LeaseInv, LeaseTypeOK, Revoke
<1>2. QED
  BY <1>1 DEF LeaseInv, LeaseTypeOK, LeaseOrder

LEMMA WriteKeeps ==
  ASSUME LeaseInv, NEW r \in Resources, Write(r)
  PROVE  LeaseInv' /\ \A q \in Resources : written'[q] >= written[q]
<1>1. /\ UNCHANGED <<holder, issued>> /\ holder[r] # 0
      /\ \A q \in Resources : written'[q] = IF q = r THEN holder[r] ELSE written[q]
      /\ written' \in [Resources -> Nat]
  BY DEF LeaseInv, LeaseTypeOK, Write
<1>2. \A q \in Resources : holder[q] \in Nat /\ written[q] \in Nat
  BY DEF LeaseInv, LeaseTypeOK
<1>3. QED
  BY <1>1, <1>2 DEF LeaseInv, LeaseTypeOK, LeaseOrder

LEMMA LeaseSteps ==
  LeaseInv /\ [LeaseNext]_lvars
    => LeaseInv' /\ [\A r \in Resources : written'[r] >= written[r]]_lvars
<1> SUFFICES ASSUME LeaseInv, [LeaseNext]_lvars
             PROVE  LeaseInv' /\ \A r \in Resources : written'[r] >= written[r]
  OBVIOUS
<1>1. \A r \in Resources : written[r] \in Nat
  BY DEF LeaseInv, LeaseTypeOK
<1>2. ASSUME NEW r \in Resources, Grant(r)
      PROVE  LeaseInv' /\ \A q \in Resources : written'[q] >= written[q]
  <2>1. UNCHANGED written
    BY <1>2 DEF Grant
  <2>2. LeaseInv'
    BY <1>2, GrantKeeps
  <2>3. QED
    BY <1>1, <2>1, <2>2
<1>3. ASSUME NEW R \in SUBSET Resources, Revoke(R)
      PROVE  LeaseInv' /\ \A q \in Resources : written'[q] >= written[q]
  <2>1. UNCHANGED written
    BY <1>3 DEF Revoke
  <2>2. LeaseInv'
    BY <1>3, RevokeKeeps
  <2>3. QED
    BY <1>1, <2>1, <2>2
<1>4. CASE UNCHANGED lvars
  BY <1>1, <1>4 DEF lvars, LeaseInv, LeaseTypeOK, LeaseOrder
<1>5. QED
  BY <1>2, <1>3, <1>4, WriteKeeps DEF LeaseNext

\* At every moment: no two resources are held under the same token, and the
\* holder of a resource is at least as new as the last one that wrote it.
THEOREM LeaseKeepsOrder == LeaseSpec => []LeaseOrder
<1>1. LeaseInv => LeaseOrder
  BY DEF LeaseInv
<1>2. QED
  BY <1>1, LeaseStarts, LeaseSteps, PTL DEF LeaseSpec

\* A write never replaces that of a newer token, however often leases are
\* revoked and granted anew in between.
THEOREM LeaseWritesInOrder == LeaseSpec => WritesInOrder
BY LeaseStarts, LeaseSteps, PTL DEF LeaseSpec, WritesInOrder
=============================================================================
