--------------------------- MODULE MCRegistration ---------------------------
(***************************************************************************)
(* Instances of Registration for TLC: the first entry is registered and    *)
(* has submitted three times to the second phase, which takes any number,  *)
(* and not yet to the first, which takes one.                              *)
(***************************************************************************)
EXTENDS Registration, TLC

CONSTANTS e1, u1, p1, p2, s1, s2, s3, t1, u2

MCOwned == [t \in Teams |-> IF t = t1 THEN u1 ELSE None]
MCLineups == {{u2}}
MCRegistered == [e \in Entries |-> IF e = e1 THEN u1 ELSE None]
MCSubmitted == [s \in Subs |-> IF s \in {s1, s2, s3} THEN <<e1, p2>> ELSE None]
MCLimit == [p \in Phases |-> IF p = p1 THEN 1 ELSE None]
MCFileLists == {<<1>>, <<2, 1>>}
MCSizeLimit == [p \in Phases |-> IF p = p1 THEN 2 ELSE 3]

Symmetry == Permutations(Handlers) \cup Permutations(Subs \ {s1, s2, s3})
=============================================================================
