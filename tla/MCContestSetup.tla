--------------------------- MODULE MCContestSetup ---------------------------
(***************************************************************************)
(* Instances of ContestSetup for TLC: a draft with a task that is          *)
(* complete; a contest, a task and a phase may be added.  Two of the four  *)
(* standard keys; a schema without lists of its own and one with a list.   *)
(***************************************************************************)
EXTENDS ContestSetup, TLC

CONSTANTS c1, t1

MCStandardKeys == <<"public_test", "private_test">>
MCSetKeys == <<"public", "private">>
MCAssetKeys == {"judge.py", "ground_truth", "inputs", "extra"}
MCDefault == [task |-> {}, eval |-> {}]
MCSchemas == {MCDefault, [task |-> {"extra"}, eval |-> {}]}
MCPrepared == [t \in Tasks |-> IF t = t1 THEN c1 ELSE None]
MCUrls == {"link", "other", t1}
MCAssetLists == {<<"extra">>}

Symmetry == Permutations(Handlers)
=============================================================================
