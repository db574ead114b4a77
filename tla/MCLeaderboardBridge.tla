------------------------ MODULE MCLeaderboardBridge ------------------------
(***************************************************************************)
(* Instances of LeaderboardBridge for TLC.  Two entries; a user may be in  *)
(* both.                                                                   *)
(***************************************************************************)
EXTENDS LeaderboardBridge

\* Two submissions of the first entry and one of the second, in one phase.
MCEntryOf == [s \in Subs |-> IF s = 2 THEN 2 ELSE 1]
MCOnePhase == [s \in Subs |-> "p"]
\* Or each entry in a phase of its own.
MCTwoPhases == [s \in Subs |-> IF s = 2 THEN "q" ELSE "p"]

MCOwnMembers == [e \in Entries |-> IF e = 1 THEN {"u"} ELSE {"v"}]
MCShared == [e \in Entries |-> IF e = 1 THEN {"u"} ELSE {"u", "v"}]

MCHigher == [p \in Phases |-> TRUE]
MCBest == [p \in Phases |-> "best"]
MCLatest == [p \in Phases |-> "latest"]
=============================================================================
