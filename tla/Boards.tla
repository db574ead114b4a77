------------------------------- MODULE Boards -------------------------------
(***************************************************************************)
(* What the leaderboard queries compute from the submissions table, for    *)
(* one contest, one phase definition and one phase per task.  Submissions  *)
(* are numbers in the order of submitted_at, and a number is also the      *)
(* penalty in minutes since the contest began.  Entries are numbers in the *)
(* order of their ids, which is how a sorted set breaks ties.              *)
(*                                                                         *)
(* Three queries choose an entry's submission, each in its own order:      *)
(* the bridge's recomputation (BridgeKey), its incremental path            *)
(* (IncrementalKey) and the handlers' recomputation (HandlerKey).          *)
(***************************************************************************)
EXTENDS Integers, Sequences, FiniteSetsExt, Functions

CONSTANTS
  Subs,            \* the submissions
  Entries,         \* the contest entries
  Phases,          \* the phases of the definition
  Users,           \* the members of the entries
  EntryOf,         \* submissions.contest_entry_id
  PhaseOf,         \* submissions.phase_id
  MembersOf,       \* contest_entry_members, per entry
  Scores,          \* the display scores a judge may give
  HigherIsBetter,  \* tasks.higher_is_better, per phase
  Mode,            \* phases.leaderboard_mode, per phase
  ScaleScores      \* contests.scale_scores

ASSUME SubsAssumption ==
  /\ Subs \subseteq Nat \ {0} /\ Entries \subseteq Nat
  /\ EntryOf \in [Subs -> Entries] /\ PhaseOf \in [Subs -> Phases]
  /\ MembersOf \in [Entries -> SUBSET Users]
  /\ Scores \subseteq Nat
ASSUME ContestAssumption ==
  /\ HigherIsBetter \in [Phases -> BOOLEAN]
  /\ Mode \in [Phases -> {"best", "latest"}]
  /\ ScaleScores \in BOOLEAN

ASSUME FiniteAssumption == IsFiniteSet(Subs) /\ IsFiniteSet(Entries)

VARIABLES
  sub,   \* submissions: status, display_score, is_final
  dq     \* the entries with status disqualified

-----------------------------------------------------------------------------
\* Mutant of Candidates: the query forgets the status.
CandidatesOfAnyStatus(p, e) == {s \in Subs : PhaseOf[s] = p /\ EntryOf[s] = e}

\* The rows a query considers: status = 'done' with a display_score.
Candidates(p, e) == {s \in Subs : /\ PhaseOf[s] = p /\ EntryOf[s] = e
                                  /\ sub[s].status = "done"}

\* ORDER BY: the first column that differs decides, smaller first.
Precedes(a, b) == \E i \in DOMAIN a :
                    a[i] < b[i] /\ \A j \in 1..(i - 1) : a[j] = b[j]
FirstBy(Key(_), S) ==
  CHOOSE s \in S : \A t \in S \ {s} : Precedes(Key(s), Key(t))
DenseRank(Key(_), S, x) ==
  1 + Cardinality({Key(y) : y \in {z \in S : Precedes(Key(z), Key(x))}})

Signed(p, x) == IF HigherIsBetter[p] THEN -x ELSE x
ModeKey(s) == IF Mode[PhaseOf[s]] = "latest" THEN -s
              ELSE Signed(PhaseOf[s], sub[s].score)
FinalFirst(s) == IF sub[s].final THEN 0 ELSE 1

BridgeKey(s) == <<FinalFirst(s), ModeKey(s), -s>>

\* Mutant of IncrementalKey: the best score, final or not.
IncrementalKeyOfBest(s) == <<0, -sub[s].score, -s>>
IncrementalKey(s) == <<FinalFirst(s), -sub[s].score, -s>>
HandlerKey(s) == <<ModeKey(s), -sub[s].score, s>>

\* The submission chosen for each entry that has one, with its score.
Choice(s) == [sub |-> s, raw |-> sub[s].score]
Chosen(Key(_), p) ==
  [e \in {f \in Entries : Candidates(p, f) # {}} |->
     Choice(FirstBy(Key, Candidates(p, e)))]
RawOf(c, e) == c[e].raw
MaxPhaseScore(c) == Max({RawOf(c, e) : e \in DOMAIN c})

\* The CASE on scale_scores: a percentage of the best chosen score.
Points(c, e) ==
  IF ~ScaleScores THEN RawOf(c, e)
  ELSE IF MaxPhaseScore(c) > 0 THEN (RawOf(c, e) * 100) \div MaxPhaseScore(c)
  ELSE 0

TaskRankKey(p, c, e) ==
  <<IF Mode[p] = "best" THEN Signed(p, RawOf(c, e)) ELSE 0, -RawOf(c, e)>>

\* fullRecomputeTaskPhase writes no penalty, RecomputeTaskPhaseLeaderboard
\* does and breaks ties by it and by the number of submissions.
BridgeTaskRows(p) ==
  LET c == Chosen(BridgeKey, p)
      RankKey(e) == TaskRankKey(p, c, e)
  IN  [e \in DOMAIN c |->
         [rank |-> DenseRank(RankKey, DOMAIN c, e), score |-> Points(c, e),
          raw |-> RawOf(c, e), chosen |-> c[e].sub,
          count |-> Cardinality(Candidates(p, e)), dq |-> e \in dq]]
HandlerTaskRows(p) ==
  LET c == Chosen(HandlerKey, p)
      Count(e) == Cardinality(Candidates(p, e))
      RankKey(e) == TaskRankKey(p, c, e) \o <<c[e].sub, Count(e)>>
  IN  [e \in DOMAIN c |->
         [rank |-> DenseRank(RankKey, DOMAIN c, e), score |-> Points(c, e),
          raw |-> RawOf(c, e), chosen |-> c[e].sub, count |-> Count(e),
          dq |-> e \in dq]]

\* One contest row sums an entry's phases.  The handlers' query breaks ties
\* by the penalty and the number of phases.
Entered(c) == {e \in Entries : \E p \in Phases : e \in DOMAIN c[p]}
SumOver(c, e, Value(_)) ==
  MapThenSumSet(Value, {p \in Phases : e \in DOMAIN c[p]})
ContestTotals(c, breaksTies) ==
  LET Total(e) == SumOver(c, e, LAMBDA p : Points(c[p], e))
      Penalty(e) == SumOver(c, e, LAMBDA p : c[p][e].sub)
      Count(e) == SumOver(c, e, LAMBDA p : 1)
      Rank(e) == <<-Total(e)>> \o (IF breaksTies THEN <<Penalty(e), Count(e)>> ELSE <<>>)
  IN  [e \in Entered(c) |->
         [rank |-> DenseRank(Rank, Entered(c), e), score |-> Total(e),
          raw |-> SumOver(c, e, LAMBDA p : RawOf(c[p], e)),
          count |-> Count(e), dq |-> FALSE]]
ContestRows(c, out, breaksTies) ==
  LET rows == ContestTotals(c, breaksTies)
  IN  [e \in Entered(c) |-> [rows[e] EXCEPT !.dq = e \in out]]
BridgeContestRows ==
  ContestRows([p \in Phases |-> Chosen(BridgeKey, p)], dq, FALSE)
HandlerContestRows ==
  ContestRows([p \in Phases |-> Chosen(HandlerKey, p)], dq, TRUE)

\* RecomputeGlobalPhaseRanking: each user once per task, with the best score
\* of the user's entries; disqualified entries do not count.
Qualified(p) ==
  LET c == Chosen(BridgeKey, p)
  IN  [e \in DOMAIN c \ dq |-> c[e]]
GlobalRowsOf(c) ==
  LET Mine(u, p) == {e \in DOMAIN c[p] : u \in MembersOf[e]}
      Tasks(u) == {p \in Phases : Mine(u, p) # {}}
      Best(u, p) == FirstBy(LAMBDA e : <<-Points(c[p], e), c[p][e].sub>>,
                            Mine(u, p))
      Total(u) == MapThenSumSet(LAMBDA p : Points(c[p], Best(u, p)), Tasks(u))
      Penalty(u) == MapThenSumSet(LAMBDA p : c[p][Best(u, p)].sub, Tasks(u))
      Ranked == {u \in Users : Tasks(u) # {}}
  IN  [u \in Ranked |->
         [rank |-> DenseRank(LAMBDA v : <<-Total(v), Penalty(v)>>, Ranked, u),
          total |-> Total(u), count |-> Cardinality(Tasks(u))]]
GlobalRows == GlobalRowsOf([p \in Phases |-> Qualified(p)])

\* DeleteStaleGlobalRankings keeps the users with a result that counts.
Ranking(u) == \E p \in Phases, e \in Entries \ dq :
                u \in MembersOf[e] /\ Candidates(p, e) # {}

\* Mutant of Upsert: the rank is only inserted.
UpsertKeepsRank(table, rows) ==
  [x \in DOMAIN table |->
     IF x \notin DOMAIN rows THEN table[x]
     ELSE IF table[x].rank = 0 THEN rows[x]
     ELSE [rows[x] EXCEPT !.rank = table[x].rank]]

\* ON CONFLICT DO UPDATE sets every column but is_disqualified.
Upsert(table, rows) ==
  [x \in DOMAIN table |->
     IF x \notin DOMAIN rows THEN table[x]
     ELSE IF table[x].rank = 0 THEN rows[x]
     ELSE [rows[x] EXCEPT !.dq = table[x].dq]]

\* The ranking keeps no column: a row is replaced.
Replace(table, rows) ==
  [x \in DOMAIN table |-> IF x \in DOMAIN rows THEN rows[x] ELSE table[x]]

\* The pages of the readers: ORDER BY rank, entries_count, and rows with equal
\* columns in any order; rank 0 is no row.
Pages(table) ==
  LET Listed == {e \in DOMAIN table : table[e].rank # 0}
      Key(e) == <<table[e].rank, table[e].count>>
  IN  {page \in Bijection(1..Cardinality(Listed), Listed) :
         \A i, j \in DOMAIN page : i < j => ~Precedes(Key(page[j]), Key(page[i]))}
=============================================================================
