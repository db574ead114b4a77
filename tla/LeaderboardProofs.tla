------------------------- MODULE LeaderboardProofs -------------------------
(***************************************************************************)
(* What the boards show.  Whatever fails, a row of a task board names a    *)
(* submission of that entry; and a bridge that is alone and has worked     *)
(* through what was announced leaves the three tables as a recomputation   *)
(* from the submissions would.                                             *)
(***************************************************************************)
EXTENDS LeaderboardBridge, FiniteSums, SequenceTheorems
-----------------------------------------------------------------------------
(***************************************************************************)
(* The order of the queries on keys of three columns.                      *)
(***************************************************************************)
Columns == Int \X Int \X Int

LEMMA PrecedesByColumns ==
  ASSUME NEW a \in Columns, NEW b \in Columns
  PROVE  Precedes(a, b) <=> \/ a[1] < b[1]
                            \/ a[1] = b[1] /\ a[2] < b[2]
                            \/ a[1] = b[1] /\ a[2] = b[2] /\ a[3] < b[3]
<1>1. DOMAIN a = 1 .. 3 /\ \A i \in 1 .. 3 : a[i] \in Int /\ b[i] \in Int
  BY DEF Columns
<1>2. Precedes(a, b) <=> \E i \in 1 .. 3 : a[i] < b[i] /\ \A j \in 1 .. i - 1 : a[j] = b[j]
  BY <1>1 DEF Precedes
<1>3. ASSUME NEW i \in 1 .. 3, a[i] < b[i], \A j \in 1 .. i - 1 : a[j] = b[j]
      PROVE  \/ a[1] < b[1]
             \/ a[1] = b[1] /\ a[2] < b[2]
             \/ a[1] = b[1] /\ a[2] = b[2] /\ a[3] < b[3]
  <2>1. i = 1 \/ i = 2 \/ i = 3
    OBVIOUS
  <2>2. QED
    BY <1>3, <2>1
<1>4. a[1] < b[1] => Precedes(a, b)
  BY <1>2
<1>5. a[1] = b[1] /\ a[2] < b[2] => Precedes(a, b)
  BY <1>2
<1>6. a[1] = b[1] /\ a[2] = b[2] /\ a[3] < b[3] => Precedes(a, b)
  BY <1>2
<1>7. QED
  BY <1>2, <1>3, <1>4, <1>5, <1>6

LEMMA PrecedesOrders ==
  ASSUME NEW a \in Columns, NEW b \in Columns
  PROVE  /\ a # b => Precedes(a, b) \/ Precedes(b, a)
         /\ ~(Precedes(a, b) /\ Precedes(b, a))
         /\ \A c \in Columns : Precedes(a, b) /\ Precedes(b, c) => Precedes(a, c)
<1>1. \A i \in 1 .. 3 : a[i] \in Int /\ b[i] \in Int
  BY DEF Columns
<1>2. a # b => a[1] # b[1] \/ a[2] # b[2] \/ a[3] # b[3]
  BY DEF Columns
<1>3. ASSUME NEW c \in Columns, Precedes(a, b), Precedes(b, c) PROVE Precedes(a, c)
  <2>1. \A i \in 1 .. 3 : c[i] \in Int
    BY DEF Columns
  <2>2. QED
    BY <1>1, <1>3, <2>1, PrecedesByColumns
<1>4. QED
  BY <1>1, <1>2, <1>3, PrecedesByColumns

\* A finite set of rows with different keys has a first row: the rows with the
\* fewest predecessors.
LEMMA FirstExists ==
  ASSUME NEW S, IsFiniteSet(S), S # {}, NEW K \in [S -> Columns],
         \A s, t \in S : s # t => K[s] # K[t]
  PROVE  \E s \in S : \A t \in S \ {s} : Precedes(K[s], K[t])
<1> DEFINE Before(s) == {t \in S : Precedes(K[t], K[s])}
           F == {Before(s) : s \in S}
<1>1. F # {} /\ F \subseteq FiniteSubsetsOf(S)
  <2>1. ASSUME NEW s \in S PROVE Before(s) \in FiniteSubsetsOf(S)
    <3>1. Before(s) \in SUBSET S
      OBVIOUS
    <3>2. IsFiniteSet(Before(s))
      BY <3>1, FS_Subset
    <3>3. QED
      BY <3>1, <3>2 DEF FiniteSubsetsOf
  <2>2. QED
    BY ZenonT(40), <2>1
<1>2. IsWellFoundedOn(StrictSubsetOrdering(S), FiniteSubsetsOf(S))
  BY FS_StrictSubsetOrderingWellFounded
<1>3. PICK A \in F : \A B \in F : ~(<<B, A>> \in StrictSubsetOrdering(S))
  <2> HIDE DEF F
  <2>1. QED
    BY <1>1, <1>2, WFMin
<1>4. PICK s \in S : A = Before(s)
  BY <1>3
<1>5. ASSUME NEW t \in S \ {s} PROVE Precedes(K[s], K[t])
  <2> SUFFICES ASSUME Precedes(K[t], K[s]) PROVE FALSE
    BY PrecedesOrders
  <2>1. Before(t) \subseteq Before(s)
    BY PrecedesOrders
  <2>2. t \in Before(s) /\ t \notin Before(t)
    BY PrecedesOrders
  <2>3. <<Before(t), A>> \in StrictSubsetOrdering(S)
    BY <1>4, <2>1, <2>2 DEF StrictSubsetOrdering
  <2>4. QED
    BY <1>3, <2>3
<1>6. QED
  BY <1>5
-----------------------------------------------------------------------------
SubTyped == sub \in [Subs -> SubRow]

LEMMA KeysTyped ==
  ASSUME SubTyped, NEW s \in Subs
  PROVE  /\ BridgeKey(s) \in Columns /\ BridgeKey(s)[3] = -s
         /\ IncrementalKey(s) \in Columns /\ IncrementalKey(s)[3] = -s
         /\ HandlerKey(s) \in Columns /\ HandlerKey(s)[3] = s
<1>0. sub[s].score \in Scores \cup {0}
  BY DEF SubTyped, SubRow
<1>1. s \in Nat /\ sub[s].score \in Nat /\ -s \in Int /\ -sub[s].score \in Int
  <2>1. s \in Nat
    BY SubsAssumption
  <2>2. Scores \cup {0} \subseteq Nat
    BY SubsAssumption
  <2>3. sub[s].score \in Nat
    BY <1>0, <2>2
  <2>4. QED
    BY <2>1, <2>3
<1>2. FinalFirst(s) \in Int
  BY DEF FinalFirst
<1>3. ModeKey(s) \in Int
  BY <1>1 DEF ModeKey, Signed
<1>4. QED
  BY <1>1, <1>2, <1>3 DEF BridgeKey, IncrementalKey, HandlerKey, Columns

\* Each of the queries finds a submission where there is one to find, and it
\* is the only one that comes before all others.
LEMMA FirstFound ==
  ASSUME SubTyped, NEW S \in SUBSET Subs, S # {}
  PROVE  /\ FirstBy(BridgeKey, S) \in S
         /\ \A t \in S \ {FirstBy(BridgeKey, S)} : Precedes(BridgeKey(FirstBy(BridgeKey, S)), BridgeKey(t))
         /\ FirstBy(IncrementalKey, S) \in S
         /\ \A t \in S \ {FirstBy(IncrementalKey, S)} :
              Precedes(IncrementalKey(FirstBy(IncrementalKey, S)), IncrementalKey(t))
         /\ FirstBy(HandlerKey, S) \in S
<1>1. IsFiniteSet(S) /\ \A s \in S : s \in Int
  <2>1. IsFiniteSet(S)
    BY FiniteAssumption, FS_Subset
  <2>2. QED
    BY <2>1, SubsAssumption
<1>2. \E s \in S : \A t \in S \ {s} : Precedes(BridgeKey(s), BridgeKey(t))
  <2> DEFINE K == [s \in S |-> BridgeKey(s)]
  <2>1. K \in [S -> Columns] /\ \A s, t \in S : s # t => K[s] # K[t]
    BY <1>1, KeysTyped
  <2>2. \A s \in S : K[s] = BridgeKey(s)
    OBVIOUS
  <2> HIDE DEF K
  <2>3. \E s \in S : \A t \in S \ {s} : Precedes(K[s], K[t])
    BY <1>1, <2>1, FirstExists
  <2>4. QED
    BY <2>2, <2>3
<1>3. \E s \in S : \A t \in S \ {s} : Precedes(IncrementalKey(s), IncrementalKey(t))
  <2> DEFINE K == [s \in S |-> IncrementalKey(s)]
  <2>1. K \in [S -> Columns] /\ \A s, t \in S : s # t => K[s] # K[t]
    BY <1>1, KeysTyped
  <2>2. \A s \in S : K[s] = IncrementalKey(s)
    OBVIOUS
  <2> HIDE DEF K
  <2>3. \E s \in S : \A t \in S \ {s} : Precedes(K[s], K[t])
    BY <1>1, <2>1, FirstExists
  <2>4. QED
    BY <2>2, <2>3
<1>4. \E s \in S : \A t \in S \ {s} : Precedes(HandlerKey(s), HandlerKey(t))
  <2> DEFINE K == [s \in S |-> HandlerKey(s)]
  <2>1. K \in [S -> Columns] /\ \A s, t \in S : s # t => K[s] # K[t]
    BY <1>1, KeysTyped
  <2>2. \A s \in S : K[s] = HandlerKey(s)
    OBVIOUS
  <2> HIDE DEF K
  <2>3. \E s \in S : \A t \in S \ {s} : Precedes(K[s], K[t])
    BY <1>1, <2>1, FirstExists
  <2>4. QED
    BY <2>2, <2>3
<1>5. /\ FirstBy(BridgeKey, S) \in S
      /\ \A t \in S \ {FirstBy(BridgeKey, S)} : Precedes(BridgeKey(FirstBy(BridgeKey, S)), BridgeKey(t))
  BY <1>2 DEF FirstBy
<1>6. /\ FirstBy(IncrementalKey, S) \in S
      /\ \A t \in S \ {FirstBy(IncrementalKey, S)} :
           Precedes(IncrementalKey(FirstBy(IncrementalKey, S)), IncrementalKey(t))
  BY <1>3 DEF FirstBy
<1>7. FirstBy(HandlerKey, S) \in S
  BY <1>4 DEF FirstBy
<1>8. QED
  BY <1>5, <1>6, <1>7

\* The maximum of the scores of a board.
LEMMA MaxOfScores ==
  ASSUME NEW T \in SUBSET Nat, IsFiniteSet(T), T # {}
  PROVE  Max(T) \in Nat
<1> DEFINE K == [x \in T |-> <<-x, 0, 0>>]
<1>1. K \in [T -> Columns] /\ \A x, y \in T : x # y => K[x] # K[y]
  BY DEF Columns
<1>2. \A x \in T : K[x] = <<-x, 0, 0>>
  OBVIOUS
<1> HIDE DEF K
<1>3. PICK x \in T : \A y \in T \ {x} : Precedes(K[x], K[y])
  BY <1>1, FirstExists
<1>4. ASSUME NEW y \in T PROVE x >= y
  <2>1. CASE y # x
    <3>1. K[x] \in Columns /\ K[y] \in Columns /\ Precedes(K[x], K[y])
      BY <1>1, <1>3, <2>1
    <3>2. K[x] = <<-x, 0, 0>> /\ K[y] = <<-y, 0, 0>>
      BY <1>2
    <3>3. -x <= -y
      BY <3>1, <3>2, PrecedesByColumns
    <3>4. QED
      BY <3>3
  <2>2. QED
    BY <2>1
<1>5. QED
  BY <1>4 DEF Max

LEMMA ImageFinite ==
  ASSUME NEW S, IsFiniteSet(S), NEW f
  PROVE  IsFiniteSet({f[x] : x \in S})
<1> DEFINE g == [x \in S |-> f[x]]
           T == {f[x] : x \in S}
<1>1. g \in Surjection(S, T)
  BY DEF Surjection
<1> HIDE DEF g, T
<1>2. QED
  BY <1>1, FS_Surjection DEF T
-----------------------------------------------------------------------------
(***************************************************************************)
(* The rows of a recomputation.                                            *)
(***************************************************************************)
TaskRow == [rank : Nat, score : Int, raw : Nat, chosen : Nat, count : Nat, dq : BOOLEAN]

\* Rows for some entries.
TaskRows(rows) == /\ DOMAIN rows \subseteq Entries
                  /\ \A e \in DOMAIN rows : rows[e] \in TaskRow

\* What a query has chosen: scored submissions, for some entries.
ScoredChoices(c) == DOMAIN c \subseteq Entries /\ \A e \in DOMAIN c : c[e].sub \in Nat /\ c[e].raw \in Nat

LEMMA PointsTyped ==
  ASSUME NEW c, ScoredChoices(c), NEW e \in DOMAIN c
  PROVE  Points(c, e) \in Nat
<1> DEFINE f == [x \in DOMAIN c |-> c[x].raw]
           T == {f[x] : x \in DOMAIN c}
<1>1. T = {RawOf(c, x) : x \in DOMAIN c}
  BY DEF RawOf
<1>2. T \in SUBSET Nat /\ T # {}
  BY DEF ScoredChoices
<1>3. IsFiniteSet(DOMAIN c)
  BY FiniteAssumption, FS_Subset DEF ScoredChoices
<1> HIDE DEF f
<1>4. IsFiniteSet(T)
  BY <1>3, ImageFinite
<1> HIDE DEF T
<1>5. MaxPhaseScore(c) \in Nat
  BY <1>1, <1>2, <1>4, MaxOfScores DEF MaxPhaseScore
<1>6. RawOf(c, e) \in Nat
  BY DEF RawOf, ScoredChoices
<1>7. MaxPhaseScore(c) > 0 => (RawOf(c, e) * 100) \div MaxPhaseScore(c) \in Nat
  BY <1>5, <1>6
<1>8. QED
  BY <1>6, <1>7 DEF Points

LEMMA CandidatesTyped ==
  ASSUME NEW p, NEW e
  PROVE  /\ Candidates(p, e) \in SUBSET Subs /\ IsFiniteSet(Candidates(p, e))
         /\ Cardinality(Candidates(p, e)) \in Nat
<1>1. Candidates(p, e) \in SUBSET Subs
  BY DEF Candidates
<1>2. QED
  BY <1>1, FiniteAssumption, FS_Subset, FS_CardinalityType

LEMMA ChosenTyped ==
  ASSUME SubTyped, NEW p
  PROVE  /\ DOMAIN Chosen(BridgeKey, p) = {f \in Entries : Candidates(p, f) # {}}
         /\ ScoredChoices(Chosen(BridgeKey, p))
         /\ \A e \in DOMAIN Chosen(BridgeKey, p) :
              LET s == FirstBy(BridgeKey, Candidates(p, e)) IN
              /\ s \in Candidates(p, e)
              /\ Chosen(BridgeKey, p)[e].sub = s /\ Chosen(BridgeKey, p)[e].raw = sub[s].score
         /\ DOMAIN Chosen(HandlerKey, p) = {f \in Entries : Candidates(p, f) # {}}
         /\ ScoredChoices(Chosen(HandlerKey, p))
         /\ \A e \in DOMAIN Chosen(HandlerKey, p) :
              LET s == FirstBy(HandlerKey, Candidates(p, e)) IN
              /\ s \in Candidates(p, e)
              /\ Chosen(HandlerKey, p)[e].sub = s /\ Chosen(HandlerKey, p)[e].raw = sub[s].score
<1>0. \A s \in Subs : s \in Nat /\ sub[s].score \in Nat
  <2>1. ASSUME NEW s \in Subs PROVE s \in Nat
    BY SubsAssumption
  <2>2. Scores \cup {0} \subseteq Nat
    BY SubsAssumption
  <2>3. ASSUME NEW s \in Subs PROVE sub[s].score \in Scores \cup {0}
    BY DEF SubTyped, SubRow
  <2>4. QED
    BY <2>1, <2>2, <2>3
<1>1. \A e : Candidates(p, e) \in SUBSET Subs
  BY CandidatesTyped
<1>2. ASSUME NEW e, Candidates(p, e) # {}
      PROVE  FirstBy(BridgeKey, Candidates(p, e)) \in Candidates(p, e)
  BY <1>1, <1>2, FirstFound
<1>3. ASSUME NEW e, Candidates(p, e) # {}
      PROVE  FirstBy(HandlerKey, Candidates(p, e)) \in Candidates(p, e)
  BY <1>1, <1>3, FirstFound
<1>4. /\ DOMAIN Chosen(BridgeKey, p) = {f \in Entries : Candidates(p, f) # {}}
      /\ \A e \in DOMAIN Chosen(BridgeKey, p) :
           Chosen(BridgeKey, p)[e] = Choice(FirstBy(BridgeKey, Candidates(p, e)))
  BY DEF Chosen
<1>5. /\ DOMAIN Chosen(HandlerKey, p) = {f \in Entries : Candidates(p, f) # {}}
      /\ \A e \in DOMAIN Chosen(HandlerKey, p) :
           Chosen(HandlerKey, p)[e] = Choice(FirstBy(HandlerKey, Candidates(p, e)))
  BY DEF Chosen
<1>6. \A s : Choice(s).sub = s /\ Choice(s).raw = sub[s].score
  BY DEF Choice
<1>7. ASSUME NEW e \in DOMAIN Chosen(BridgeKey, p)
      PROVE  LET s == FirstBy(BridgeKey, Candidates(p, e)) IN
             /\ s \in Candidates(p, e)
             /\ Chosen(BridgeKey, p)[e].sub = s /\ Chosen(BridgeKey, p)[e].raw = sub[s].score
  BY <1>2, <1>4, <1>6
<1>8. ASSUME NEW e \in DOMAIN Chosen(HandlerKey, p)
      PROVE  LET s == FirstBy(HandlerKey, Candidates(p, e)) IN
             /\ s \in Candidates(p, e)
             /\ Chosen(HandlerKey, p)[e].sub = s /\ Chosen(HandlerKey, p)[e].raw = sub[s].score
  BY <1>3, <1>5, <1>6
<1>9. ScoredChoices(Chosen(BridgeKey, p))
  BY <1>0, <1>1, <1>4, <1>7 DEF ScoredChoices
<1>10. ScoredChoices(Chosen(HandlerKey, p))
  BY <1>0, <1>1, <1>5, <1>8 DEF ScoredChoices
<1>11. QED
  BY <1>4, <1>5, <1>7, <1>8, <1>9, <1>10

LEMMA BridgeRows ==
  ASSUME SubTyped, NEW p
  PROVE  /\ TaskRows(BridgeTaskRows(p))
         /\ DOMAIN BridgeTaskRows(p) = {f \in Entries : Candidates(p, f) # {}}
         /\ \A e \in DOMAIN BridgeTaskRows(p) :
              LET s == FirstBy(BridgeKey, Candidates(p, e)) IN
              /\ s \in Candidates(p, e)
              /\ BridgeTaskRows(p)[e].chosen = s /\ BridgeTaskRows(p)[e].raw = sub[s].score
<1> DEFINE rows == BridgeTaskRows(p)
           c == Chosen(BridgeKey, p)
           K == [y \in DOMAIN c |-> TaskRankKey(p, c, y)]
           Above(e) == {z \in DOMAIN c : Precedes(TaskRankKey(p, c, z), TaskRankKey(p, c, e))}
<1>0. ScoredChoices(c) /\ DOMAIN c = {f \in Entries : Candidates(p, f) # {}}
  BY ChosenTyped
<1>1. DOMAIN rows = DOMAIN c
  BY DEF BridgeTaskRows
<1>2. ASSUME NEW e \in DOMAIN c
      PROVE  rows[e] = [rank |-> 1 + Cardinality({TaskRankKey(p, c, y) : y \in Above(e)}),
                        score |-> Points(c, e), raw |-> RawOf(c, e), chosen |-> c[e].sub,
                        count |-> Cardinality(Candidates(p, e)), dq |-> e \in dq]
  BY DEF BridgeTaskRows, DenseRank
<1> HIDE DEF c, rows
<1>3. ASSUME NEW e \in DOMAIN c PROVE Cardinality({TaskRankKey(p, c, y) : y \in Above(e)}) \in Nat
  <2>1. {TaskRankKey(p, c, y) : y \in Above(e)} = {K[y] : y \in Above(e)}
    OBVIOUS
  <2>2. IsFiniteSet(DOMAIN c)
    BY <1>0, FiniteAssumption, FS_Subset
  <2>3. Above(e) \in SUBSET DOMAIN c
    OBVIOUS
  <2>4. IsFiniteSet(Above(e))
    BY <2>2, <2>3, FS_Subset
  <2> HIDE DEF K, Above
  <2>5. IsFiniteSet({K[y] : y \in Above(e)})
    BY <2>4, ImageFinite
  <2>6. QED
    BY <2>1, <2>5, FS_CardinalityType
<1>4. ASSUME NEW e \in DOMAIN c
      PROVE  rows[e] \in TaskRow /\ rows[e].chosen = c[e].sub /\ rows[e].raw = c[e].raw
  <2>1. Points(c, e) \in Int /\ RawOf(c, e) \in Nat /\ c[e].sub \in Nat
    BY <1>0, PointsTyped DEF ScoredChoices, RawOf
  <2>2. PICK n \in Nat : n = Cardinality({TaskRankKey(p, c, y) : y \in Above(e)})
    BY <1>3
  <2>3. PICK k \in Nat : k = Cardinality(Candidates(p, e))
    BY CandidatesTyped
  <2>4. PICK out \in BOOLEAN : out = (e \in dq)
    <3>1. (e \in dq) \in BOOLEAN
      OBVIOUS
    <3>2. QED
      BY <3>1
  <2>5. rows[e] = [rank |-> 1 + n, score |-> Points(c, e), raw |-> RawOf(c, e),
                   chosen |-> c[e].sub, count |-> k, dq |-> out]
    BY <1>2, <2>2, <2>3, <2>4
  <2>6. QED
    BY <2>1, <2>5 DEF TaskRow, RawOf
<1>5. QED
  BY <1>0, <1>1, <1>4, ChosenTyped DEF c, rows, TaskRows

LEMMA HandlerRows ==
  ASSUME SubTyped, NEW p
  PROVE  /\ TaskRows(HandlerTaskRows(p))
         /\ \A e \in DOMAIN HandlerTaskRows(p) : HandlerTaskRows(p)[e].chosen \in Candidates(p, e)
<1> DEFINE rows == HandlerTaskRows(p)
           c == Chosen(HandlerKey, p)
           Key(y) == TaskRankKey(p, c, y) \o <<c[y].sub, Cardinality(Candidates(p, y))>>
           K == [y \in DOMAIN c |-> Key(y)]
           Above(e) == {z \in DOMAIN c : Precedes(Key(z), Key(e))}
<1>0. ScoredChoices(c) /\ DOMAIN c = {f \in Entries : Candidates(p, f) # {}}
  BY ChosenTyped
<1>1. DOMAIN rows = DOMAIN c
  BY DEF HandlerTaskRows
<1>2. ASSUME NEW e \in DOMAIN c
      PROVE  rows[e] = [rank |-> 1 + Cardinality({Key(y) : y \in Above(e)}),
                        score |-> Points(c, e), raw |-> RawOf(c, e), chosen |-> c[e].sub,
                        count |-> Cardinality(Candidates(p, e)), dq |-> e \in dq]
  BY DEF HandlerTaskRows, DenseRank
<1> HIDE DEF c, rows
<1>3. ASSUME NEW e \in DOMAIN c PROVE Cardinality({Key(y) : y \in Above(e)}) \in Nat
  <2>1. {Key(y) : y \in Above(e)} = {K[y] : y \in Above(e)}
    OBVIOUS
  <2>2. IsFiniteSet(DOMAIN c)
    BY <1>0, FiniteAssumption, FS_Subset
  <2>3. Above(e) \in SUBSET DOMAIN c
    OBVIOUS
  <2>4. IsFiniteSet(Above(e))
    BY <2>2, <2>3, FS_Subset
  <2> HIDE DEF Key, K, Above
  <2>5. IsFiniteSet({K[y] : y \in Above(e)})
    BY <2>4, ImageFinite
  <2>6. QED
    BY <2>1, <2>5, FS_CardinalityType
<1> HIDE DEF Key
<1>4. ASSUME NEW e \in DOMAIN c PROVE rows[e] \in TaskRow /\ rows[e].chosen = c[e].sub
  <2>1. Points(c, e) \in Int /\ RawOf(c, e) \in Nat /\ c[e].sub \in Nat
    BY <1>0, PointsTyped DEF ScoredChoices, RawOf
  <2>2. PICK n \in Nat : n = Cardinality({Key(y) : y \in Above(e)})
    BY <1>3
  <2>3. PICK k \in Nat : k = Cardinality(Candidates(p, e))
    BY CandidatesTyped
  <2>4. PICK out \in BOOLEAN : out = (e \in dq)
    <3>1. (e \in dq) \in BOOLEAN
      OBVIOUS
    <3>2. QED
      BY <3>1
  <2>5. rows[e] = [rank |-> 1 + n, score |-> Points(c, e), raw |-> RawOf(c, e),
                   chosen |-> c[e].sub, count |-> k, dq |-> out]
    BY <1>2, <2>2, <2>3, <2>4
  <2>6. QED
    BY <2>1, <2>5 DEF TaskRow, RawOf
<1>5. QED
  BY <1>0, <1>1, <1>4, ChosenTyped DEF c, rows, TaskRows

ContestRow(x) == DOMAIN x = DOMAIN NoContestRow

LEMMA ContestRowsTyped ==
  /\ \A e \in DOMAIN BridgeContestRows : ContestRow(BridgeContestRows[e])
  /\ \A e \in DOMAIN HandlerContestRows : ContestRow(HandlerContestRows[e])
<1>1. ASSUME NEW c, NEW breaksTies, NEW e \in Entered(c)
      PROVE  DOMAIN ContestTotals(c, breaksTies)[e] = DOMAIN NoContestRow
  BY DEF ContestTotals, NoContestRow
<1>2. QED
  BY <1>1 DEF BridgeContestRows, HandlerContestRows, ContestRows, ContestRow
-----------------------------------------------------------------------------
(***************************************************************************)
(* Types.                                                                  *)
(***************************************************************************)
WorldOK ==
  /\ SubTyped /\ dq \subseteq Entries /\ announcing \subseteq Subs /\ results \in Seq(Subs)
  /\ asked \in 0 .. MaxRequests

TablesOK ==
  /\ zset \in [Phases -> [Entries -> Int]]
  /\ board \in [Phases -> [Entries -> TaskRow]]
  /\ DOMAIN cboard = Entries /\ \A e \in Entries : ContestRow(cboard[e])
  /\ DOMAIN ranking = Users

\* What a bridge has in hand at each of its statements.
BridgeOK(x) ==
  /\ DOMAIN x = {"pc", "batch", "max", "best", "score", "rank", "card", "rows"}
  /\ x.pc \in BridgePC /\ x.batch \in Seq(Subs)
  /\ x.batch = <<>> <=> x.pc \in {"idle", "stopped"}
  /\ x.pc \in {"zadd", "zrank", "zcard", "update"} => x.best \in Subs /\ x.score \in Nat
  /\ x.pc \in {"zcard", "update"} => x.rank \in Nat
  /\ x.pc = "update" => x.card \in Nat
  /\ x.pc = "write_task" => TaskRows(x.rows)
  /\ x.pc = "seed" => x.rows \in [Entries -> TaskRow]
  /\ x.pc = "write_contest" => \A e \in DOMAIN x.rows : ContestRow(x.rows[e])
BridgesOK == DOMAIN bridge = Bridges /\ \A b \in Bridges : BridgeOK(bridge[b])

RequestOK(x) ==
  /\ DOMAIN x = {"pc", "id", "rows"}
  /\ x.pc \in {"idle", "mark", "emit", "write_task", "write_contest", "write_global", "stale"}
  /\ x.pc \in {"mark", "emit"} => x.id \in Subs
  /\ x.pc = "write_task" => x.id \in Phases /\ TaskRows(x.rows)
  /\ x.pc = "write_contest" => \A e \in DOMAIN x.rows : ContestRow(x.rows[e])
RequestsOK == DOMAIN req = Handlers /\ \A h \in Handlers : RequestOK(req[h])

TypeInv == WorldOK /\ TablesOK /\ BridgesOK /\ RequestsOK

LEMMA TypesFollow == TypeInv => TypeOK
<1> SUFFICES ASSUME TypeInv PROVE TypeOK
  OBVIOUS
<1>1. ASSUME NEW p \in Phases, NEW e \in Entries
      PROVE  DOMAIN board[p][e] = DOMAIN NoRow /\ board[p][e].rank \in Nat
  BY DEF TypeInv, TablesOK, TaskRow, NoRow
<1>2. QED
  BY <1>1 DEF TypeInv, WorldOK, SubTyped, TablesOK, BridgesOK, BridgeOK, ContestRow, TypeOK

LEMMA FreshOK == BridgeOK(Fresh)
<1>1. <<>> \in Seq(Subs)
  OBVIOUS
<1>2. QED
  BY <1>1 DEF Fresh, BridgeOK, BridgePC, IncrementalPC, BoardPC

LEMMA IdleOK == RequestOK(Idle)
BY DEF Idle, RequestOK

LEMMA NoRowsOK == NoRow \in TaskRow /\ ContestRow(NoContestRow)
BY DEF NoRow, TaskRow, ContestRow

LEMMA InitTypes == Init => TypeInv
<1> SUFFICES ASSUME Init PROVE TypeInv
  OBVIOUS
<1>1. <<>> \in Seq(Subs) /\ Absent \in Int /\ 0 \in 0 .. MaxRequests
  BY InstanceAssumption DEF Absent
<1>2. WorldOK
  BY <1>1 DEF Init, WorldOK, SubTyped, SubRow
<1>3. TablesOK
  BY <1>1, NoRowsOK DEF Init, TablesOK
<1>4. BridgesOK /\ RequestsOK
  BY FreshOK, IdleOK DEF Init, BridgesOK, RequestsOK
<1>5. QED
  BY <1>2, <1>3, <1>4 DEF TypeInv

\* The message in hand.
LEMMA InHand ==
  ASSUME TypeInv, NEW b \in Bridges, bridge[b].pc \notin {"idle", "stopped"}
  PROVE  /\ Head(bridge[b].batch) \in Subs /\ Tail(bridge[b].batch) \in Seq(Subs)
         /\ Phase(b) \in Phases /\ Entry(b) \in Entries
<1>1. bridge[b].batch \in Seq(Subs) /\ bridge[b].batch # <<>>
  BY DEF TypeInv, BridgesOK, BridgeOK
<1>2. Head(bridge[b].batch) \in Subs /\ Tail(bridge[b].batch) \in Seq(Subs)
  BY <1>1, HeadTailProperties
<1>3. \A s \in Subs : EntryOf[s] \in Entries /\ PhaseOf[s] \in Phases
  BY SubsAssumption
<1>4. QED
  BY <1>2, <1>3 DEF Phase, Entry

LEMMA UpsertTyped ==
  ASSUME NEW table \in [Entries -> TaskRow], NEW rows, TaskRows(rows)
  PROVE  /\ Upsert(table, rows) \in [Entries -> TaskRow]
         /\ \A e \in Entries :
              IF e \in DOMAIN rows
              THEN /\ Upsert(table, rows)[e].chosen = rows[e].chosen
                   /\ Upsert(table, rows)[e].raw = rows[e].raw
              ELSE Upsert(table, rows)[e] = table[e]
<1>1. DOMAIN table = Entries
  OBVIOUS
<1>2. ASSUME NEW e \in Entries, e \notin DOMAIN rows PROVE Upsert(table, rows)[e] = table[e]
  BY <1>1, <1>2 DEF Upsert
<1>3. ASSUME NEW e \in Entries, e \in DOMAIN rows
      PROVE  /\ Upsert(table, rows)[e] \in TaskRow
             /\ Upsert(table, rows)[e].chosen = rows[e].chosen
             /\ Upsert(table, rows)[e].raw = rows[e].raw
  <2>1. rows[e] \in TaskRow /\ table[e] \in TaskRow
    BY <1>3 DEF TaskRows
  <2>2. [rows[e] EXCEPT !.dq = table[e].dq] \in TaskRow
        /\ [rows[e] EXCEPT !.dq = table[e].dq].chosen = rows[e].chosen
        /\ [rows[e] EXCEPT !.dq = table[e].dq].raw = rows[e].raw
    BY <2>1 DEF TaskRow
  <2>3. Upsert(table, rows)[e] \in {rows[e], [rows[e] EXCEPT !.dq = table[e].dq]}
    BY <1>1, <1>3 DEF Upsert
  <2>4. QED
    BY <2>1, <2>2, <2>3
<1>4. Upsert(table, rows) = [e \in Entries |-> Upsert(table, rows)[e]]
  BY <1>1 DEF Upsert
<1>5. QED
  BY <1>2, <1>3, <1>4

LEMMA UpsertShape ==
  ASSUME NEW table, DOMAIN table = Entries, \A e \in Entries : ContestRow(table[e]),
         NEW rows, \A e \in DOMAIN rows : ContestRow(rows[e])
  PROVE  /\ DOMAIN Upsert(table, rows) = Entries
         /\ \A e \in Entries : ContestRow(Upsert(table, rows)[e])
BY DEF Upsert, ContestRow

\* A bridge that goes on with what it should have.
LEMMA BridgeMoves ==
  ASSUME BridgesOK, NEW b \in Bridges, NEW x, bridge' = [bridge EXCEPT ![b] = x]
  PROVE  /\ bridge'[b] = x /\ \A c \in Bridges \ {b} : bridge'[c] = bridge[c]
         /\ BridgeOK(x) => BridgesOK'
BY DEF BridgesOK

LEMMA RequestMoves ==
  ASSUME RequestsOK, NEW h \in Handlers, NEW x, req' = [req EXCEPT ![h] = x]
  PROVE  /\ req'[h] = x /\ \A g \in Handlers \ {h} : req'[g] = req[g]
         /\ RequestOK(x) => RequestsOK'
BY DEF RequestsOK
-----------------------------------------------------------------------------
LEMMA StaysOK ==
  /\ WorldOK /\ UNCHANGED <<world, results>> => WorldOK'
  /\ TablesOK /\ UNCHANGED <<zset, tables>> => TablesOK'
  /\ BridgesOK /\ UNCHANGED bridge => BridgesOK'
  /\ RequestsOK /\ UNCHANGED req => RequestsOK'
BY DEF WorldOK, SubTyped, world, TablesOK, tables, BridgesOK, RequestsOK

LEMMA WorldTypes ==
  ASSUME TypeInv,
         \/ \E s \in Subs : Judge(s) \/ EnqueueResult(s) \/ Rejudge(s)
         \/ \E e \in Entries : Disqualify(e)
  PROVE  TypeInv'
<1>1. TablesOK' /\ BridgesOK' /\ RequestsOK'
  BY StaysOK DEF TypeInv, Judge, EnqueueResult, Rejudge, Disqualify
<1>2. ASSUME NEW s \in Subs, Judge(s) PROVE WorldOK'
  <2>1. ASSUME NEW x \in Scores, sub' = [sub EXCEPT ![s].status = "done", ![s].score = x]
        PROVE  sub' \in [Subs -> SubRow]
    BY <2>1 DEF TypeInv, WorldOK, SubTyped, SubRow
  <2>2. ASSUME sub' = [sub EXCEPT ![s].status = "failed"] PROVE sub' \in [Subs -> SubRow]
    BY <2>2 DEF TypeInv, WorldOK, SubTyped, SubRow
  <2>3. sub' \in [Subs -> SubRow]
    BY <1>2, <2>1, <2>2 DEF Judge
  <2>4. QED
    BY <1>2, <2>3 DEF Judge, TypeInv, WorldOK, SubTyped
<1>3. ASSUME NEW s \in Subs, EnqueueResult(s) PROVE WorldOK'
  <2>1. results' \in Seq(Subs)
    BY <1>3 DEF EnqueueResult, TypeInv, WorldOK
  <2>2. QED
    BY <1>3, <2>1 DEF EnqueueResult, TypeInv, WorldOK, SubTyped
<1>4. ASSUME NEW s \in Subs, Rejudge(s) PROVE WorldOK'
  <2>1. asked' \in 0 .. MaxRequests
    BY <1>4, InstanceAssumption DEF Rejudge, TypeInv, WorldOK
  <2>2. sub' \in [Subs -> SubRow]
    BY <1>4 DEF Rejudge, TypeInv, WorldOK, SubTyped, SubRow
  <2>3. QED
    BY <1>4, <2>1, <2>2 DEF Rejudge, TypeInv, WorldOK, SubTyped
<1>5. ASSUME NEW e \in Entries, Disqualify(e) PROVE WorldOK'
  <2>1. asked' \in 0 .. MaxRequests
    BY <1>5, InstanceAssumption DEF Disqualify, TypeInv, WorldOK
  <2>2. QED
    BY <1>5, <2>1 DEF Disqualify, TypeInv, WorldOK, SubTyped
<1>6. QED
  BY <1>1, <1>2, <1>3, <1>4, <1>5 DEF TypeInv

LEMMA FinalTypes ==
  ASSUME TypeInv, NEW h \in Handlers,
         (\E s \in Subs : ResetOtherFinals(h, s)) \/ MarkFinal(h) \/ EmitFinal(h)
  PROVE  TypeInv'
<1>1. TablesOK' /\ BridgesOK'
  BY StaysOK DEF TypeInv, ResetOtherFinals, MarkFinal, EmitFinal
<1>2. ASSUME NEW s \in Subs, ResetOtherFinals(h, s) PROVE WorldOK' /\ RequestsOK'
  <2>0. asked < MaxRequests /\ asked' = asked + 1
    BY <1>2 DEF ResetOtherFinals
  <2>1. asked' \in 0 .. MaxRequests
    BY <2>0, InstanceAssumption DEF TypeInv, WorldOK
  <2>2. sub' \in [Subs -> SubRow]
    BY <1>2 DEF ResetOtherFinals, TypeInv, WorldOK, SubTyped, SubRow
  <2>3. WorldOK'
    BY <1>2, <2>1, <2>2 DEF ResetOtherFinals, TypeInv, WorldOK, SubTyped
  <2>4. RequestOK([Idle EXCEPT !.pc = "mark", !.id = s])
    BY DEF Idle, RequestOK
  <2>5. QED
    BY <1>2, <2>3, <2>4, RequestMoves DEF ResetOtherFinals, TypeInv
<1>3. ASSUME MarkFinal(h) PROVE WorldOK' /\ RequestsOK'
  <2>0. RequestOK(req[h])
    BY DEF TypeInv, RequestsOK
  <2>1. req[h].id \in Subs
    BY <1>3, <2>0 DEF MarkFinal, RequestOK
  <2>2. sub' \in [Subs -> SubRow]
    BY <1>3, <2>1 DEF MarkFinal, TypeInv, WorldOK, SubTyped, SubRow
  <2>3. WorldOK'
    BY <1>3, <2>2 DEF MarkFinal, TypeInv, WorldOK, SubTyped
  <2>4. RequestOK([req[h] EXCEPT !.pc = "emit"])
    BY <1>3, <2>0 DEF MarkFinal, RequestOK
  <2>5. req' = [req EXCEPT ![h] = [req[h] EXCEPT !.pc = "emit"]]
    BY <1>3 DEF MarkFinal
  <2>6. QED
    BY <2>3, <2>4, <2>5, RequestMoves DEF TypeInv
<1>4. ASSUME EmitFinal(h) PROVE WorldOK' /\ RequestsOK'
  <2>0. RequestOK(req[h])
    BY DEF TypeInv, RequestsOK
  <2>1. req[h].id \in Subs
    BY <1>4, <2>0 DEF EmitFinal, RequestOK
  <2>2. results' \in Seq(Subs)
    BY <1>4, <2>1 DEF EmitFinal, TypeInv, WorldOK
  <2>3. WorldOK'
    BY <1>4, <2>2 DEF EmitFinal, TypeInv, WorldOK, SubTyped, world
  <2>4. QED
    BY <1>4, <2>3, IdleOK, RequestMoves DEF EmitFinal, TypeInv
<1>5. QED
  BY <1>1, <1>2, <1>3, <1>4 DEF TypeInv

\* The ways in which a bridge goes on.
LEMMA GotoWay ==
  ASSUME BridgesOK, NEW b \in Bridges, NEW pc, Goto(b, pc)
  PROVE  bridge' = [bridge EXCEPT ![b] = [bridge[b] EXCEPT !.pc = pc]]
BY DEF Goto, BridgesOK

LEMMA WrittenWay ==
  ASSUME BridgesOK, NEW b \in Bridges, NEW pc, Written(b, pc)
  PROVE  bridge' = [bridge EXCEPT ![b] = [bridge[b] EXCEPT !.pc = pc, !.rows = <<>>]]
BY DEF Written, BridgesOK

LEMMA ComputeWay ==
  ASSUME BridgesOK, NEW b \in Bridges, NEW pc, NEW rows, NEW next, Compute(b, pc, rows, next)
  PROVE  bridge' = [bridge EXCEPT ![b] = [bridge[b] EXCEPT !.pc = next, !.rows = rows]]
BY DEF Compute, BridgesOK

LEMMA BridgeGoesOn ==
  ASSUME TypeInv, NEW b \in Bridges, bridge[b].pc \notin {"idle", "stopped"},
         NEW pc \in {"full", "seed_read", "contest", "global", "stale"},
         Goto(b, pc) \/ Written(b, pc)
  PROVE  BridgesOK'
<1>1. BridgesOK /\ BridgeOK(bridge[b])
  BY DEF TypeInv, BridgesOK
<1>2. BridgeOK([bridge[b] EXCEPT !.pc = pc])
  BY <1>1 DEF BridgeOK, BridgePC, IncrementalPC, BoardPC
<1>3. BridgeOK([bridge[b] EXCEPT !.pc = pc, !.rows = <<>>])
  BY <1>1 DEF BridgeOK, BridgePC, IncrementalPC, BoardPC
<1>4. CASE Goto(b, pc)
  <2>1. bridge' = [bridge EXCEPT ![b] = [bridge[b] EXCEPT !.pc = pc]]
    BY <1>1, <1>4, GotoWay
  <2>2. QED
    BY <1>1, <1>2, <2>1, BridgeMoves
<1>5. CASE Written(b, pc)
  <2>1. bridge' = [bridge EXCEPT ![b] = [bridge[b] EXCEPT !.pc = pc, !.rows = <<>>]]
    BY <1>1, <1>5, WrittenWay
  <2>2. QED
    BY <1>1, <1>3, <2>1, BridgeMoves
<1>6. QED
  BY <1>4, <1>5

LEMMA NextMessageOK ==
  ASSUME TypeInv, NEW b \in Bridges, bridge[b].pc \notin {"idle", "stopped"}, NextMessage(b)
  PROVE  BridgesOK'
<1> DEFINE rest == Tail(bridge[b].batch)
           x == [Fresh EXCEPT !.batch = rest, !.pc = IF rest = <<>> THEN "idle" ELSE "max"]
<1>1. bridge' = [bridge EXCEPT ![b] = x]
  BY DEF NextMessage
<1>2. rest \in Seq(Subs)
  BY InHand
<1> HIDE DEF rest
<1>3. BridgeOK(x)
  BY <1>2 DEF BridgeOK, Fresh, BridgePC, IncrementalPC, BoardPC
<1> HIDE DEF x
<1>4. QED
  BY <1>1, <1>3, BridgeMoves DEF TypeInv
-----------------------------------------------------------------------------
LEMMA ReadTypes ==
  ASSUME TypeInv, NEW b \in Bridges, ReadResults(b)
  PROVE  TypeInv'
<1>1. PICK n \in 1 .. BatchSize :
        /\ n <= Len(results)
        /\ bridge' = [bridge EXCEPT ![b].batch = SubSeq(results, 1, n), ![b].pc = "max"]
        /\ results' = SubSeq(results, n + 1, Len(results))
  BY DEF ReadResults
<1>2. results \in Seq(Subs) /\ n \in 1 .. Len(results) /\ Len(results) \in Nat
  BY <1>1, InstanceAssumption DEF TypeInv, WorldOK
<1>3. SubSeq(results, 1, n) \in Seq(Subs) /\ SubSeq(results, 1, n) # <<>>
      /\ SubSeq(results, n + 1, Len(results)) \in Seq(Subs)
  <2>1. \A i \in 1 .. Len(results) : results[i] \in Subs
    BY <1>2
  <2>2. SubSeq(results, 1, n) \in Seq(Subs) /\ Len(SubSeq(results, 1, n)) = n
    BY <1>2, <2>1, SubSeqProperties
  <2>3. SubSeq(results, n + 1, Len(results)) \in Seq(Subs)
    BY <1>2, <2>1, SubSeqProperties
  <2> DEFINE y == SubSeq(results, 1, n)
  <2>4. y \in Seq(Subs) /\ Len(y) > 0
    BY <1>2, <2>2
  <2> HIDE DEF y
  <2>5. y # <<>>
    BY <2>4
  <2>6. QED
    BY <2>2, <2>3, <2>5 DEF y
<1>4. BridgesOK /\ BridgeOK(bridge[b]) /\ bridge[b].pc = "idle"
  BY DEF TypeInv, BridgesOK, ReadResults
<1> DEFINE y == SubSeq(results, 1, n)
<1>5. bridge' = [bridge EXCEPT ![b] = [bridge[b] EXCEPT !.batch = y, !.pc = "max"]]
  BY <1>1, <1>4 DEF BridgesOK
<1>6. y \in Seq(Subs) /\ y # <<>>
  BY <1>3
<1> HIDE DEF y
<1>7. BridgeOK([bridge[b] EXCEPT !.batch = y, !.pc = "max"])
  BY <1>4, <1>6 DEF BridgeOK, BridgePC, IncrementalPC, BoardPC
<1>8. BridgesOK'
  BY <1>4, <1>5, <1>7, BridgeMoves
<1>9. WorldOK'
  BY <1>1, <1>3 DEF ReadResults, world, TypeInv, WorldOK, SubTyped
<1>10. TablesOK' /\ RequestsOK'
  BY StaysOK DEF TypeInv, ReadResults
<1>11. QED
  BY <1>8, <1>9, <1>10 DEF TypeInv

LEMMA RowUpdated ==
  ASSUME NEW r \in TaskRow, NEW k \in Nat, NEW x \in Nat, NEW s \in Nat, NEW n \in Nat
  PROVE  [r EXCEPT !.rank = k, !.score = x, !.raw = x, !.chosen = s, !.count = n] \in TaskRow
<1> DEFINE r1 == [r EXCEPT !.rank = k, !.score = x]
           r2 == [r1 EXCEPT !.raw = x, !.chosen = s]
<1>0. x \in Int
  OBVIOUS
<1>1. r1 \in TaskRow
  BY <1>0 DEF TaskRow
<1> HIDE DEF r1
<1>2. r2 \in TaskRow
  BY <1>1 DEF TaskRow
<1> HIDE DEF r2
<1>3. [r2 EXCEPT !.count = n] \in TaskRow
  BY <1>2 DEF TaskRow
<1>4. QED
  BY <1>3 DEF r1, r2

LEMMA IncrementalTypes ==
  ASSUME TypeInv, NEW b \in Bridges, Incremental(b)
  PROVE  TypeInv'
<1>0. /\ BridgesOK /\ BridgeOK(bridge[b]) /\ bridge[b].pc \notin {"idle", "stopped"}
      /\ Phase(b) \in Phases /\ Entry(b) \in Entries
  <2>1. bridge[b].pc \notin {"idle", "stopped"}
    BY DEF Incremental, GetMaxScore, GetBestSubmission, UpdateScore, RevRank, ZCard,
           UpdateSingleEntry
  <2>2. QED
    BY <2>1, InHand DEF TypeInv, BridgesOK
<1>1. WorldOK' /\ RequestsOK'
  BY StaysOK DEF TypeInv, Incremental, GetMaxScore, GetBestSubmission, UpdateScore, RevRank,
                 ZCard, UpdateSingleEntry
<1>2. ASSUME GetMaxScore(b) PROVE TablesOK' /\ BridgesOK'
  <2> DEFINE members == {zset[Phase(b)][e] : e \in Entries} \ {Absent}
             m == IF members = {} THEN 0 ELSE Max(members)
  <2>1. bridge' = [bridge EXCEPT ![b] = [bridge[b] EXCEPT !.pc = "best", !.max = m]]
    BY <1>0, <1>2 DEF GetMaxScore, BridgesOK
  <2> HIDE DEF m
  <2>2. BridgeOK([bridge[b] EXCEPT !.pc = "best", !.max = m])
    BY <1>0 DEF BridgeOK, BridgePC, IncrementalPC, BoardPC
  <2>3. BridgesOK'
    BY <1>0, <2>1, <2>2, BridgeMoves
  <2>4. QED
    BY <1>2, <2>3, StaysOK DEF TypeInv, GetMaxScore
<1>3. ASSUME GetBestSubmission(b) PROVE TablesOK' /\ BridgesOK'
  <2> DEFINE all == Candidates(Phase(b), Entry(b))
             s == FirstBy(IncrementalKey, all)
  <2>1. \/ Goto(b, "full")
        \/ all # {} /\ bridge' = [bridge EXCEPT ![b].pc = "zadd", ![b].best = s,
                                                ![b].score = sub[s].score]
    BY <1>3 DEF GetBestSubmission
  <2>2. ASSUME Goto(b, "full") PROVE BridgesOK'
    BY <1>0, <2>2, BridgeGoesOn
  <2>3. ASSUME all # {}, bridge' = [bridge EXCEPT ![b].pc = "zadd", ![b].best = s,
                                                  ![b].score = sub[s].score]
        PROVE  BridgesOK'
    <3>1. s \in Subs
      BY <2>3, CandidatesTyped, FirstFound DEF TypeInv, WorldOK
    <3> HIDE DEF s
    <3>2. sub[s].score \in Nat
      <4>1. Scores \cup {0} \subseteq Nat
        BY SubsAssumption
      <4>2. sub[s].score \in Scores \cup {0}
        BY <3>1 DEF TypeInv, WorldOK, SubTyped, SubRow
      <4>3. QED
        BY <4>1, <4>2
    <3> DEFINE k == sub[s].score
               x == [bridge[b] EXCEPT !.pc = "zadd", !.best = s, !.score = k]
    <3>3. bridge' = [bridge EXCEPT ![b] = x]
      BY <1>0, <2>3 DEF BridgesOK
    <3> HIDE DEF k
    <3>4. BridgeOK(x)
      BY <1>0, <3>1, <3>2 DEF k, BridgeOK, BridgePC, IncrementalPC, BoardPC
    <3> HIDE DEF x
    <3>5. QED
      BY <1>0, <3>3, <3>4, BridgeMoves
  <2>4. QED
    BY <1>3, <2>1, <2>2, <2>3, StaysOK DEF TypeInv, GetBestSubmission
<1>4. ASSUME UpdateScore(b) PROVE TablesOK' /\ BridgesOK'
  <2>1. bridge' = [bridge EXCEPT ![b] = [bridge[b] EXCEPT !.pc = "zrank"]]
    BY <1>0, <1>4, GotoWay DEF UpdateScore
  <2>2. BridgeOK([bridge[b] EXCEPT !.pc = "zrank"]) /\ bridge[b].score \in Int
    BY <1>0, <1>4 DEF UpdateScore, BridgeOK, BridgePC, IncrementalPC, BoardPC
  <2>3. zset' \in [Phases -> [Entries -> Int]]
    BY <1>0, <1>4, <2>2 DEF UpdateScore, TypeInv, TablesOK
  <2>4. BridgesOK'
    BY <1>0, <2>1, <2>2, BridgeMoves
  <2>5. QED
    BY <1>4, <2>3, <2>4 DEF TypeInv, UpdateScore, TablesOK, tables
<1>5. ASSUME RevRank(b) PROVE TablesOK' /\ BridgesOK'
  <2> DEFINE z == zset[Phase(b)]
             n == Cardinality({e \in Entries :
                    Precedes(<<-z[e], -e>>, <<-z[Entry(b)], -Entry(b)>>)})
             x == [bridge[b] EXCEPT !.pc = "zcard", !.rank = 1 + n]
  <2>1. bridge' = [bridge EXCEPT ![b] = x]
    BY <1>0, <1>5 DEF RevRank, BridgesOK
  <2>2. n \in Nat
    <3>1. {e \in Entries : Precedes(<<-z[e], -e>>, <<-z[Entry(b)], -Entry(b)>>)} \subseteq Entries
      OBVIOUS
    <3>2. QED
      BY <3>1, FiniteAssumption, FS_Subset, FS_CardinalityType
  <2> HIDE DEF n
  <2>3. BridgeOK(x)
    BY <1>0, <1>5, <2>2 DEF RevRank, BridgeOK, BridgePC, IncrementalPC, BoardPC
  <2> HIDE DEF x
  <2>4. BridgesOK'
    BY <1>0, <2>1, <2>3, BridgeMoves
  <2>5. QED
    BY <1>5, <2>4, StaysOK DEF TypeInv, RevRank
<1>6. ASSUME ZCard(b) PROVE TablesOK' /\ BridgesOK'
  <2> DEFINE n == Cardinality({e \in Entries : zset[Phase(b)][e] # Absent})
             x == [bridge[b] EXCEPT !.pc = "update", !.card = n]
  <2>1. bridge' = [bridge EXCEPT ![b] = x]
    BY <1>0, <1>6 DEF ZCard, BridgesOK
  <2>2. n \in Nat
    <3>1. {e \in Entries : zset[Phase(b)][e] # Absent} \subseteq Entries
      OBVIOUS
    <3>2. QED
      BY <3>1, FiniteAssumption, FS_Subset, FS_CardinalityType
  <2> HIDE DEF n
  <2>3. BridgeOK(x)
    BY <1>0, <1>6, <2>2 DEF ZCard, BridgeOK, BridgePC, IncrementalPC, BoardPC
  <2> HIDE DEF x
  <2>4. BridgesOK'
    BY <1>0, <2>1, <2>3, BridgeMoves
  <2>5. QED
    BY <1>6, <2>4, StaysOK DEF TypeInv, ZCard
<1>7. ASSUME UpdateSingleEntry(b) PROVE TablesOK' /\ BridgesOK'
  <2>1. BridgesOK'
    BY <1>0, <1>7, BridgeGoesOn DEF UpdateSingleEntry
  <2> DEFINE w == [board[Phase(b)][Entry(b)] EXCEPT
                     !.rank = bridge[b].rank, !.score = bridge[b].score,
                     !.raw = bridge[b].score, !.chosen = bridge[b].best,
                     !.count = bridge[b].card]
  <2>2. /\ bridge[b].rank \in Nat /\ bridge[b].score \in Nat /\ bridge[b].best \in Subs
        /\ bridge[b].card \in Nat
    BY <1>0, <1>7 DEF UpdateSingleEntry, BridgeOK
  <2>3. board[Phase(b)][Entry(b)] \in TaskRow /\ bridge[b].best \in Nat
    BY ZenonT(40), <1>0, <2>2, SubsAssumption DEF TypeInv, TablesOK
  <2>4. w \in TaskRow
    BY <2>2, <2>3, RowUpdated
  <2>5. board' = board \/ board' = [board EXCEPT ![Phase(b)][Entry(b)] = w]
    BY <1>7 DEF UpdateSingleEntry
  <2> HIDE DEF w
  <2>6. board' \in [Phases -> [Entries -> TaskRow]]
    <3>1. board \in [Phases -> [Entries -> TaskRow]]
      BY DEF TypeInv, TablesOK
    <3>2. QED
      BY <1>0, <2>4, <2>5, <3>1
  <2>7. QED
    BY <1>7, <2>1, <2>6 DEF UpdateSingleEntry, TypeInv, TablesOK, ContestRow
<1>8. QED
  BY <1>1, <1>2, <1>3, <1>4, <1>5, <1>6, <1>7 DEF TypeInv, Incremental
-----------------------------------------------------------------------------
LEMMA FullTypes ==
  ASSUME TypeInv, NEW b \in Bridges, Full(b)
  PROVE  TypeInv'
<1>0. /\ BridgesOK /\ BridgeOK(bridge[b]) /\ bridge[b].pc \notin {"idle", "stopped"}
      /\ Phase(b) \in Phases /\ Entry(b) \in Entries
  <2>1. bridge[b].pc \notin {"idle", "stopped"}
    BY DEF Full, FullRecomputeTaskPhase, WriteTaskRows, SeedRead, SeedPhase, Compute
  <2>2. QED
    BY <2>1, InHand DEF TypeInv, BridgesOK
<1>1. WorldOK' /\ RequestsOK'
  BY StaysOK DEF TypeInv, Full, FullRecomputeTaskPhase, WriteTaskRows, SeedRead, SeedPhase, Compute
<1>2. ASSUME FullRecomputeTaskPhase(b) PROVE TablesOK' /\ BridgesOK'
  <2> DEFINE rows == BridgeTaskRows(Phase(b))
  <2>1. TaskRows(rows)
    BY BridgeRows DEF TypeInv, WorldOK
  <2>2. Compute(b, "full", rows, "write_task")
    BY <1>2 DEF FullRecomputeTaskPhase
  <2> HIDE DEF rows
  <2>3. bridge' = [bridge EXCEPT ![b] = [bridge[b] EXCEPT !.pc = "write_task", !.rows = rows]]
    BY <1>0, <2>2, ComputeWay
  <2>4. BridgeOK([bridge[b] EXCEPT !.pc = "write_task", !.rows = rows])
    BY <1>0, <2>1 DEF BridgeOK, BridgePC, IncrementalPC, BoardPC
  <2>5. BridgesOK'
    BY <1>0, <2>3, <2>4, BridgeMoves
  <2>6. QED
    BY <2>2, <2>5, StaysOK DEF TypeInv, Compute
<1>3. ASSUME WriteTaskRows(b) PROVE TablesOK' /\ BridgesOK'
  <2>1. BridgesOK'
    BY <1>0, <1>3, BridgeGoesOn DEF WriteTaskRows
  <2>2. TaskRows(bridge[b].rows)
    BY <1>0, <1>3 DEF WriteTaskRows, BridgeOK
  <2>3. board \in [Phases -> [Entries -> TaskRow]]
    BY DEF TypeInv, TablesOK
  <2>4. Upsert(board[Phase(b)], bridge[b].rows) \in [Entries -> TaskRow]
    BY <1>0, <2>2, <2>3, UpsertTyped
  <2>5. board' = [board EXCEPT ![Phase(b)] = Upsert(board[Phase(b)], bridge[b].rows)]
    BY <1>3 DEF WriteTaskRows
  <2>6. board' \in [Phases -> [Entries -> TaskRow]]
    BY <1>0, <2>3, <2>4, <2>5
  <2>7. QED
    BY <1>3, <2>1, <2>6 DEF WriteTaskRows, TypeInv, TablesOK, ContestRow
<1>4. ASSUME SeedRead(b) PROVE TablesOK' /\ BridgesOK'
  <2> DEFINE rows == board[Phase(b)]
  <2>1. rows \in [Entries -> TaskRow]
    BY <1>0 DEF TypeInv, TablesOK
  <2>2. Compute(b, "seed_read", rows, "seed")
    BY <1>4 DEF SeedRead
  <2> HIDE DEF rows
  <2>3. bridge' = [bridge EXCEPT ![b] = [bridge[b] EXCEPT !.pc = "seed", !.rows = rows]]
    BY <1>0, <2>2, ComputeWay
  <2>4. BridgeOK([bridge[b] EXCEPT !.pc = "seed", !.rows = rows])
    BY <1>0, <2>1 DEF BridgeOK, BridgePC, IncrementalPC, BoardPC
  <2>5. BridgesOK'
    BY <1>0, <2>3, <2>4, BridgeMoves
  <2>6. QED
    BY <2>2, <2>5, StaysOK DEF TypeInv, Compute
<1>5. ASSUME SeedPhase(b) PROVE TablesOK' /\ BridgesOK'
  <2>1. BridgesOK'
    BY <1>0, <1>5, BridgeGoesOn DEF SeedPhase
  <2>2. PICK rows \in [Entries -> TaskRow] : rows = bridge[b].rows
    BY <1>0, <1>5 DEF SeedPhase, BridgeOK
  <2>3. \A e \in Entries : rows[e].score \in Int
    BY <2>2 DEF TaskRow
  <2> DEFINE z == [e \in Entries |-> IF rows[e].rank = 0 THEN zset[Phase(b)][e]
                                     ELSE rows[e].score]
  <2>4. zset \in [Phases -> [Entries -> Int]]
    BY DEF TypeInv, TablesOK
  <2>5. z \in [Entries -> Int]
    BY <1>0, <2>3, <2>4
  <2>6. zset' = [zset EXCEPT ![Phase(b)] = z]
    BY <1>5, <2>2 DEF SeedPhase
  <2> HIDE DEF z
  <2>7. zset' \in [Phases -> [Entries -> Int]]
    BY <1>0, <2>4, <2>5, <2>6
  <2>8. QED
    BY <1>5, <2>1, <2>7 DEF SeedPhase, TypeInv, TablesOK, tables
<1>6. QED
  BY <1>1, <1>2, <1>3, <1>4, <1>5 DEF TypeInv, Full

LEMMA BoardsTypesStep ==
  ASSUME TypeInv, NEW b \in Bridges, BoardsStep(b)
  PROVE  TypeInv'
<1>0. BridgesOK /\ BridgeOK(bridge[b]) /\ bridge[b].pc \notin {"idle", "stopped"}
  BY DEF TypeInv, BridgesOK, BoardsStep, RecomputeContestPhase, WriteContestRows,
         RecomputeGlobalPhase, WriteGlobalRows, DeleteStaleRankings, Compute
<1>1. WorldOK' /\ RequestsOK'
  BY StaysOK DEF TypeInv, BoardsStep, RecomputeContestPhase, WriteContestRows,
         RecomputeGlobalPhase, WriteGlobalRows, DeleteStaleRankings, Compute
<1>2. ASSUME RecomputeContestPhase(b) PROVE TablesOK' /\ BridgesOK'
  <2> DEFINE rows == BridgeContestRows
  <2>1. \A e \in DOMAIN rows : ContestRow(rows[e])
    BY ContestRowsTyped
  <2>2. Compute(b, "contest", rows, "write_contest")
    BY <1>2 DEF RecomputeContestPhase
  <2> HIDE DEF rows
  <2>3. bridge' = [bridge EXCEPT ![b] = [bridge[b] EXCEPT !.pc = "write_contest", !.rows = rows]]
    BY <1>0, <2>2, ComputeWay
  <2>4. BridgeOK([bridge[b] EXCEPT !.pc = "write_contest", !.rows = rows])
    BY <1>0, <2>1 DEF BridgeOK, BridgePC, IncrementalPC, BoardPC
  <2>5. BridgesOK'
    BY <1>0, <2>3, <2>4, BridgeMoves
  <2>6. QED
    BY <2>2, <2>5, StaysOK DEF TypeInv, Compute
<1>3. ASSUME WriteContestRows(b) PROVE TablesOK' /\ BridgesOK'
  <2>1. BridgesOK'
    BY <1>0, <1>3, BridgeGoesOn DEF WriteContestRows
  <2>2. \A e \in DOMAIN bridge[b].rows : ContestRow(bridge[b].rows[e])
    BY <1>0, <1>3 DEF WriteContestRows, BridgeOK
  <2>3. DOMAIN cboard = Entries /\ \A e \in Entries : ContestRow(cboard[e])
    BY DEF TypeInv, TablesOK
  <2>4. cboard' = Upsert(cboard, bridge[b].rows)
    BY <1>3 DEF WriteContestRows
  <2>5. DOMAIN Upsert(cboard, bridge[b].rows) = Entries
        /\ \A e \in Entries : ContestRow(Upsert(cboard, bridge[b].rows)[e])
    BY <2>2, <2>3, UpsertShape
  <2>6. DOMAIN cboard' = Entries /\ \A e \in Entries : ContestRow(cboard'[e])
    BY <2>4, <2>5
  <2>7. QED
    BY <1>3, <2>1, <2>6 DEF WriteContestRows, TypeInv, TablesOK, ContestRow
<1>4. ASSUME RecomputeGlobalPhase(b) PROVE TablesOK' /\ BridgesOK'
  <2> DEFINE rows == GlobalRows
  <2>2. Compute(b, "global", rows, "write_global")
    BY <1>4 DEF RecomputeGlobalPhase
  <2> HIDE DEF rows
  <2>3. bridge' = [bridge EXCEPT ![b] = [bridge[b] EXCEPT !.pc = "write_global", !.rows = rows]]
    BY <1>0, <2>2, ComputeWay
  <2>4. BridgeOK([bridge[b] EXCEPT !.pc = "write_global", !.rows = rows])
    BY <1>0 DEF BridgeOK, BridgePC, IncrementalPC, BoardPC
  <2>5. BridgesOK'
    BY <1>0, <2>3, <2>4, BridgeMoves
  <2>6. QED
    BY <2>2, <2>5, StaysOK DEF TypeInv, Compute
<1>5. ASSUME WriteGlobalRows(b) PROVE TablesOK' /\ BridgesOK'
  <2>1. BridgesOK'
    BY <1>0, <1>5, BridgeGoesOn DEF WriteGlobalRows
  <2>2. DOMAIN ranking' = Users
    BY <1>5 DEF WriteGlobalRows, Replace, TypeInv, TablesOK
  <2>3. QED
    BY <1>5, <2>1, <2>2 DEF WriteGlobalRows, TypeInv, TablesOK, ContestRow
<1>6. ASSUME DeleteStaleRankings(b) PROVE TablesOK' /\ BridgesOK'
  <2>1. BridgesOK'
    BY <1>0, <1>6, NextMessageOK DEF DeleteStaleRankings
  <2>2. DOMAIN ranking' = Users
    BY <1>6 DEF DeleteStaleRankings, WithoutStale
  <2>3. QED
    BY <1>6, <2>1, <2>2 DEF DeleteStaleRankings, TypeInv, TablesOK, ContestRow
<1>7. QED
  BY <1>1, <1>2, <1>3, <1>4, <1>5, <1>6 DEF TypeInv, BoardsStep

LEMMA FaultTypes ==
  ASSUME TypeInv, NEW b \in Bridges, BridgeFault(b)
  PROVE  TypeInv'
<1>0. BridgesOK /\ BridgeOK(bridge[b])
  BY DEF TypeInv, BridgesOK
<1>1. WorldOK' /\ TablesOK' /\ RequestsOK'
  BY StaysOK DEF TypeInv, BridgeFault, IncrementalFails, FullFails, BoardFails, ReadFails, Restart
<1>2. ASSUME IncrementalFails(b) PROVE BridgesOK'
  BY <1>2, BridgeGoesOn DEF IncrementalFails, IncrementalPC
<1>3. ASSUME FullFails(b) PROVE BridgesOK'
  BY <1>3, BridgeGoesOn DEF FullFails
<1>4. ASSUME BoardFails(b) PROVE BridgesOK'
  <2>1. bridge[b].pc \notin {"idle", "stopped"}
    BY <1>4 DEF BoardFails
  <2>2. Written(b, "global") \/ NextMessage(b)
    BY <1>4 DEF BoardFails
  <2>3. QED
    BY <2>1, <2>2, BridgeGoesOn, NextMessageOK
<1>5. ASSUME ReadFails(b) PROVE BridgesOK'
  <2>1. bridge' = [bridge EXCEPT ![b] = [bridge[b] EXCEPT !.pc = "stopped"]]
    BY <1>0, <1>5, GotoWay DEF ReadFails
  <2>2. BridgeOK([bridge[b] EXCEPT !.pc = "stopped"])
    BY <1>0, <1>5 DEF ReadFails, BridgeOK, BridgePC, IncrementalPC, BoardPC
  <2>3. QED
    BY <1>0, <2>1, <2>2, BridgeMoves
<1>6. ASSUME Restart(b) PROVE BridgesOK'
  BY <1>0, <1>6, FreshOK, BridgeMoves DEF Restart
<1>7. QED
  BY <1>1, <1>2, <1>3, <1>4, <1>5, <1>6 DEF TypeInv, BridgeFault
-----------------------------------------------------------------------------
Asks(h) == (\E p \in Phases : TaskPhaseBoard(h, p)) \/ ContestPhaseBoard(h) \/ GlobalPhaseRanking(h)

LEMMA HandlerTypes ==
  ASSUME TypeInv, NEW h \in Handlers, Asks(h) \/ HandlerWrites(h)
  PROVE  TypeInv'
<1>0. RequestsOK /\ RequestOK(req[h])
  BY DEF TypeInv, RequestsOK
<1>1. WorldOK' /\ BridgesOK'
  BY StaysOK DEF TypeInv, Asks, TaskPhaseBoard, ContestPhaseBoard, GlobalPhaseRanking, Request,
                 HandlerWrites
<1>2. ASSUME NEW p \in Phases, TaskPhaseBoard(h, p) PROVE TablesOK' /\ RequestsOK'
  <2> DEFINE rows == HandlerTaskRows(p)
             x == [pc |-> "write_task", id |-> p, rows |-> rows]
  <2>1. TaskRows(rows)
    BY HandlerRows DEF TypeInv, WorldOK
  <2>2. req' = [req EXCEPT ![h] = x] /\ UNCHANGED <<zset, tables>>
    BY <1>2 DEF TaskPhaseBoard, Request
  <2> HIDE DEF rows
  <2>3. RequestOK(x)
    BY <2>1 DEF RequestOK
  <2> HIDE DEF x
  <2>4. QED
    BY <1>0, <2>2, <2>3, RequestMoves, StaysOK DEF TypeInv
<1>3. ASSUME ContestPhaseBoard(h) PROVE TablesOK' /\ RequestsOK'
  <2> DEFINE rows == HandlerContestRows
             x == [pc |-> "write_contest", id |-> 0, rows |-> rows]
  <2>1. \A e \in DOMAIN rows : ContestRow(rows[e])
    BY ContestRowsTyped
  <2>2. req' = [req EXCEPT ![h] = x] /\ UNCHANGED <<zset, tables>>
    BY <1>3 DEF ContestPhaseBoard, Request
  <2> HIDE DEF rows
  <2>3. RequestOK(x)
    BY <2>1 DEF RequestOK
  <2> HIDE DEF x
  <2>4. QED
    BY <1>0, <2>2, <2>3, RequestMoves, StaysOK DEF TypeInv
<1>4. ASSUME GlobalPhaseRanking(h) PROVE TablesOK' /\ RequestsOK'
  <2> DEFINE rows == GlobalRows
             x == [pc |-> "write_global", id |-> 0, rows |-> rows]
  <2>2. req' = [req EXCEPT ![h] = x] /\ UNCHANGED <<zset, tables>>
    BY <1>4 DEF GlobalPhaseRanking, Request
  <2> HIDE DEF rows
  <2>3. RequestOK(x)
    BY DEF RequestOK
  <2> HIDE DEF x
  <2>4. QED
    BY <1>0, <2>2, <2>3, RequestMoves, StaysOK DEF TypeInv
<1>5. ASSUME HandlerWrites(h), req[h].pc = "write_task",
             board' = [board EXCEPT ![req[h].id] = Upsert(@, req[h].rows)],
             req' = [req EXCEPT ![h] = Idle], UNCHANGED <<cboard, ranking>>
      PROVE  TablesOK' /\ RequestsOK'
  <2>1. req[h].id \in Phases /\ TaskRows(req[h].rows)
    BY <1>0, <1>5 DEF RequestOK
  <2>2. board \in [Phases -> [Entries -> TaskRow]]
    BY DEF TypeInv, TablesOK
  <2>3. Upsert(board[req[h].id], req[h].rows) \in [Entries -> TaskRow]
    BY <2>1, <2>2, UpsertTyped
  <2>4. board' \in [Phases -> [Entries -> TaskRow]]
    BY <1>5, <2>1, <2>2, <2>3
  <2>5. RequestsOK'
    BY <1>0, <1>5, IdleOK, RequestMoves
  <2>6. QED
    BY <1>5, <2>4, <2>5 DEF HandlerWrites, TypeInv, TablesOK, ContestRow
<1>6. ASSUME HandlerWrites(h), req[h].pc = "write_contest",
             cboard' = Upsert(cboard, req[h].rows),
             req' = [req EXCEPT ![h] = Idle], UNCHANGED <<board, ranking>>
      PROVE  TablesOK' /\ RequestsOK'
  <2>1. \A e \in DOMAIN req[h].rows : ContestRow(req[h].rows[e])
    BY <1>0, <1>6 DEF RequestOK
  <2>2. DOMAIN cboard = Entries /\ \A e \in Entries : ContestRow(cboard[e])
    BY DEF TypeInv, TablesOK
  <2>3. DOMAIN Upsert(cboard, req[h].rows) = Entries
        /\ \A e \in Entries : ContestRow(Upsert(cboard, req[h].rows)[e])
    BY <2>1, <2>2, UpsertShape
  <2>4. DOMAIN cboard' = Entries /\ \A e \in Entries : ContestRow(cboard'[e])
    BY <1>6, <2>3
  <2>5. RequestsOK'
    BY <1>0, <1>6, IdleOK, RequestMoves
  <2>6. QED
    BY <1>6, <2>4, <2>5 DEF HandlerWrites, TypeInv, TablesOK, ContestRow
<1>7. ASSUME HandlerWrites(h), req[h].pc = "write_global",
             ranking' = Replace(ranking, req[h].rows),
             req' = [req EXCEPT ![h].pc = "stale", ![h].rows = <<>>], UNCHANGED <<board, cboard>>
      PROVE  TablesOK' /\ RequestsOK'
  <2>1. req' = [req EXCEPT ![h] = [req[h] EXCEPT !.pc = "stale", !.rows = <<>>]]
    BY <1>0, <1>7 DEF RequestsOK
  <2>2. RequestOK([req[h] EXCEPT !.pc = "stale", !.rows = <<>>])
    BY <1>0 DEF RequestOK
  <2>3. RequestsOK'
    BY <1>0, <2>1, <2>2, RequestMoves
  <2>4. DOMAIN ranking' = Users
    BY <1>7 DEF Replace, TypeInv, TablesOK
  <2>5. QED
    BY <1>7, <2>3, <2>4 DEF HandlerWrites, TypeInv, TablesOK, ContestRow
<1>8. ASSUME HandlerWrites(h), req[h].pc = "stale", ranking' = WithoutStale,
             req' = [req EXCEPT ![h] = Idle], UNCHANGED <<board, cboard>>
      PROVE  TablesOK' /\ RequestsOK'
  <2>1. RequestsOK'
    BY <1>0, <1>8, IdleOK, RequestMoves
  <2>2. DOMAIN ranking' = Users
    BY <1>8 DEF WithoutStale
  <2>3. QED
    BY <1>8, <2>1, <2>2 DEF HandlerWrites, TypeInv, TablesOK, ContestRow
<1>9. ASSUME HandlerWrites(h) PROVE TablesOK' /\ RequestsOK'
  BY <1>5, <1>6, <1>7, <1>8, <1>9 DEF HandlerWrites
<1>10. QED
  BY <1>1, <1>2, <1>3, <1>4, <1>9 DEF TypeInv, Asks

LEMMA NextTypes == TypeInv /\ [Next]_vars => TypeInv'
<1> SUFFICES ASSUME TypeInv, [Next]_vars PROVE TypeInv'
  OBVIOUS
<1>1. CASE UNCHANGED vars
  BY <1>1, StaysOK DEF vars, world, tables, TypeInv
<1>2. CASE \/ \E s \in Subs : Judge(s) \/ EnqueueResult(s) \/ Rejudge(s)
           \/ \E e \in Entries : Disqualify(e)
  BY <1>2, WorldTypes
<1>3. CASE \E b \in Bridges : BridgeStep(b) \/ BridgeFault(b)
  BY <1>3, ReadTypes, IncrementalTypes, FullTypes, BoardsTypesStep, FaultTypes DEF BridgeStep
<1>4. CASE \E h \in Handlers :
             \/ \E s \in Subs : ResetOtherFinals(h, s)
             \/ MarkFinal(h) \/ EmitFinal(h)
             \/ \E p \in Phases : TaskPhaseBoard(h, p)
             \/ ContestPhaseBoard(h) \/ GlobalPhaseRanking(h) \/ HandlerWrites(h)
  BY <1>4, FinalTypes, HandlerTypes DEF Asks
<1>5. QED
  BY <1>1, <1>2, <1>3, <1>4 DEF Next

LEMMA TypesHold == Spec => []TypeInv
BY InitTypes, NextTypes, PTL DEF Spec

\* Every statement of a bridge has the data it needs: a message in hand, a
\* submission once one is chosen, rows of the table it writes; and no query
\* leaves a row that lacks a column.
THEOREM BoardsTypes == Spec => []TypeOK
BY TypesHold, TypesFollow, PTL
-----------------------------------------------------------------------------
(***************************************************************************)
(* A task board names the entry's own submissions.  A statement may end    *)
(* long after the query it writes the result of: the rows in hand keep     *)
(* naming candidates, for without a new judging a submission that is done  *)
(* stays done.                                                             *)
(***************************************************************************)
Named(p, rows) == \A e \in DOMAIN rows : rows[e].chosen \in Candidates(p, e)
BoardOwn ==
  \A p \in Phases, e \in Entries : board[p][e].rank # 0 => board[p][e].chosen \in Candidates(p, e)
BridgeOwn(x) ==
  LET p == PhaseOf[Head(x.batch)]
      e == EntryOf[Head(x.batch)]
  IN  /\ x.pc \in {"zadd", "zrank", "zcard", "update"} => x.best \in Candidates(p, e)
      /\ x.pc = "write_task" => Named(p, x.rows)
RequestOwn(x) == x.pc = "write_task" => Named(x.id, x.rows)
OwnInv ==
  /\ TypeInv /\ BoardOwn
  /\ \A b \in Bridges : BridgeOwn(bridge[b])
  /\ \A h \in Handlers : RequestOwn(req[h])

LEMMA OwnFollows == OwnInv => ChosenIsOwn
<1> SUFFICES ASSUME OwnInv, NEW p \in Phases, NEW e \in Entries, board[p][e].rank # 0
    PROVE  /\ board[p][e].chosen \in Subs
           /\ EntryOf[board[p][e].chosen] = e /\ PhaseOf[board[p][e].chosen] = p
           /\ sub[board[p][e].chosen].status = "done"
  BY DEF ChosenIsOwn
<1>1. board[p][e].chosen \in Candidates(p, e)
  BY DEF OwnInv, BoardOwn
<1>2. QED
  BY <1>1 DEF Candidates

LEMMA InitOwn == Init => OwnInv
<1> SUFFICES ASSUME Init PROVE OwnInv
  OBVIOUS
<1>1. BoardOwn
  BY DEF Init, BoardOwn, NoRow
<1>2. \A b \in Bridges : BridgeOwn(bridge[b])
  BY DEF Init, Fresh, BridgeOwn
<1>3. \A h \in Handlers : RequestOwn(req[h])
  BY DEF Init, Idle, RequestOwn
<1>4. QED
  BY <1>1, <1>2, <1>3, InitTypes DEF OwnInv

\* Without a new judging no query loses a candidate.
LEMMA CandidatesGrow ==
  ASSUME TypeInv, [Next]_vars, "rejudge" \notin Requests
  PROVE  \A p, e, s : s \in Candidates(p, e) => s \in Candidates(p, e)'
<1>1. ASSUME NEW s \in Subs, sub[s].status = "done" PROVE sub'[s].status = "done"
  <2>1. sub \in [Subs -> SubRow]
    BY DEF TypeInv, WorldOK, SubTyped
  <2>2. CASE UNCHANGED sub
    BY <1>1, <2>2
  <2>3. ASSUME NEW t \in Subs, Judge(t) PROVE sub'[s].status = "done"
    <3>1. t # s
      BY <1>1, <2>3 DEF Judge
    <3>2. sub'[s] = sub[s]
      BY <2>1, <2>3, <3>1 DEF Judge
    <3>3. QED
      BY <1>1, <3>2
  <2>4. ASSUME NEW h \in Handlers, NEW t \in Subs, ResetOtherFinals(h, t)
        PROVE  sub'[s].status = "done"
    <3>1. sub'[s] = sub[s] \/ sub'[s] = [sub[s] EXCEPT !.final = FALSE]
      BY <2>4 DEF ResetOtherFinals
    <3>2. QED
      BY <1>1, <2>1, <3>1 DEF SubRow
  <2>5. ASSUME NEW h \in Handlers, MarkFinal(h) PROVE sub'[s].status = "done"
    <3>1. sub' = [sub EXCEPT ![req[h].id].final = TRUE]
      BY <2>5 DEF MarkFinal
    <3>2. sub'[s] = sub[s] \/ sub'[s] = [sub[s] EXCEPT !.final = TRUE]
      BY <2>1, <3>1
    <3>3. QED
      BY <1>1, <2>1, <3>2 DEF SubRow
  <2>6. ASSUME ~UNCHANGED sub
        PROVE  \/ \E t \in Subs : Judge(t)
               \/ \E h \in Handlers, t \in Subs : ResetOtherFinals(h, t)
               \/ \E h \in Handlers : MarkFinal(h)
    <3>1. \/ \E t \in Subs : Judge(t)
          \/ \E h \in Handlers, t \in Subs : ResetOtherFinals(h, t)
          \/ \E h \in Handlers : MarkFinal(h)
          \/ \E t \in Subs : EnqueueResult(t) \/ Rejudge(t)
          \/ \E e \in Entries : Disqualify(e)
          \/ \E b \in Bridges : BridgeStep(b) \/ BridgeFault(b)
          \/ \E h \in Handlers : EmitFinal(h) \/ Asks(h) \/ HandlerWrites(h)
          \/ UNCHANGED vars
      BY DEF Next, Asks
    <3>2. ASSUME NEW t \in Subs, EnqueueResult(t) \/ Rejudge(t) PROVE UNCHANGED sub
      BY <3>2 DEF EnqueueResult, Rejudge
    <3>3. ASSUME NEW e \in Entries, Disqualify(e) PROVE UNCHANGED sub
      BY <3>3 DEF Disqualify
    <3>4. ASSUME NEW b \in Bridges, BridgeStep(b) \/ BridgeFault(b) PROVE UNCHANGED sub
      <4>1. UNCHANGED world
        BY <3>4 DEF BridgeStep, ReadResults, Incremental, GetMaxScore, GetBestSubmission,
             UpdateScore, RevRank, ZCard, UpdateSingleEntry, Full, FullRecomputeTaskPhase,
             WriteTaskRows, SeedRead, SeedPhase, BoardsStep, RecomputeContestPhase,
             WriteContestRows, RecomputeGlobalPhase, WriteGlobalRows, DeleteStaleRankings,
             Compute, BridgeFault, IncrementalFails, FullFails, BoardFails, ReadFails, Restart
      <4>2. QED
        BY <4>1 DEF world
    <3>5. ASSUME NEW h \in Handlers, EmitFinal(h) \/ Asks(h) \/ HandlerWrites(h)
          PROVE  UNCHANGED sub
      BY <3>5 DEF EmitFinal, Asks, TaskPhaseBoard, ContestPhaseBoard, GlobalPhaseRanking,
                  Request, HandlerWrites, world
    <3>6. QED
      BY <2>6, <3>1, <3>2, <3>3, <3>4, <3>5 DEF vars
  <2>7. QED
    BY <2>2, <2>3, <2>4, <2>5, <2>6
<1>2. QED
  BY <1>1 DEF Candidates
-----------------------------------------------------------------------------
\* What is in hand and what is on the board stays right while candidates are
\* only added.
LEMMA OwnStays ==
  ASSUME OwnInv, TypeInv', \A p, e, s : s \in Candidates(p, e) => s \in Candidates(p, e)'
  PROVE  /\ UNCHANGED board => BoardOwn'
         /\ \A b \in Bridges : bridge'[b] = bridge[b] => BridgeOwn(bridge[b])'
         /\ \A h \in Handlers : req'[h] = req[h] => RequestOwn(req[h])'
<1>1. UNCHANGED board => BoardOwn'
  BY DEF OwnInv, BoardOwn
<1>2. ASSUME NEW b \in Bridges, bridge'[b] = bridge[b] PROVE BridgeOwn(bridge[b])'
  BY <1>2 DEF OwnInv, BridgeOwn, Named
<1>3. ASSUME NEW h \in Handlers, req'[h] = req[h] PROVE RequestOwn(req[h])'
  BY <1>3 DEF OwnInv, RequestOwn, Named
<1>4. QED
  BY <1>1, <1>2, <1>3

\* A step that leaves the rows and what is in hand alone.
LEMMA OwnUntouched ==
  ASSUME OwnInv, TypeInv', \A p, e, s : s \in Candidates(p, e) => s \in Candidates(p, e)',
         UNCHANGED <<board, bridge, req>>
  PROVE  OwnInv'
<1>1. BoardOwn' /\ (\A b \in Bridges : BridgeOwn(bridge[b])') /\ (\A h \in Handlers : RequestOwn(req[h])')
  BY OwnStays
<1>2. QED
  BY <1>1 DEF OwnInv

LEMMA UpsertOwn ==
  ASSUME NEW p \in Phases, NEW table \in [Entries -> TaskRow], NEW rows, TaskRows(rows),
         \A e \in Entries : table[e].rank # 0 => table[e].chosen \in Candidates(p, e),
         Named(p, rows)
  PROVE  \A e \in Entries : Upsert(table, rows)[e].rank # 0 =>
                            Upsert(table, rows)[e].chosen \in Candidates(p, e)
BY UpsertTyped DEF Named

\* A write of task rows.
LEMMA RowsWrittenOwn ==
  ASSUME OwnInv, \A p, e, s : s \in Candidates(p, e) => s \in Candidates(p, e)',
         NEW p \in Phases, NEW rows, TaskRows(rows), Named(p, rows),
         board' = [board EXCEPT ![p] = Upsert(@, rows)]
  PROVE  BoardOwn'
<1>1. board \in [Phases -> [Entries -> TaskRow]]
  BY DEF OwnInv, TypeInv, TablesOK
<1>2. \A e \in Entries : board[p][e].rank # 0 => board[p][e].chosen \in Candidates(p, e)
  BY DEF OwnInv, BoardOwn
<1>3. PICK table \in [Entries -> TaskRow] : table = board[p]
  BY <1>1
<1>4. \A e \in Entries : Upsert(table, rows)[e].rank # 0 =>
                         Upsert(table, rows)[e].chosen \in Candidates(p, e)
  BY <1>2, <1>3, UpsertOwn
<1>5. board'[p] = Upsert(table, rows) /\ \A q \in Phases \ {p} : board'[q] = board[q]
  BY <1>1, <1>3
<1>6. ASSUME NEW q \in Phases, NEW e \in Entries, board'[q][e].rank # 0
      PROVE  board'[q][e].chosen \in Candidates(q, e)
  BY <1>4, <1>5, <1>6 DEF OwnInv, BoardOwn
<1>7. QED
  BY <1>6 DEF BoardOwn

\* One bridge moves.
LEMMA BridgeMovesOwn ==
  ASSUME OwnInv, TypeInv', \A p, e, s : s \in Candidates(p, e) => s \in Candidates(p, e)',
         NEW b \in Bridges, UNCHANGED req,
         NEW x, bridge' = [bridge EXCEPT ![b] = x], BridgeOwn(x)
  PROVE  BoardOwn' => OwnInv'
<1>1. bridge'[b] = x /\ \A c \in Bridges \ {b} : bridge'[c] = bridge[c]
  BY BridgeMoves DEF OwnInv, TypeInv
<1>2. BridgeOwn(bridge[b])'
  BY <1>1 DEF BridgeOwn, Named
<1>3. \A c \in Bridges \ {b} : BridgeOwn(bridge[c])'
  BY <1>1, OwnStays
<1>4. \A h \in Handlers : RequestOwn(req[h])'
  BY OwnStays
<1>5. QED
  BY <1>2, <1>3, <1>4 DEF OwnInv

LEMMA BridgeOwnStep ==
  ASSUME OwnInv, TypeInv', \A p, e, s : s \in Candidates(p, e) => s \in Candidates(p, e)',
         NEW b \in Bridges, BridgeStep(b) \/ BridgeFault(b)
  PROVE  OwnInv'
<1>0. /\ TypeInv /\ BridgesOK /\ BridgeOK(bridge[b]) /\ BridgeOwn(bridge[b])
      /\ SubTyped
  BY DEF OwnInv, TypeInv, WorldOK, BridgesOK
<1>1. UNCHANGED req
  BY DEF BridgeStep, ReadResults, Incremental, GetMaxScore, GetBestSubmission,
     UpdateScore, RevRank, ZCard, UpdateSingleEntry, Full, FullRecomputeTaskPhase,
     WriteTaskRows, SeedRead, SeedPhase, BoardsStep, RecomputeContestPhase,
     WriteContestRows, RecomputeGlobalPhase, WriteGlobalRows, DeleteStaleRankings,
     Compute, BridgeFault, IncrementalFails, FullFails, BoardFails, ReadFails, Restart
\* A bridge with nothing chosen and no task rows in hand.
<1>2. ASSUME NEW x, bridge' = [bridge EXCEPT ![b] = x], UNCHANGED board,
             x.pc \notin {"zadd", "zrank", "zcard", "update", "write_task"}
      PROVE  OwnInv'
  <2>1. BridgeOwn(x)
    BY <1>2 DEF BridgeOwn
  <2>2. QED
    BY <1>1, <1>2, <2>1, BridgeMovesOwn, OwnStays
<1>3. ASSUME NEW pc \in BridgePC \ {"zadd", "zrank", "zcard", "update", "write_task"},
             Goto(b, pc) \/ Written(b, pc), UNCHANGED board
      PROVE  OwnInv'
  <2>1. DOMAIN bridge[b] = {"pc", "batch", "max", "best", "score", "rank", "card", "rows"}
    BY <1>0 DEF BridgeOK
  <2>2. /\ [bridge[b] EXCEPT !.pc = pc].pc = pc
        /\ [bridge[b] EXCEPT !.pc = pc, !.rows = <<>>].pc = pc
    BY <2>1
  <2>3. \/ bridge' = [bridge EXCEPT ![b] = [bridge[b] EXCEPT !.pc = pc]]
        \/ bridge' = [bridge EXCEPT ![b] = [bridge[b] EXCEPT !.pc = pc, !.rows = <<>>]]
    BY <1>0, <1>3, GotoWay, WrittenWay
  <2>4. QED
    BY <1>2, <1>3, <2>2, <2>3
<1>4. ASSUME NextMessage(b), UNCHANGED board PROVE OwnInv'
  <2> DEFINE rest == Tail(bridge[b].batch)
             x == [Fresh EXCEPT !.batch = rest, !.pc = IF rest = <<>> THEN "idle" ELSE "max"]
  <2>1. bridge' = [bridge EXCEPT ![b] = x]
    BY <1>4 DEF NextMessage
  <2>2. x.pc \in {"idle", "max"}
    BY DEF Fresh
  <2> HIDE DEF x
  <2>3. QED
    BY <1>2, <1>4, <2>1, <2>2
<1>5. ASSUME NEW rows, NEW pc, NEW next \in {"seed", "write_contest", "write_global"},
             Compute(b, pc, rows, next)
      PROVE  OwnInv'
  <2>1. DOMAIN bridge[b] = {"pc", "batch", "max", "best", "score", "rank", "card", "rows"}
    BY <1>0 DEF BridgeOK
  <2> DEFINE x == [bridge[b] EXCEPT !.pc = next, !.rows = rows]
  <2>2. x.pc = next
    BY <2>1
  <2>3. bridge' = [bridge EXCEPT ![b] = x]
    BY <1>0, <1>5, ComputeWay
  <2> HIDE DEF x
  <2>4. UNCHANGED board
    BY <1>5 DEF Compute, tables
  <2>5. QED
    BY <1>2, <2>2, <2>3, <2>4
<1>6. ASSUME ReadResults(b) PROVE OwnInv'
  <2>1. PICK n : bridge' = [bridge EXCEPT ![b].batch = SubSeq(results, 1, n), ![b].pc = "max"]
    BY <1>6 DEF ReadResults
  <2> DEFINE y == SubSeq(results, 1, n)
             x == [bridge[b] EXCEPT !.batch = y, !.pc = "max"]
  <2>2. bridge' = [bridge EXCEPT ![b] = x]
    BY <1>0, <2>1 DEF BridgesOK
  <2> HIDE DEF y
  <2>3. x.pc = "max"
    BY <1>0 DEF BridgeOK
  <2> HIDE DEF x
  <2>4. UNCHANGED board
    BY <1>6 DEF ReadResults, tables
  <2>5. QED
    BY <1>2, <2>2, <2>3, <2>4
<1>7. ASSUME GetMaxScore(b) PROVE OwnInv'
  <2>1. PICK m : bridge' = [bridge EXCEPT ![b].pc = "best", ![b].max = m]
    BY <1>7 DEF GetMaxScore
  <2> DEFINE x == [bridge[b] EXCEPT !.pc = "best", !.max = m]
  <2>2. bridge' = [bridge EXCEPT ![b] = x]
    BY <1>0, <2>1 DEF BridgesOK
  <2>3. x.pc = "best"
    BY <1>0 DEF BridgeOK
  <2> HIDE DEF x
  <2>4. UNCHANGED board
    BY <1>7 DEF GetMaxScore, tables
  <2>5. QED
    BY <1>2, <2>2, <2>3, <2>4
<1>8. ASSUME GetBestSubmission(b) PROVE OwnInv'
  <2> DEFINE all == Candidates(Phase(b), Entry(b))
             s == FirstBy(IncrementalKey, all)
  <2>0. UNCHANGED board
    BY <1>8 DEF GetBestSubmission, tables
  <2>1. \/ Goto(b, "full")
        \/ all # {} /\ bridge' = [bridge EXCEPT ![b].pc = "zadd", ![b].best = s,
                                                ![b].score = sub[s].score]
    BY <1>8 DEF GetBestSubmission
  <2>2. CASE Goto(b, "full")
    BY <1>3, <2>0, <2>2 DEF BridgePC
  <2>3. CASE all # {} /\ bridge' = [bridge EXCEPT ![b].pc = "zadd", ![b].best = s,
                                                  ![b].score = sub[s].score]
    <3>1. s \in all
      BY <1>0, <2>3, CandidatesTyped, FirstFound
    <3>2. all = Candidates(PhaseOf[Head(bridge[b].batch)], EntryOf[Head(bridge[b].batch)])
      BY DEF Phase, Entry
    <3> HIDE DEF s, all
    <3> DEFINE k == sub[s].score
               x == [bridge[b] EXCEPT !.pc = "zadd", !.best = s, !.score = k]
    <3>3. bridge' = [bridge EXCEPT ![b] = x]
      BY <1>0, <2>3 DEF BridgesOK
    <3> HIDE DEF k
    <3>4. x.pc = "zadd" /\ x.best = s /\ x.batch = bridge[b].batch
      BY <1>0 DEF BridgeOK
    <3>5. BridgeOwn(x)
      BY <3>1, <3>2, <3>4 DEF BridgeOwn
    <3> HIDE DEF x
    <3>6. QED
      BY <1>1, <2>0, <3>3, <3>5, BridgeMovesOwn, OwnStays
  <2>4. QED
    BY <2>1, <2>2, <2>3
\* The submission in hand is passed on.
<1>9. ASSUME NEW x, bridge' = [bridge EXCEPT ![b] = x], UNCHANGED board,
             x.batch = bridge[b].batch, x.best = bridge[b].best,
             x.pc \in {"zrank", "zcard", "update"}, bridge[b].pc \in {"zadd", "zrank", "zcard"}
      PROVE  OwnInv'
  <2>1. BridgeOwn(x)
    BY <1>0, <1>9 DEF BridgeOwn
  <2>2. QED
    BY <1>1, <1>9, <2>1, BridgeMovesOwn, OwnStays
<1>10. ASSUME UpdateScore(b) PROVE OwnInv'
  <2> DEFINE x == [bridge[b] EXCEPT !.pc = "zrank"]
  <2>1. bridge' = [bridge EXCEPT ![b] = x]
    BY <1>0, <1>10, GotoWay DEF UpdateScore
  <2>2. x.pc = "zrank" /\ x.best = bridge[b].best /\ x.batch = bridge[b].batch
    BY <1>0 DEF BridgeOK
  <2> HIDE DEF x
  <2>3. UNCHANGED board /\ bridge[b].pc = "zadd"
    BY <1>10 DEF UpdateScore, tables
  <2>4. QED
    BY <1>9, <2>1, <2>2, <2>3
<1>11. ASSUME RevRank(b) PROVE OwnInv'
  <2>1. PICK n : bridge' = [bridge EXCEPT ![b].pc = "zcard", ![b].rank = n]
    BY <1>11 DEF RevRank
  <2> DEFINE x == [bridge[b] EXCEPT !.pc = "zcard", !.rank = n]
  <2>2. bridge' = [bridge EXCEPT ![b] = x]
    BY <1>0, <2>1 DEF BridgesOK
  <2>3. x.pc = "zcard" /\ x.best = bridge[b].best /\ x.batch = bridge[b].batch
    BY <1>0 DEF BridgeOK
  <2> HIDE DEF x
  <2>4. UNCHANGED board /\ bridge[b].pc = "zrank"
    BY <1>11 DEF RevRank, tables
  <2>5. QED
    BY <1>9, <2>2, <2>3, <2>4
<1>12. ASSUME ZCard(b) PROVE OwnInv'
  <2>1. PICK n : bridge' = [bridge EXCEPT ![b].pc = "update", ![b].card = n]
    BY <1>12 DEF ZCard
  <2> DEFINE x == [bridge[b] EXCEPT !.pc = "update", !.card = n]
  <2>2. bridge' = [bridge EXCEPT ![b] = x]
    BY <1>0, <2>1 DEF BridgesOK
  <2>3. x.pc = "update" /\ x.best = bridge[b].best /\ x.batch = bridge[b].batch
    BY <1>0 DEF BridgeOK
  <2> HIDE DEF x
  <2>4. UNCHANGED board /\ bridge[b].pc = "zcard"
    BY <1>12 DEF ZCard, tables
  <2>5. QED
    BY <1>9, <2>2, <2>3, <2>4
<1>13. ASSUME UpdateSingleEntry(b) PROVE OwnInv'
  <2>0. Phase(b) \in Phases /\ Entry(b) \in Entries
    BY <1>0, <1>13, InHand DEF UpdateSingleEntry
  <2>1. bridge[b].best \in Candidates(Phase(b), Entry(b))
    BY <1>0, <1>13 DEF UpdateSingleEntry, BridgeOwn, Phase, Entry
  <2>2. board \in [Phases -> [Entries -> TaskRow]]
    BY <1>0 DEF TypeInv, TablesOK
  <2> DEFINE r == board[Phase(b)][Entry(b)]
             w == [r EXCEPT !.rank = bridge[b].rank, !.score = bridge[b].score,
                            !.raw = bridge[b].score, !.chosen = bridge[b].best,
                            !.count = bridge[b].card]
  <2>3. board' = board \/ board' = [board EXCEPT ![Phase(b)][Entry(b)] = w]
    BY <1>13 DEF UpdateSingleEntry
  <2>4. w.chosen = bridge[b].best
    <3>1. r \in TaskRow
      BY <2>0, <2>2
    <3> HIDE DEF r
    <3>2. QED
      BY <3>1 DEF TaskRow
  <2> HIDE DEF w
  <2>5. ASSUME NEW p \in Phases, NEW e \in Entries, board'[p][e].rank # 0
        PROVE  board'[p][e].chosen \in Candidates(p, e)
    <3>1. \/ board'[p][e] = board[p][e]
          \/ p = Phase(b) /\ e = Entry(b) /\ board'[p][e] = w
      BY <2>0, <2>2, <2>3
    <3>2. QED
      BY <2>1, <2>4, <2>5, <3>1 DEF OwnInv, BoardOwn
  <2>6. BoardOwn'
    BY <2>5 DEF BoardOwn
  <2> DEFINE x == [bridge[b] EXCEPT !.pc = "contest"]
  <2>7. bridge' = [bridge EXCEPT ![b] = x]
    BY <1>0, <1>13, GotoWay DEF UpdateSingleEntry
  <2>8. x.pc = "contest"
    BY <1>0 DEF BridgeOK
  <2>9. BridgeOwn(x)
    BY <2>8 DEF BridgeOwn
  <2> HIDE DEF x
  <2>10. QED
    BY <1>1, <2>6, <2>7, <2>9, BridgeMovesOwn
<1>14. ASSUME FullRecomputeTaskPhase(b) PROVE OwnInv'
  <2> DEFINE rows == BridgeTaskRows(Phase(b))
             x == [bridge[b] EXCEPT !.pc = "write_task", !.rows = rows]
  <2>1. Named(Phase(b), rows)
    BY <1>0, BridgeRows DEF Named
  <2>2. Compute(b, "full", rows, "write_task")
    BY <1>14 DEF FullRecomputeTaskPhase
  <2> HIDE DEF rows
  <2>3. bridge' = [bridge EXCEPT ![b] = x]
    BY <1>0, <2>2, ComputeWay
  <2>4. x.pc = "write_task" /\ x.rows = rows /\ x.batch = bridge[b].batch
    BY <1>0 DEF BridgeOK
  <2>5. BridgeOwn(x)
    BY <2>1, <2>4 DEF BridgeOwn, Phase
  <2> HIDE DEF x
  <2>6. UNCHANGED board
    BY <2>2 DEF Compute, tables
  <2>7. QED
    BY <1>1, <2>3, <2>5, <2>6, BridgeMovesOwn, OwnStays
<1>15. ASSUME WriteTaskRows(b) PROVE OwnInv'
  <2>1. Phase(b) \in Phases /\ TaskRows(bridge[b].rows)
    BY <1>0, <1>15, InHand DEF WriteTaskRows, BridgeOK
  <2>2. Named(Phase(b), bridge[b].rows)
    BY <1>0, <1>15 DEF WriteTaskRows, BridgeOwn, Phase
  <2>3. board' = [board EXCEPT ![Phase(b)] = Upsert(@, bridge[b].rows)]
    BY <1>15 DEF WriteTaskRows
  <2>4. BoardOwn'
    BY <2>1, <2>2, <2>3, RowsWrittenOwn
  <2> DEFINE x == [bridge[b] EXCEPT !.pc = "seed_read", !.rows = <<>>]
  <2>5. bridge' = [bridge EXCEPT ![b] = x]
    BY <1>0, <1>15, WrittenWay DEF WriteTaskRows
  <2>6. x.pc = "seed_read"
    BY <1>0 DEF BridgeOK
  <2>7. BridgeOwn(x)
    BY <2>6 DEF BridgeOwn
  <2> HIDE DEF x
  <2>8. QED
    BY <1>1, <2>4, <2>5, <2>7, BridgeMovesOwn
<1>16. ASSUME SeedRead(b) \/ SeedPhase(b) PROVE OwnInv'
  BY <1>3, <1>5, <1>16 DEF SeedRead, SeedPhase, BridgePC, BoardPC, tables
<1>17. ASSUME BoardsStep(b) PROVE OwnInv'
  BY <1>3, <1>4, <1>5, <1>17 DEF BoardsStep, RecomputeContestPhase, WriteContestRows,
     RecomputeGlobalPhase, WriteGlobalRows, DeleteStaleRankings, BridgePC, BoardPC
<1>18. ASSUME BridgeFault(b), ~Restart(b) PROVE OwnInv'
  BY <1>3, <1>4, <1>18 DEF BridgeFault, IncrementalFails, FullFails, BoardFails, ReadFails,
     BridgePC, BoardPC, tables
<1>19. ASSUME Restart(b) PROVE OwnInv'
  <2>1. Fresh.pc = "idle"
    BY DEF Fresh
  <2>2. QED
    BY <1>2, <1>19, <2>1 DEF Restart, tables
<1>20. QED
  BY <1>6, <1>7, <1>8, <1>10, <1>11, <1>12, <1>13, <1>14, <1>15, <1>16, <1>17, <1>18, <1>19
     DEF BridgeStep, Incremental, Full
-----------------------------------------------------------------------------
LEMMA RequestOwnStep ==
  ASSUME OwnInv, TypeInv', \A p, e, s : s \in Candidates(p, e) => s \in Candidates(p, e)',
         NEW h \in Handlers,
         \/ \E s \in Subs : ResetOtherFinals(h, s)
         \/ MarkFinal(h) \/ EmitFinal(h) \/ Asks(h) \/ HandlerWrites(h)
  PROVE  OwnInv'
<1>0. /\ TypeInv /\ RequestsOK /\ RequestOK(req[h]) /\ RequestOwn(req[h]) /\ SubTyped
      /\ board \in [Phases -> [Entries -> TaskRow]]
  BY DEF OwnInv, TypeInv, WorldOK, TablesOK, RequestsOK
<1>1. UNCHANGED bridge
  BY DEF ResetOtherFinals, MarkFinal, EmitFinal, Asks, TaskPhaseBoard, ContestPhaseBoard,
         GlobalPhaseRanking, Request, HandlerWrites
<1>2. ASSUME NEW x, req' = [req EXCEPT ![h] = x], BoardOwn', RequestOwn(x) PROVE OwnInv'
  <2>1. req'[h] = x /\ \A g \in Handlers \ {h} : req'[g] = req[g]
    BY <1>0, <1>2, RequestMoves
  <2>2. RequestOwn(req[h])'
    BY <1>2, <2>1 DEF RequestOwn, Named
  <2>3. \A g \in Handlers \ {h} : RequestOwn(req[g])'
    BY <2>1, OwnStays
  <2>4. \A b \in Bridges : BridgeOwn(bridge[b])'
    BY <1>1, OwnStays
  <2>5. QED
    BY <1>2, <2>2, <2>3, <2>4 DEF OwnInv
<1>3. ASSUME NEW x, req' = [req EXCEPT ![h] = x], x.pc # "write_task", BoardOwn' PROVE OwnInv'
  BY <1>2, <1>3 DEF RequestOwn
<1>4. Idle.pc # "write_task"
  BY DEF Idle
<1>5. ASSUME NEW s \in Subs, ResetOtherFinals(h, s) PROVE OwnInv'
  <2> DEFINE x == [Idle EXCEPT !.pc = "mark", !.id = s]
  <2>1. req' = [req EXCEPT ![h] = x] /\ UNCHANGED board
    BY <1>5 DEF ResetOtherFinals, tables
  <2>2. x.pc # "write_task"
    BY DEF Idle
  <2> HIDE DEF x
  <2>3. QED
    BY <1>3, <2>1, <2>2, OwnStays
<1>6. ASSUME MarkFinal(h) PROVE OwnInv'
  <2> DEFINE x == [req[h] EXCEPT !.pc = "emit"]
  <2>1. req' = [req EXCEPT ![h] = x] /\ UNCHANGED board
    BY <1>6 DEF MarkFinal, tables
  <2>2. x.pc # "write_task"
    BY <1>0 DEF RequestOK
  <2> HIDE DEF x
  <2>3. QED
    BY <1>3, <2>1, <2>2, OwnStays
<1>7. ASSUME EmitFinal(h) PROVE OwnInv'
  BY <1>3, <1>4, <1>7, OwnStays DEF EmitFinal, tables
<1>8. ASSUME NEW p \in Phases, TaskPhaseBoard(h, p) PROVE OwnInv'
  <2> DEFINE rows == HandlerTaskRows(p)
             x == [pc |-> "write_task", id |-> p, rows |-> rows]
  <2>1. req' = [req EXCEPT ![h] = x] /\ UNCHANGED board
    BY <1>8 DEF TaskPhaseBoard, Request, tables
  <2>2. Named(p, rows)
    BY <1>0, HandlerRows DEF Named
  <2> HIDE DEF rows
  <2>3. RequestOwn(x)
    BY <2>2 DEF RequestOwn
  <2> HIDE DEF x
  <2>4. QED
    BY <1>2, <2>1, <2>3, OwnStays
<1>9. ASSUME ContestPhaseBoard(h) PROVE OwnInv'
  <2> DEFINE x == [pc |-> "write_contest", id |-> 0, rows |-> HandlerContestRows]
  <2>1. req' = [req EXCEPT ![h] = x] /\ UNCHANGED board
    BY <1>9 DEF ContestPhaseBoard, Request, tables
  <2>2. x.pc # "write_task"
    OBVIOUS
  <2> HIDE DEF x
  <2>3. QED
    BY <1>3, <2>1, <2>2, OwnStays
<1>10. ASSUME GlobalPhaseRanking(h) PROVE OwnInv'
  <2> DEFINE x == [pc |-> "write_global", id |-> 0, rows |-> GlobalRows]
  <2>1. req' = [req EXCEPT ![h] = x] /\ UNCHANGED board
    BY <1>10 DEF GlobalPhaseRanking, Request, tables
  <2>2. x.pc # "write_task"
    OBVIOUS
  <2> HIDE DEF x
  <2>3. QED
    BY <1>3, <2>1, <2>2, OwnStays
<1>11. ASSUME req[h].pc = "write_task",
              board' = [board EXCEPT ![req[h].id] = Upsert(@, req[h].rows)],
              req' = [req EXCEPT ![h] = Idle]
       PROVE  OwnInv'
  <2>1. req[h].id \in Phases /\ TaskRows(req[h].rows)
    BY <1>0, <1>11 DEF RequestOK
  <2>2. Named(req[h].id, req[h].rows)
    BY <1>0, <1>11 DEF RequestOwn
  <2>3. BoardOwn'
    BY <1>11, <2>1, <2>2, RowsWrittenOwn
  <2>4. QED
    BY <1>3, <1>4, <1>11, <2>3
<1>12. ASSUME req' = [req EXCEPT ![h].pc = "stale", ![h].rows = <<>>], UNCHANGED board
       PROVE  OwnInv'
  <2> DEFINE x == [req[h] EXCEPT !.pc = "stale", !.rows = <<>>]
  <2>1. req' = [req EXCEPT ![h] = x]
    BY <1>0, <1>12 DEF RequestsOK
  <2>2. x.pc # "write_task"
    BY <1>0 DEF RequestOK
  <2> HIDE DEF x
  <2>3. QED
    BY <1>3, <1>12, <2>1, <2>2, OwnStays
<1>13. ASSUME req' = [req EXCEPT ![h] = Idle], UNCHANGED board PROVE OwnInv'
  BY <1>3, <1>4, <1>13, OwnStays
<1>14. ASSUME HandlerWrites(h) PROVE OwnInv'
  BY <1>11, <1>12, <1>13, <1>14 DEF HandlerWrites
<1>15. QED
  BY <1>5, <1>6, <1>7, <1>8, <1>9, <1>10, <1>14 DEF Asks

LEMMA NextOwn ==
  ASSUME "rejudge" \notin Requests
  PROVE  OwnInv /\ [Next]_vars => OwnInv'
<1> SUFFICES ASSUME OwnInv, [Next]_vars PROVE OwnInv'
  OBVIOUS
<1>1. TypeInv /\ TypeInv'
  BY NextTypes DEF OwnInv
<1>2. \A p, e, s : s \in Candidates(p, e) => s \in Candidates(p, e)'
  BY <1>1, CandidatesGrow
<1>3. CASE UNCHANGED vars
  BY <1>1, <1>2, <1>3, OwnUntouched DEF vars, tables
<1>4. ASSUME NEW s \in Subs, Judge(s) \/ EnqueueResult(s) \/ Rejudge(s) PROVE OwnInv'
  BY <1>1, <1>2, <1>4, OwnUntouched DEF Judge, EnqueueResult, Rejudge, tables
<1>5. ASSUME NEW e \in Entries, Disqualify(e) PROVE OwnInv'
  BY <1>1, <1>2, <1>5, OwnUntouched DEF Disqualify, tables
<1>6. ASSUME NEW b \in Bridges, BridgeStep(b) \/ BridgeFault(b) PROVE OwnInv'
  BY <1>1, <1>2, <1>6, BridgeOwnStep
<1>7. ASSUME NEW h \in Handlers,
             \/ \E s \in Subs : ResetOtherFinals(h, s)
             \/ MarkFinal(h) \/ EmitFinal(h) \/ Asks(h) \/ HandlerWrites(h)
      PROVE  OwnInv'
  BY <1>1, <1>2, <1>7, RequestOwnStep
<1>8. QED
  BY <1>3, <1>4, <1>5, <1>6, <1>7 DEF Next, Asks

\* Whatever fails and however the bridges and the handlers interleave, a row of
\* a task board names a submission of that entry in that phase, judged and done:
\* the statements of three code paths write such rows long after they read the
\* submissions.  A submission that may be judged anew is left out: the row keeps
\* naming it while it is queued again.
THEOREM RowsNameOwnSubmissions ==
  ASSUME "rejudge" \notin Requests
  PROVE  Spec => []ChosenIsOwn
BY InitOwn, NextOwn, OwnFollows, PTL DEF Spec
-----------------------------------------------------------------------------
(***************************************************************************)
(* The contest board and the ranking follow the submissions.  One bridge   *)
(* consumes the results, no announcement is lost, no recomputation of the  *)
(* two boards fails.  Then every change of a submission is followed by a   *)
(* message, and every message by a recomputation: as long as one is still  *)
(* awaited nothing is claimed, and afterwards what is in hand, and then    *)
(* the table, is what the query would answer now.                          *)
(***************************************************************************)
BeforeContest == IncrementalPC \cup {"full", "write_task", "seed_read", "seed", "contest"}

\* A result that no bridge has read.
Unread ==
  \/ announcing # {} \/ results # <<>>
  \/ \E h \in Handlers : req[h].pc \in {"mark", "emit"}
Awaited(b) ==
  \/ Unread \/ bridge[b].pc = "stopped"
  \/ bridge[b].batch # <<>> /\ Tail(bridge[b].batch) # <<>>

\* A row, whatever its flag of disqualification: only an insertion sets it.
Agrees(r, x) == [r EXCEPT !.dq = FALSE] = [x EXCEPT !.dq = FALSE]
ContestRight(table) ==
  \A e \in DOMAIN BridgeContestRows : e \in DOMAIN table /\ Agrees(table[e], BridgeContestRows[e])
ContestInv(b) ==
  \/ Awaited(b) \/ bridge[b].pc \in BeforeContest
  \/ bridge[b].pc = "write_contest" /\ ContestRight(bridge[b].rows)
  \/ bridge[b].pc \in {"idle", "global", "write_global", "stale"} /\ ContestRight(cboard)

Listed == Replace([u \in Users |-> NoUserRow], GlobalRows)
RankingInv(b) ==
  \/ Awaited(b) \/ bridge[b].pc \in BeforeContest \cup {"write_contest", "global"}
  \/ bridge[b].pc = "write_global" /\ bridge[b].rows = GlobalRows
  \/ bridge[b].pc = "stale" /\ \A u \in DOMAIN GlobalRows : ranking[u] = GlobalRows[u]
  \/ bridge[b].pc = "idle" /\ ranking = Listed

LEMMA Goes ==
  ASSUME TypeInv, NEW b \in Bridges, NEW pc, Goto(b, pc) \/ Written(b, pc)
  PROVE  bridge'[b].pc = pc /\ bridge'[b].batch = bridge[b].batch
<1>1. BridgesOK /\ DOMAIN bridge[b] = {"pc", "batch", "max", "best", "score", "rank", "card", "rows"}
  BY DEF TypeInv, BridgesOK, BridgeOK
<1> DEFINE x == [bridge[b] EXCEPT !.pc = pc]
           y == [bridge[b] EXCEPT !.pc = pc, !.rows = <<>>]
<1>2. x.pc = pc /\ x.batch = bridge[b].batch /\ y.pc = pc /\ y.batch = bridge[b].batch
  BY <1>1
<1>3. bridge' = [bridge EXCEPT ![b] = x] \/ bridge' = [bridge EXCEPT ![b] = y]
  BY <1>1, GotoWay, WrittenWay
<1> HIDE DEF x, y
<1>4. bridge'[b] = x \/ bridge'[b] = y
  BY <1>1, <1>3 DEF BridgesOK
<1>5. QED
  BY <1>2, <1>4

LEMMA Computes ==
  ASSUME TypeInv, NEW b \in Bridges, NEW pc, NEW rows, NEW next, Compute(b, pc, rows, next)
  PROVE  /\ bridge[b].pc = pc /\ bridge'[b].pc = next
         /\ bridge'[b].batch = bridge[b].batch /\ bridge'[b].rows = rows
<1>1. BridgesOK /\ DOMAIN bridge[b] = {"pc", "batch", "max", "best", "score", "rank", "card", "rows"}
  BY DEF TypeInv, BridgesOK, BridgeOK
<1> DEFINE x == [bridge[b] EXCEPT !.pc = next, !.rows = rows]
<1>2. x.pc = next /\ x.batch = bridge[b].batch /\ x.rows = rows
  BY <1>1
<1>3. bridge' = [bridge EXCEPT ![b] = x]
  BY <1>1, ComputeWay
<1> HIDE DEF x
<1>4. bridge'[b] = x
  BY <1>1, <1>3 DEF BridgesOK
<1>5. QED
  BY <1>2, <1>4 DEF Compute

LEMMA NextTaken ==
  ASSUME TypeInv, NEW b \in Bridges, NextMessage(b)
  PROVE  /\ bridge'[b].pc = IF Tail(bridge[b].batch) = <<>> THEN "idle" ELSE "max"
         /\ bridge'[b].batch = Tail(bridge[b].batch)
BY DEF TypeInv, BridgesOK, NextMessage, Fresh

\* The course of a bridge but for a restart and for a recomputation that fails.
LEMMA BridgeCourse ==
  ASSUME TypeInv, NEW b \in Bridges, BridgeStep(b) \/ BridgeFault(b),
         ~BoardFails(b), ~Restart(b)
  PROVE  LET x == bridge[b]
             y == bridge'[b]
         IN  \/ /\ x.pc \in BeforeContest \ {"contest"} /\ y.pc \in BeforeContest
                /\ y.batch = x.batch /\ UNCHANGED <<cboard, ranking, results>>
             \/ /\ x.pc = "contest" /\ y.pc = "write_contest" /\ y.rows = BridgeContestRows
                /\ y.batch = x.batch /\ UNCHANGED <<cboard, ranking, results>>
             \/ /\ x.pc = "write_contest" /\ y.pc = "global" /\ cboard' = Upsert(cboard, x.rows)
                /\ y.batch = x.batch /\ UNCHANGED <<ranking, results>>
             \/ /\ x.pc = "global" /\ y.pc = "write_global" /\ y.rows = GlobalRows
                /\ y.batch = x.batch /\ UNCHANGED <<cboard, ranking, results>>
             \/ /\ x.pc = "write_global" /\ y.pc = "stale" /\ ranking' = Replace(ranking, x.rows)
                /\ y.batch = x.batch /\ UNCHANGED <<cboard, results>>
             \/ /\ x.pc = "stale" /\ ranking' = WithoutStale
                /\ y.pc = IF Tail(x.batch) = <<>> THEN "idle" ELSE "max"
                /\ UNCHANGED <<cboard, results>>
             \/ /\ x.pc = "idle" /\ y.pc \in {"max", "stopped"}
                /\ UNCHANGED <<cboard, ranking>>
<1> DEFINE x == bridge[b]
           y == bridge'[b]
<1>0. x.pc \in BridgePC /\ b \in DOMAIN bridge
      /\ DOMAIN x = {"pc", "batch", "max", "best", "score", "rank", "card", "rows"}
  BY DEF TypeInv, BridgesOK, BridgeOK
<1> SUFFICES
      \/ /\ x.pc \in BeforeContest \ {"contest"} /\ y.pc \in BeforeContest
         /\ y.batch = x.batch /\ UNCHANGED <<cboard, ranking, results>>
      \/ /\ x.pc = "contest" /\ y.pc = "write_contest" /\ y.rows = BridgeContestRows
         /\ y.batch = x.batch /\ UNCHANGED <<cboard, ranking, results>>
      \/ /\ x.pc = "write_contest" /\ y.pc = "global" /\ cboard' = Upsert(cboard, x.rows)
         /\ y.batch = x.batch /\ UNCHANGED <<ranking, results>>
      \/ /\ x.pc = "global" /\ y.pc = "write_global" /\ y.rows = GlobalRows
         /\ y.batch = x.batch /\ UNCHANGED <<cboard, ranking, results>>
      \/ /\ x.pc = "write_global" /\ y.pc = "stale" /\ ranking' = Replace(ranking, x.rows)
         /\ y.batch = x.batch /\ UNCHANGED <<cboard, results>>
      \/ /\ x.pc = "stale" /\ ranking' = WithoutStale
         /\ y.pc = IF Tail(x.batch) = <<>> THEN "idle" ELSE "max"
         /\ UNCHANGED <<cboard, results>>
      \/ /\ x.pc = "idle" /\ y.pc \in {"max", "stopped"}
         /\ UNCHANGED <<cboard, ranking>>
  OBVIOUS
<1>1. ASSUME ReadResults(b) PROVE x.pc = "idle" /\ y.pc = "max" /\ UNCHANGED <<cboard, ranking>>
  BY <1>0, <1>1 DEF ReadResults, tables
<1>2. ASSUME GetMaxScore(b) PROVE x.pc = "max" /\ y.pc = "best" /\ y.batch = x.batch
                                  /\ UNCHANGED <<cboard, ranking, results>>
  <2>1. PICK m : bridge' = [bridge EXCEPT ![b].pc = "best", ![b].max = m]
    BY <1>2 DEF GetMaxScore
  <2>2. QED
    BY ZenonT(40), <1>0, <1>2, <2>1 DEF GetMaxScore, tables
<1>3. ASSUME GetBestSubmission(b) PROVE x.pc = "best" /\ y.pc \in {"full", "zadd"} /\ y.batch = x.batch
                                        /\ UNCHANGED <<cboard, ranking, results>>
  <2>1. \/ Goto(b, "full")
        \/ \E s, k : bridge' = [bridge EXCEPT ![b].pc = "zadd", ![b].best = s, ![b].score = k]
    BY <1>3 DEF GetBestSubmission
  <2>2. CASE Goto(b, "full")
    BY <1>3, <2>2, Goes DEF GetBestSubmission, tables
  <2>3. ASSUME NEW s, NEW k,
               bridge' = [bridge EXCEPT ![b].pc = "zadd", ![b].best = s, ![b].score = k]
        PROVE  y.pc = "zadd" /\ y.batch = x.batch
    BY <1>0, <2>3
  <2>4. QED
    BY <1>3, <2>1, <2>2, <2>3 DEF GetBestSubmission, tables
<1>4. ASSUME UpdateScore(b) PROVE x.pc = "zadd" /\ y.pc = "zrank" /\ y.batch = x.batch
                                  /\ UNCHANGED <<cboard, ranking, results>>
  BY <1>4, Goes DEF UpdateScore, tables
<1>5. ASSUME RevRank(b) PROVE x.pc = "zrank" /\ y.pc = "zcard" /\ y.batch = x.batch
                              /\ UNCHANGED <<cboard, ranking, results>>
  <2>1. PICK m : bridge' = [bridge EXCEPT ![b].pc = "zcard", ![b].rank = m]
    BY <1>5 DEF RevRank
  <2>2. QED
    BY <1>0, <1>5, <2>1 DEF RevRank, tables
<1>6. ASSUME ZCard(b) PROVE x.pc = "zcard" /\ y.pc = "update" /\ y.batch = x.batch
                            /\ UNCHANGED <<cboard, ranking, results>>
  <2>1. PICK m : bridge' = [bridge EXCEPT ![b].pc = "update", ![b].card = m]
    BY <1>6 DEF ZCard
  <2>2. QED
    BY <1>0, <1>6, <2>1 DEF ZCard, tables
<1>7. ASSUME UpdateSingleEntry(b) PROVE x.pc = "update" /\ y.pc = "contest" /\ y.batch = x.batch
                                        /\ UNCHANGED <<cboard, ranking, results>>
  BY <1>7, Goes DEF UpdateSingleEntry
<1>8. ASSUME Full(b) PROVE /\ x.pc \in {"full", "write_task", "seed_read", "seed"}
                           /\ y.pc \in {"write_task", "seed_read", "seed", "contest"}
                           /\ y.batch = x.batch /\ UNCHANGED <<cboard, ranking, results>>
  BY <1>8, Goes, Computes DEF Full, FullRecomputeTaskPhase, WriteTaskRows, SeedRead, SeedPhase,
                              Compute, tables
<1>9. ASSUME RecomputeContestPhase(b)
      PROVE  /\ x.pc = "contest" /\ y.pc = "write_contest" /\ y.rows = BridgeContestRows
             /\ y.batch = x.batch /\ UNCHANGED <<cboard, ranking, results>>
  <2> DEFINE rows == BridgeContestRows
  <2>1. Compute(b, "contest", rows, "write_contest")
    BY <1>9 DEF RecomputeContestPhase
  <2> HIDE DEF rows
  <2>2. UNCHANGED <<cboard, ranking, results>>
    BY <2>1 DEF Compute, tables
  <2>3. /\ bridge[b].pc = "contest" /\ bridge'[b].pc = "write_contest"
        /\ bridge'[b].batch = bridge[b].batch /\ bridge'[b].rows = rows
    BY <2>1, Computes
  <2>4. QED
    BY <2>2, <2>3 DEF rows
<1>10. ASSUME WriteContestRows(b)
       PROVE  /\ x.pc = "write_contest" /\ y.pc = "global" /\ cboard' = Upsert(cboard, x.rows)
              /\ y.batch = x.batch /\ UNCHANGED <<ranking, results>>
  BY <1>10, Goes DEF WriteContestRows
<1>11. ASSUME RecomputeGlobalPhase(b)
       PROVE  /\ x.pc = "global" /\ y.pc = "write_global" /\ y.rows = GlobalRows
              /\ y.batch = x.batch /\ UNCHANGED <<cboard, ranking, results>>
  <2> DEFINE rows == GlobalRows
  <2>1. Compute(b, "global", rows, "write_global")
    BY <1>11 DEF RecomputeGlobalPhase
  <2> HIDE DEF rows
  <2>2. UNCHANGED <<cboard, ranking, results>>
    BY <2>1 DEF Compute, tables
  <2>3. /\ bridge[b].pc = "global" /\ bridge'[b].pc = "write_global"
        /\ bridge'[b].batch = bridge[b].batch /\ bridge'[b].rows = rows
    BY <2>1, Computes
  <2>4. QED
    BY <2>2, <2>3 DEF rows
<1>12. ASSUME WriteGlobalRows(b)
       PROVE  /\ x.pc = "write_global" /\ y.pc = "stale" /\ ranking' = Replace(ranking, x.rows)
              /\ y.batch = x.batch /\ UNCHANGED <<cboard, results>>
  BY <1>12, Goes DEF WriteGlobalRows
<1>13. ASSUME DeleteStaleRankings(b)
       PROVE  /\ x.pc = "stale" /\ ranking' = WithoutStale
              /\ y.pc = IF Tail(x.batch) = <<>> THEN "idle" ELSE "max"
              /\ UNCHANGED <<cboard, results>>
  BY <1>13, NextTaken DEF DeleteStaleRankings
<1>14. ASSUME IncrementalFails(b) \/ FullFails(b)
       PROVE  /\ x.pc \in BeforeContest \ {"contest"} /\ y.pc \in {"full", "contest"}
              /\ y.batch = x.batch /\ UNCHANGED <<cboard, ranking, results>>
  BY <1>14, Goes DEF IncrementalFails, FullFails, BeforeContest, IncrementalPC, tables
<1>15. ASSUME ReadFails(b) PROVE x.pc = "idle" /\ y.pc = "stopped" /\ UNCHANGED <<cboard, ranking>>
  BY <1>15, Goes DEF ReadFails, tables
<1>17. CASE Incremental(b)
  BY <1>2, <1>3, <1>4, <1>5, <1>6, <1>7, <1>17 DEF Incremental, BeforeContest, IncrementalPC
<1>18. CASE BoardsStep(b)
  BY <1>9, <1>10, <1>11, <1>12, <1>13, <1>18 DEF BoardsStep
<1>19. CASE Full(b)
  BY <1>8, <1>19 DEF BeforeContest
<1>20. CASE ReadResults(b) \/ ReadFails(b)
  BY <1>1, <1>15, <1>20
<1>21. CASE IncrementalFails(b) \/ FullFails(b)
  BY <1>14, <1>21 DEF BeforeContest
<1>22. QED
  BY <1>17, <1>18, <1>19, <1>20, <1>21 DEF BridgeStep, BridgeFault
-----------------------------------------------------------------------------
Others ==
  \/ \E s \in Subs : Judge(s) \/ EnqueueResult(s) \/ Rejudge(s)
  \/ \E e \in Entries : Disqualify(e)
  \/ \E h \in Handlers :
       \/ \E s \in Subs : ResetOtherFinals(h, s)
       \/ MarkFinal(h) \/ EmitFinal(h) \/ Asks(h) \/ HandlerWrites(h)

\* Whoever changes a submission announces it, and no announcement is lost.
LEMMA OthersAnnounce ==
  ASSUME TypeInv, Others, "emit" \notin Faults, "rejudge" \notin Requests
  PROVE  /\ UNCHANGED bridge
         /\ sub' # sub => Unread'
         /\ Unread => Unread'
<1>1. UNCHANGED bridge
  BY DEF Others, Judge, EnqueueResult, Rejudge, Disqualify, ResetOtherFinals, MarkFinal, EmitFinal,
         Asks, TaskPhaseBoard, ContestPhaseBoard, GlobalPhaseRanking, Request, HandlerWrites
<1>2. DOMAIN req = Handlers /\ \A h \in Handlers : DOMAIN req[h] = {"pc", "id", "rows"}
  BY DEF TypeInv, RequestsOK, RequestOK
<1>3. ASSUME NEW s \in Subs, Judge(s) PROVE Unread'
  <2>1. announcing' # {}
    BY <1>3 DEF Judge
  <2>2. QED
    BY <2>1 DEF Unread
<1>4. ASSUME NEW s \in Subs, EnqueueResult(s) PROVE UNCHANGED sub /\ Unread'
  <2>1. results' # <<>>
    <3>1. results' = Append(results, s) /\ results \in Seq(Subs)
      BY <1>4 DEF EnqueueResult, TypeInv, WorldOK
    <3>2. Len(results') > 0
      BY <3>1
    <3>3. QED
      BY <3>2
  <2>2. QED
    BY <1>4, <2>1 DEF EnqueueResult, Unread
<1>5. ASSUME NEW s \in Subs, Rejudge(s) PROVE FALSE
  BY <1>5 DEF Rejudge
<1>6. ASSUME NEW e \in Entries, Disqualify(e) PROVE UNCHANGED sub /\ (Unread => Unread')
  BY <1>6 DEF Disqualify, Unread
<1>7. ASSUME NEW h \in Handlers, NEW s \in Subs, ResetOtherFinals(h, s) PROVE Unread'
  <2>1. req'[h].pc = "mark"
    BY <1>2, <1>7 DEF ResetOtherFinals, Idle
  <2>2. QED
    BY <2>1 DEF Unread
<1>8. ASSUME NEW h \in Handlers, MarkFinal(h) PROVE Unread'
  <2>1. req'[h].pc = "emit"
    BY <1>2, <1>8 DEF MarkFinal
  <2>2. QED
    BY <2>1 DEF Unread
<1>9. ASSUME NEW h \in Handlers, EmitFinal(h) PROVE UNCHANGED sub /\ Unread'
  <2>1. results' # <<>>
    <3>1. RequestOK(req[h])
      BY DEF TypeInv, RequestsOK
    <3>2. req[h].id \in Subs
      BY <1>9, <3>1 DEF EmitFinal, RequestOK
    <3>3. results' = Append(results, req[h].id) /\ results \in Seq(Subs)
      BY <1>9 DEF EmitFinal, TypeInv, WorldOK
    <3>4. Len(results') > 0
      BY <3>2, <3>3
    <3>5. QED
      BY <3>4
  <2>2. QED
    BY <1>9, <2>1 DEF EmitFinal, Unread, world
<1>10. ASSUME NEW h \in Handlers, Asks(h) \/ HandlerWrites(h)
       PROVE  UNCHANGED sub /\ (Unread => Unread')
  <2>1. UNCHANGED <<sub, announcing, results>>
    BY <1>10 DEF Asks, TaskPhaseBoard, ContestPhaseBoard, GlobalPhaseRanking, Request,
                 HandlerWrites, world
  <2>2. ASSUME NEW g \in Handlers, req[g].pc \in {"mark", "emit"} PROVE req'[g] = req[g]
    <3>1. g # h
      BY <1>10, <2>2 DEF Asks, TaskPhaseBoard, ContestPhaseBoard, GlobalPhaseRanking, Request,
                         HandlerWrites, Idle
    <3>2. \/ \E v : req' = [req EXCEPT ![h] = v]
          \/ req' = [req EXCEPT ![h].pc = "stale", ![h].rows = <<>>]
      BY <1>10 DEF Asks, TaskPhaseBoard, ContestPhaseBoard, GlobalPhaseRanking, Request,
                   HandlerWrites
    <3>3. QED
      BY <1>2, <3>1, <3>2
  <2>3. QED
    BY <2>1, <2>2 DEF Unread
<1>11. QED
  BY <1>1, <1>3, <1>4, <1>5, <1>6, <1>7, <1>8, <1>9, <1>10 DEF Others

\* What a bridge does to the messages.
LEMMA BridgeConsumes ==
  ASSUME TypeInv, NEW b \in Bridges, BridgeStep(b) \/ BridgeFault(b)
  PROVE  /\ UNCHANGED <<sub, dq, announcing, req>>
         /\ bridge[b].pc # "idle" => UNCHANGED results
<1>1. UNCHANGED <<world, req>>
  BY DEF BridgeStep, ReadResults, Incremental, GetMaxScore, GetBestSubmission,
     UpdateScore, RevRank, ZCard, UpdateSingleEntry, Full, FullRecomputeTaskPhase,
     WriteTaskRows, SeedRead, SeedPhase, BoardsStep, RecomputeContestPhase,
     WriteContestRows, RecomputeGlobalPhase, WriteGlobalRows, DeleteStaleRankings,
     Compute, BridgeFault, IncrementalFails, FullFails, BoardFails, ReadFails, Restart
<1>2. bridge[b].pc # "idle" => UNCHANGED results
  BY DEF BridgeStep, ReadResults, Incremental, GetMaxScore, GetBestSubmission,
     UpdateScore, RevRank, ZCard, UpdateSingleEntry, Full, FullRecomputeTaskPhase,
     WriteTaskRows, SeedRead, SeedPhase, BoardsStep, RecomputeContestPhase,
     WriteContestRows, RecomputeGlobalPhase, WriteGlobalRows, DeleteStaleRankings,
     Compute, BridgeFault, IncrementalFails, FullFails, BoardFails, ReadFails, Restart
<1>3. QED
  BY <1>1, <1>2 DEF world
-----------------------------------------------------------------------------
(***************************************************************************)
(* What the queries answer depends on the submissions alone, and on the    *)
(* disqualified entries.                                                   *)
(***************************************************************************)
LEMMA SameChosen ==
  ASSUME UNCHANGED sub
  PROVE  /\ \A p, e : Candidates(p, e)' = Candidates(p, e)
         /\ \A p \in Phases : Chosen(BridgeKey, p)' = Chosen(BridgeKey, p)
<1>1. \A p, e : Candidates(p, e)' = Candidates(p, e)
  BY DEF Candidates
<1>2. \A p \in Phases : Chosen(BridgeKey, p)' = Chosen(BridgeKey, p)
  BY DEF Chosen, Choice, Candidates, BridgeKey, FinalFirst, ModeKey, Signed, FirstBy
<1>3. QED
  BY <1>1, <1>2

LEMMA ContestRowsAgree ==
  ASSUME NEW c, NEW out, NEW others
  PROVE  /\ DOMAIN ContestRows(c, out, FALSE) = Entered(c)
         /\ \A e \in Entered(c) :
              Agrees(ContestRows(c, out, FALSE)[e], ContestRows(c, others, FALSE)[e])
<1>1. \A e \in Entered(c) : DOMAIN ContestTotals(c, FALSE)[e] = DOMAIN NoContestRow
  BY DEF ContestTotals, NoContestRow
<1>2. QED
  BY <1>1 DEF ContestRows, Agrees

LEMMA SameContestRows ==
  ASSUME UNCHANGED sub
  PROVE  /\ DOMAIN BridgeContestRows' = DOMAIN BridgeContestRows
         /\ \A e \in DOMAIN BridgeContestRows :
              Agrees(BridgeContestRows'[e], BridgeContestRows[e])
<1> DEFINE c == [p \in Phases |-> Chosen(BridgeKey, p)]
<1>1. c' = c
  BY SameChosen
<1>2. BridgeContestRows = ContestRows(c, dq, FALSE) /\ BridgeContestRows' = ContestRows(c', dq', FALSE)
  BY DEF BridgeContestRows
<1> HIDE DEF c
<1>3. QED
  BY <1>1, <1>2, ContestRowsAgree

LEMMA SameGlobalRows ==
  ASSUME UNCHANGED <<sub, dq>>
  PROVE  /\ GlobalRows' = GlobalRows
         /\ \A u : Ranking(u)' <=> Ranking(u)
<1>1. \A p \in Phases : Qualified(p)' = Qualified(p)
  BY SameChosen DEF Qualified
<1>2. GlobalRows' = GlobalRows
  <2> DEFINE c == [p \in Phases |-> Qualified(p)]
  <2>1. c' = c
    BY <1>1
  <2>2. GlobalRows = GlobalRowsOf(c) /\ GlobalRows' = GlobalRowsOf(c')
    BY DEF GlobalRows
  <2> HIDE DEF c
  <2>3. QED
    BY <2>1, <2>2
<1>3. \A u : Ranking(u)' <=> Ranking(u)
  BY SameChosen DEF Ranking
<1>4. QED
  BY <1>2, <1>3

LEMMA WhoIsListed == DOMAIN GlobalRows = {u \in Users : Ranking(u)}
BY DEF GlobalRows, GlobalRowsOf, Qualified, Chosen, Ranking
-----------------------------------------------------------------------------
(***************************************************************************)
(* The contest board.                                                      *)
(***************************************************************************)
NoContestRequest == \A h \in Handlers : req[h].pc # "write_contest"
NoRankingRequest == \A h \in Handlers : req[h].pc \notin {"write_global", "stale"}

\* The handlers write only what a client has asked for.
LEMMA HandlersWriteOthers ==
  ASSUME TypeInv, Others
  PROVE  /\ "contest" \notin Requests /\ NoContestRequest => NoContestRequest' /\ UNCHANGED cboard
         /\ "global" \notin Requests /\ NoRankingRequest => NoRankingRequest' /\ UNCHANGED ranking
<1>1. DOMAIN req = Handlers /\ \A h \in Handlers : DOMAIN req[h] = {"pc", "id", "rows"}
  BY DEF TypeInv, RequestsOK, RequestOK
<1>2. CASE UNCHANGED <<req, tables>>
  BY <1>2 DEF NoContestRequest, NoRankingRequest, tables
<1>3. ASSUME NEW h \in Handlers, NEW v, req' = [req EXCEPT ![h] = v]
      PROVE  /\ v.pc # "write_contest" /\ NoContestRequest => NoContestRequest'
             /\ v.pc \notin {"write_global", "stale"} /\ NoRankingRequest => NoRankingRequest'
  <2>1. \A g \in Handlers : req'[g] = IF g = h THEN v ELSE req[g]
    BY <1>1, <1>3
  <2>2. QED
    BY <2>1 DEF NoContestRequest, NoRankingRequest
<1>4. ASSUME NEW h \in Handlers,
             (\E s \in Subs : ResetOtherFinals(h, s)) \/ MarkFinal(h) \/ EmitFinal(h)
      PROVE  /\ NoContestRequest => NoContestRequest' /\ UNCHANGED cboard
             /\ NoRankingRequest => NoRankingRequest' /\ UNCHANGED ranking
  <2>1. PICK v : req' = [req EXCEPT ![h] = v] /\ v.pc \in {"mark", "emit", "idle"}
    <3>1. \A s : [Idle EXCEPT !.pc = "mark", !.id = s].pc = "mark"
      BY DEF Idle
    <3>2. [req[h] EXCEPT !.pc = "emit"].pc = "emit"
      BY <1>1
    <3>3. MarkFinal(h) => req' = [req EXCEPT ![h] = [req[h] EXCEPT !.pc = "emit"]]
      BY DEF MarkFinal
    <3>4. Idle.pc = "idle"
      BY DEF Idle
    <3>5. (\E s : req' = [req EXCEPT ![h] = [Idle EXCEPT !.pc = "mark", !.id = s]])
          \/ req' = [req EXCEPT ![h] = [req[h] EXCEPT !.pc = "emit"]]
          \/ req' = [req EXCEPT ![h] = Idle]
      BY <1>4, <3>3 DEF ResetOtherFinals, EmitFinal
    <3>6. QED
      BY <3>1, <3>2, <3>4, <3>5
  <2>2. UNCHANGED tables
    BY <1>4 DEF ResetOtherFinals, MarkFinal, EmitFinal
  <2>3. QED
    BY <1>3, <2>1, <2>2 DEF tables
<1>5. ASSUME NEW h \in Handlers, NEW p \in Phases, TaskPhaseBoard(h, p)
      PROVE  /\ NoContestRequest => NoContestRequest' /\ UNCHANGED cboard
             /\ NoRankingRequest => NoRankingRequest' /\ UNCHANGED ranking
  <2> DEFINE v == [pc |-> "write_task", id |-> p, rows |-> HandlerTaskRows(p)]
  <2>1. req' = [req EXCEPT ![h] = v] /\ v.pc = "write_task"
    BY <1>5 DEF TaskPhaseBoard, Request
  <2> HIDE DEF v
  <2>2. UNCHANGED tables
    BY <1>5 DEF TaskPhaseBoard, Request
  <2>3. QED
    BY <1>3, <2>1, <2>2 DEF tables
<1>6. ASSUME NEW h \in Handlers, ContestPhaseBoard(h)
      PROVE  /\ "contest" \in Requests /\ UNCHANGED ranking
             /\ NoRankingRequest => NoRankingRequest'
  <2> DEFINE v == [pc |-> "write_contest", id |-> 0, rows |-> HandlerContestRows]
  <2>1. req' = [req EXCEPT ![h] = v] /\ v.pc = "write_contest"
    BY <1>6 DEF ContestPhaseBoard, Request
  <2> HIDE DEF v
  <2>2. UNCHANGED tables /\ "contest" \in Requests
    BY <1>6 DEF ContestPhaseBoard, Request
  <2>3. QED
    BY <1>3, <2>1, <2>2 DEF tables
<1>7. ASSUME NEW h \in Handlers, GlobalPhaseRanking(h)
      PROVE  /\ "global" \in Requests /\ UNCHANGED cboard
             /\ NoContestRequest => NoContestRequest'
  <2> DEFINE v == [pc |-> "write_global", id |-> 0, rows |-> GlobalRows]
  <2>1. req' = [req EXCEPT ![h] = v] /\ v.pc = "write_global"
    BY <1>7 DEF GlobalPhaseRanking, Request
  <2> HIDE DEF v
  <2>2. UNCHANGED tables /\ "global" \in Requests
    BY <1>7 DEF GlobalPhaseRanking, Request
  <2>3. QED
    BY <1>3, <2>1, <2>2 DEF tables
<1>8. ASSUME NEW h \in Handlers, HandlerWrites(h)
      PROVE  /\ NoContestRequest => NoContestRequest' /\ UNCHANGED cboard
             /\ NoRankingRequest => NoRankingRequest' /\ UNCHANGED ranking
  <2>0. Idle.pc = "idle"
    BY DEF Idle
  <2>1. CASE req' = [req EXCEPT ![h] = Idle]
    <3>1. (NoContestRequest => NoContestRequest') /\ (NoRankingRequest => NoRankingRequest')
      BY <1>3, <2>0, <2>1
    <3>2. /\ NoContestRequest => UNCHANGED cboard
          /\ NoRankingRequest => UNCHANGED ranking
      BY <1>8 DEF HandlerWrites, NoContestRequest, NoRankingRequest
    <3>3. QED
      BY <3>1, <3>2
  <2>2. CASE req[h].pc = "write_global" /\ UNCHANGED <<board, cboard>>
             /\ req' = [req EXCEPT ![h].pc = "stale", ![h].rows = <<>>]
    <3>1. ~NoRankingRequest
      BY <2>2 DEF NoRankingRequest
    <3> DEFINE v == [req[h] EXCEPT !.pc = "stale", !.rows = <<>>]
    <3>2. req' = [req EXCEPT ![h] = v] /\ v.pc = "stale"
      BY <1>1, <2>2
    <3> HIDE DEF v
    <3>3. NoContestRequest => NoContestRequest'
      BY <1>3, <3>2
    <3>4. QED
      BY <2>2, <3>1, <3>3
  <2>3. QED
    BY <1>8, <2>1, <2>2 DEF HandlerWrites
<1>9. ASSUME \/ \E s \in Subs : Judge(s) \/ EnqueueResult(s) \/ Rejudge(s)
             \/ \E e \in Entries : Disqualify(e)
      PROVE  UNCHANGED <<req, tables>>
  BY <1>9 DEF Judge, EnqueueResult, Rejudge, Disqualify
<1>10. QED
  BY <1>2, <1>4, <1>5, <1>6, <1>7, <1>8, <1>9 DEF Others, Asks

LEMMA NextSplits ==
  ASSUME NEW b, Bridges = {b}, [Next]_vars
  PROVE  Others \/ BridgeStep(b) \/ BridgeFault(b) \/ UNCHANGED vars
BY DEF Next, Others, Asks

LEMMA RightStays ==
  ASSUME UNCHANGED sub, NEW table, ContestRight(table)
  PROVE  ContestRight(table)'
<1>1. ASSUME NEW e \in DOMAIN BridgeContestRows'
      PROVE  e \in DOMAIN table /\ Agrees(table[e], BridgeContestRows'[e])
  <2>1. e \in DOMAIN BridgeContestRows
        /\ Agrees(BridgeContestRows'[e], BridgeContestRows[e])
    BY <1>1, SameContestRows
  <2>2. QED
    BY <2>1 DEF ContestRight, Agrees
<1>2. QED
  BY <1>1 DEF ContestRight

LEMMA RightWritten ==
  ASSUME NEW rows, ContestRight(rows), NEW table, DOMAIN table = Entries
  PROVE  ContestRight(Upsert(table, rows))
<1>1. DOMAIN BridgeContestRows \subseteq Entries
  BY DEF BridgeContestRows, ContestRows, Entered
<1>2. ASSUME NEW e \in DOMAIN BridgeContestRows
      PROVE  /\ e \in DOMAIN Upsert(table, rows)
             /\ Agrees(Upsert(table, rows)[e], BridgeContestRows[e])
  <2>1. e \in DOMAIN rows /\ Agrees(rows[e], BridgeContestRows[e]) /\ e \in DOMAIN table
    BY <1>1 DEF ContestRight
  <2>2. \/ Upsert(table, rows)[e] = rows[e]
        \/ Upsert(table, rows)[e] = [rows[e] EXCEPT !.dq = table[e].dq]
    BY <2>1 DEF Upsert
  <2>3. QED
    BY <2>1, <2>2 DEF Agrees, Upsert
<1>3. QED
  BY <1>2 DEF ContestRight
-----------------------------------------------------------------------------
LEMMA NextContest ==
  ASSUME NEW b, Bridges = {b}, "emit" \notin Faults, "boards" \notin Faults, "crash" \notin Faults,
         "rejudge" \notin Requests, "contest" \notin Requests
  PROVE  TypeInv /\ NoContestRequest /\ ContestInv(b) /\ [Next]_vars
           => NoContestRequest' /\ ContestInv(b)'
<1> SUFFICES ASSUME TypeInv, NoContestRequest, ContestInv(b), [Next]_vars
    PROVE  NoContestRequest' /\ ContestInv(b)'
  OBVIOUS
<1>0. b \in Bridges /\ BridgeOK(bridge[b]) /\ DOMAIN cboard = Entries
  BY DEF TypeInv, BridgesOK, TablesOK
<1>1. CASE Others
  <2>1. UNCHANGED bridge /\ (sub' # sub => Unread') /\ (Unread => Unread')
    BY <1>1, OthersAnnounce
  <2>2. NoContestRequest' /\ UNCHANGED cboard
    BY <1>1, HandlersWriteOthers
  <2>3. Awaited(b) => Awaited(b)'
    BY <2>1 DEF Awaited
  <2>4. CASE sub' # sub
    BY <2>1, <2>2, <2>4 DEF ContestInv, Awaited
  <2>5. CASE UNCHANGED sub
    <3>1. PICK rows : rows = bridge[b].rows
      OBVIOUS
    <3>2. ContestRight(rows) => ContestRight(rows)'
      BY <2>5, RightStays
    <3>3. ContestRight(bridge[b].rows) => ContestRight(bridge[b].rows)'
      BY <2>1, <3>1, <3>2 DEF ContestRight
    <3>4. PICK table : table = cboard
      OBVIOUS
    <3>5. ContestRight(table) => ContestRight(table)'
      BY <2>5, RightStays
    <3>6. ContestRight(cboard) => ContestRight(cboard)'
      BY <2>2, <3>4, <3>5 DEF ContestRight
    <3>7. QED
      BY <2>1, <2>2, <2>3, <3>3, <3>6 DEF ContestInv
  <2>6. QED
    BY <2>4, <2>5
<1>2. CASE BridgeStep(b) \/ BridgeFault(b)
  <2>1. UNCHANGED <<sub, dq, announcing, req>> /\ (bridge[b].pc # "idle" => UNCHANGED results)
    BY <1>0, <1>2, BridgeConsumes
  <2>2. NoContestRequest'
    BY <2>1 DEF NoContestRequest
  <2>3. bridge[b].pc # "idle" => (Unread => Unread')
    BY <2>1 DEF Unread
  <2>4. /\ bridge[b].pc # "idle" /\ bridge'[b].batch = bridge[b].batch /\ bridge[b].pc # "stopped"
             => (Awaited(b) => Awaited(b)')
    BY <2>3 DEF Awaited
  <2>5. CASE bridge[b].pc \in BeforeContest \ {"contest"} /\ bridge'[b].pc \in BeforeContest
    BY <2>2, <2>5 DEF ContestInv
  <2>6. CASE bridge[b].pc = "contest" /\ bridge'[b].pc = "write_contest"
             /\ bridge'[b].rows = BridgeContestRows
    <3>1. ContestRight(bridge[b].rows)'
      <4>1. DOMAIN BridgeContestRows' = DOMAIN BridgeContestRows
            /\ \A e \in DOMAIN BridgeContestRows : Agrees(BridgeContestRows'[e], BridgeContestRows[e])
        BY <2>1, SameContestRows
      <4>2. QED
        BY <2>6, <4>1 DEF ContestRight, Agrees
    <3>2. QED
      BY <2>2, <2>6, <3>1 DEF ContestInv
  <2>7. CASE bridge[b].pc = "write_contest" /\ bridge'[b].pc = "global"
             /\ cboard' = Upsert(cboard, bridge[b].rows) /\ bridge'[b].batch = bridge[b].batch
    <3>1. CASE Awaited(b)
      BY <2>2, <2>4, <2>7, <3>1 DEF ContestInv
    <3>2. CASE ~Awaited(b)
      <4>1. ContestRight(bridge[b].rows)
        BY <2>7, <3>2 DEF ContestInv, BeforeContest, IncrementalPC
      <4>2. PICK table : table = Upsert(cboard, bridge[b].rows)
        OBVIOUS
      <4>3. ContestRight(table)
        BY <1>0, <4>1, <4>2, RightWritten
      <4>4. ContestRight(table)'
        BY <2>1, <4>3, RightStays
      <4>5. ContestRight(cboard)'
        BY <2>7, <4>2, <4>4 DEF ContestRight
      <4>6. QED
        BY <2>2, <2>7, <4>5 DEF ContestInv
    <3>3. QED
      BY <3>1, <3>2
  <2>8. CASE /\ bridge[b].pc \in {"global", "write_global"}
             /\ bridge'[b].pc \in {"write_global", "stale"}
             /\ bridge'[b].batch = bridge[b].batch /\ UNCHANGED cboard
    <3>1. CASE Awaited(b)
      BY <2>2, <2>4, <2>8, <3>1 DEF ContestInv
    <3>2. CASE ~Awaited(b)
      <4>1. ContestRight(cboard)
        BY <2>8, <3>2 DEF ContestInv, BeforeContest, IncrementalPC
      <4>2. ContestRight(cboard)'
        BY <2>1, <2>8, <4>1, SameContestRows DEF ContestRight, Agrees
      <4>3. QED
        BY <2>2, <2>8, <4>2 DEF ContestInv
    <3>3. QED
      BY <3>1, <3>2
  <2>9. CASE /\ bridge[b].pc = "stale" /\ UNCHANGED cboard
             /\ bridge'[b].pc = IF Tail(bridge[b].batch) = <<>> THEN "idle" ELSE "max"
    <3>1. CASE Unread \/ Tail(bridge[b].batch) # <<>>
      BY <2>2, <2>3, <2>9, <3>1 DEF ContestInv, Awaited, BeforeContest, IncrementalPC
    <3>2. CASE ~Unread /\ Tail(bridge[b].batch) = <<>>
      <4>1. ContestRight(cboard)
        BY <2>9, <3>2 DEF ContestInv, Awaited, BeforeContest, IncrementalPC
      <4>2. ContestRight(cboard)'
        BY <2>1, <2>9, <4>1, SameContestRows DEF ContestRight, Agrees
      <4>3. QED
        BY <2>2, <2>9, <3>2, <4>2 DEF ContestInv
    <3>3. QED
      BY <3>1, <3>2
  <2>10. CASE bridge[b].pc = "idle" /\ bridge'[b].pc \in {"max", "stopped"}
    BY <2>2, <2>10 DEF ContestInv, Awaited, BeforeContest, IncrementalPC
  <2>11. ~BoardFails(b) /\ ~Restart(b)
    BY DEF BoardFails, Restart
  <2>12. QED
    BY <1>0, <1>2, <2>5, <2>6, <2>7, <2>8, <2>9, <2>10, <2>11, BridgeCourse
<1>3. CASE UNCHANGED vars
  <2>1. UNCHANGED <<sub, req, bridge, cboard, announcing, results>>
    BY <1>3 DEF vars, tables
  <2>2. NoContestRequest' /\ (Awaited(b) => Awaited(b)')
    BY <2>1 DEF NoContestRequest, Awaited, Unread
  <2>3. /\ ContestRight(cboard) => ContestRight(cboard)'
        /\ ContestRight(bridge[b].rows) => ContestRight(bridge[b].rows)'
    BY <2>1, SameContestRows DEF ContestRight, Agrees
  <2>4. QED
    BY <2>1, <2>2, <2>3 DEF ContestInv
<1>4. QED
  BY <1>1, <1>2, <1>3, NextSplits

LEMMA InitContest ==
  ASSUME NEW b, Bridges = {b}
  PROVE  Init => NoContestRequest /\ ContestInv(b)
<1> SUFFICES ASSUME Init PROVE NoContestRequest /\ ContestInv(b)
  OBVIOUS
<1>1. NoContestRequest
  BY DEF Init, Idle, NoContestRequest
<1>2. \A p, e : Candidates(p, e) = {}
  BY DEF Init, Candidates
<1>3. DOMAIN BridgeContestRows = {}
  BY <1>2 DEF BridgeContestRows, ContestRows, Entered, Chosen
<1>4. bridge[b].pc = "idle"
  BY DEF Init, Fresh
<1>5. QED
  BY <1>1, <1>3, <1>4 DEF ContestInv, ContestRight

LEMMA ContestFollows ==
  ASSUME NEW b, Bridges = {b}
  PROVE  TypeInv /\ ContestInv(b) => ContestBoardFollows
<1> SUFFICES ASSUME TypeInv, ContestInv(b), Settled, NEW e \in DOMAIN BridgeContestRows
    PROVE  [cboard[e] EXCEPT !.dq = FALSE] = [BridgeContestRows[e] EXCEPT !.dq = FALSE]
  BY DEF ContestBoardFollows
<1>1. bridge[b].pc = "idle" /\ bridge[b].batch = <<>>
  BY DEF Settled, TypeInv, BridgesOK, BridgeOK
<1>2. ~Unread
  BY DEF Settled, Unread, Idle
<1>3. ContestRight(cboard)
  BY <1>1, <1>2 DEF ContestInv, Awaited, BeforeContest, IncrementalPC
<1>4. QED
  BY <1>3 DEF ContestRight, Agrees

\* One bridge that loses neither an announcement nor a recomputation of this
\* board leaves it, when it has caught up, as the query would fill it now,
\* ranks, totals and counts included: whatever was judged, marked final or
\* disqualified meanwhile, in whichever order the results came, and whether the
\* task board of a message was updated, recomputed or given up.  The handlers'
\* query of the contest board breaks ties otherwise, and a second judging is
\* announced only when it ends.
THEOREM ContestBoardIsRecomputed ==
  ASSUME NEW b, Bridges = {b}, "emit" \notin Faults, "boards" \notin Faults, "crash" \notin Faults,
         "rejudge" \notin Requests, "contest" \notin Requests
  PROVE  Spec => []ContestBoardFollows
<1>1. Init => TypeInv /\ NoContestRequest /\ ContestInv(b)
  BY InitTypes, InitContest
<1>2. TypeInv /\ NoContestRequest /\ ContestInv(b) /\ [Next]_vars
        => TypeInv' /\ NoContestRequest' /\ ContestInv(b)'
  BY NextTypes, NextContest
<1>3. TypeInv /\ ContestInv(b) => ContestBoardFollows
  BY ContestFollows
<1>4. QED
  BY <1>1, <1>2, <1>3, PTL DEF Spec
-----------------------------------------------------------------------------
(***************************************************************************)
(* The ranking.                                                            *)
(***************************************************************************)
LEMMA SameListed ==
  ASSUME UNCHANGED <<sub, dq>>
  PROVE  Listed' = Listed
<1> DEFINE rows == GlobalRows
<1>1. rows' = rows
  BY SameGlobalRows
<1>2. Listed = Replace([u \in Users |-> NoUserRow], rows)
      /\ Listed' = Replace([u \in Users |-> NoUserRow], rows')
  BY DEF Listed
<1> HIDE DEF rows
<1>3. QED
  BY <1>1, <1>2

LEMMA NobodyDisqualified ==
  ASSUME Others, "disqualify" \notin Requests
  PROVE  UNCHANGED dq
BY DEF Others, Judge, EnqueueResult, Rejudge, Disqualify, ResetOtherFinals, MarkFinal, EmitFinal,
       Asks, TaskPhaseBoard, ContestPhaseBoard, GlobalPhaseRanking, Request, HandlerWrites, world

LEMMA NextRanking ==
  ASSUME NEW b, Bridges = {b}, "emit" \notin Faults, "boards" \notin Faults, "crash" \notin Faults,
         "rejudge" \notin Requests, "global" \notin Requests, "disqualify" \notin Requests
  PROVE  TypeInv /\ NoRankingRequest /\ RankingInv(b) /\ [Next]_vars
           => NoRankingRequest' /\ RankingInv(b)'
<1> SUFFICES ASSUME TypeInv, NoRankingRequest, RankingInv(b), [Next]_vars
    PROVE  NoRankingRequest' /\ RankingInv(b)'
  OBVIOUS
<1>0. b \in Bridges /\ BridgeOK(bridge[b]) /\ DOMAIN ranking = Users
  BY DEF TypeInv, BridgesOK, TablesOK
<1>1. CASE Others
  <2>1. UNCHANGED bridge /\ (sub' # sub => Unread') /\ (Unread => Unread')
    BY <1>1, OthersAnnounce
  <2>2. NoRankingRequest' /\ UNCHANGED ranking /\ UNCHANGED dq
    BY <1>1, HandlersWriteOthers, NobodyDisqualified
  <2>3. Awaited(b) => Awaited(b)'
    BY <2>1 DEF Awaited
  <2>4. CASE sub' # sub
    BY <2>1, <2>2, <2>4 DEF RankingInv, Awaited
  <2>5. CASE UNCHANGED sub
    <3>1. GlobalRows' = GlobalRows /\ Listed' = Listed
      BY <2>2, <2>5, SameGlobalRows, SameListed
    <3>2. QED
      BY <2>1, <2>2, <2>3, <3>1 DEF RankingInv
  <2>6. QED
    BY <2>4, <2>5
<1>2. CASE BridgeStep(b) \/ BridgeFault(b)
  <2>1. UNCHANGED <<sub, dq, announcing, req>> /\ (bridge[b].pc # "idle" => UNCHANGED results)
    BY <1>0, <1>2, BridgeConsumes
  <2>2. NoRankingRequest'
    BY <2>1 DEF NoRankingRequest
  <2>3. bridge[b].pc # "idle" => (Unread => Unread')
    BY <2>1 DEF Unread
  <2>4. /\ bridge[b].pc # "idle" /\ bridge'[b].batch = bridge[b].batch /\ bridge[b].pc # "stopped"
             => (Awaited(b) => Awaited(b)')
    BY <2>3 DEF Awaited
  <2>0. GlobalRows' = GlobalRows /\ Listed' = Listed
    BY <2>1, SameGlobalRows, SameListed
  <2>5. CASE /\ bridge[b].pc \in BeforeContest \cup {"write_contest"}
             /\ bridge'[b].pc \in BeforeContest \cup {"write_contest", "global"}
    BY <2>2, <2>5 DEF RankingInv
  <2>6. CASE bridge[b].pc = "global" /\ bridge'[b].pc = "write_global"
             /\ bridge'[b].rows = GlobalRows
    BY <2>0, <2>2, <2>6 DEF RankingInv
  <2>7. CASE bridge[b].pc = "write_global" /\ bridge'[b].pc = "stale"
             /\ ranking' = Replace(ranking, bridge[b].rows) /\ bridge'[b].batch = bridge[b].batch
    <3>1. CASE Awaited(b)
      BY <2>2, <2>4, <2>7, <3>1 DEF RankingInv
    <3>2. CASE ~Awaited(b)
      <4>1. bridge[b].rows = GlobalRows
        BY <2>7, <3>2 DEF RankingInv, BeforeContest, IncrementalPC
      <4>2. DOMAIN GlobalRows \subseteq DOMAIN ranking
        BY <1>0, WhoIsListed
      <4>3. \A u \in DOMAIN GlobalRows : ranking'[u] = GlobalRows[u]
        BY <2>7, <4>1, <4>2 DEF Replace
      <4>4. QED
        BY <2>0, <2>2, <2>7, <4>3 DEF RankingInv
    <3>3. QED
      BY <3>1, <3>2
  <2>8. CASE /\ bridge[b].pc = "stale" /\ ranking' = WithoutStale
             /\ bridge'[b].pc = IF Tail(bridge[b].batch) = <<>> THEN "idle" ELSE "max"
    <3>1. CASE Unread \/ Tail(bridge[b].batch) # <<>>
      BY <2>2, <2>3, <2>8, <3>1 DEF RankingInv, Awaited, BeforeContest, IncrementalPC
    <3>2. CASE ~Unread /\ Tail(bridge[b].batch) = <<>>
      <4>1. \A u \in DOMAIN GlobalRows : ranking[u] = GlobalRows[u]
        BY <2>8, <3>2 DEF RankingInv, Awaited, BeforeContest, IncrementalPC
      <4>2. \A u \in Users : u \in DOMAIN GlobalRows <=> Ranking(u)
        BY WhoIsListed
      <4>3. ranking' = Listed
        BY <2>8, <4>1, <4>2 DEF WithoutStale, Listed, Replace
      <4>4. QED
        BY <2>0, <2>2, <2>8, <3>2, <4>3 DEF RankingInv
    <3>3. QED
      BY <3>1, <3>2
  <2>9. CASE bridge[b].pc = "idle" /\ bridge'[b].pc \in {"max", "stopped"}
    BY <2>2, <2>9 DEF RankingInv, Awaited, BeforeContest, IncrementalPC
  <2>10. "contest" \in BeforeContest
    BY DEF BeforeContest
  <2>11. ~BoardFails(b) /\ ~Restart(b)
    BY DEF BoardFails, Restart
  <2>12. QED
    BY <1>0, <1>2, <2>5, <2>6, <2>7, <2>8, <2>9, <2>10, <2>11, BridgeCourse
<1>3. CASE UNCHANGED vars
  <2>1. UNCHANGED <<sub, dq, req, bridge, ranking, announcing, results>>
    BY <1>3 DEF vars, tables
  <2>2. NoRankingRequest' /\ (Awaited(b) => Awaited(b)')
    BY <2>1 DEF NoRankingRequest, Awaited, Unread
  <2>3. GlobalRows' = GlobalRows /\ Listed' = Listed
    BY <2>1, SameGlobalRows, SameListed
  <2>4. QED
    BY <2>1, <2>2, <2>3 DEF RankingInv
<1>4. QED
  BY <1>1, <1>2, <1>3, NextSplits

LEMMA InitRanking ==
  ASSUME NEW b, Bridges = {b}
  PROVE  Init => NoRankingRequest /\ RankingInv(b)
<1> SUFFICES ASSUME Init PROVE NoRankingRequest /\ RankingInv(b)
  OBVIOUS
<1>1. NoRankingRequest
  BY DEF Init, Idle, NoRankingRequest
<1>2. \A p, e : Candidates(p, e) = {}
  BY DEF Init, Candidates
<1>3. DOMAIN GlobalRows = {}
  BY <1>2, WhoIsListed DEF Ranking
<1>4. ranking = Listed
  BY <1>3 DEF Init, Listed, Replace
<1>5. bridge[b].pc = "idle"
  BY DEF Init, Fresh
<1>6. QED
  BY <1>1, <1>4, <1>5 DEF RankingInv

LEMMA RankingSettles ==
  ASSUME NEW b, Bridges = {b}
  PROVE  TypeInv /\ RankingInv(b) => RankingFollows
<1> SUFFICES ASSUME TypeInv, RankingInv(b), Settled PROVE ranking = Listed
  BY DEF RankingFollows, Listed
<1>1. bridge[b].pc = "idle" /\ bridge[b].batch = <<>>
  BY DEF Settled, TypeInv, BridgesOK, BridgeOK
<1>2. ~Unread
  BY DEF Settled, Unread, Idle
<1>3. QED
  BY <1>1, <1>2 DEF RankingInv, Awaited, BeforeContest, IncrementalPC

\* One bridge that loses neither an announcement nor a recomputation of the
\* ranking leaves it, when it has caught up, exactly as the query would fill an
\* empty table: the two statements that replace the rows and delete the stale
\* ones do not need a transaction.  A disqualification announces nothing and a
\* handler's own recomputation may end late with older rows.
THEOREM RankingIsRecomputed ==
  ASSUME NEW b, Bridges = {b}, "emit" \notin Faults, "boards" \notin Faults, "crash" \notin Faults,
         "rejudge" \notin Requests, "global" \notin Requests, "disqualify" \notin Requests
  PROVE  Spec => []RankingFollows
<1>1. Init => TypeInv /\ NoRankingRequest /\ RankingInv(b)
  BY InitTypes, InitRanking
<1>2. TypeInv /\ NoRankingRequest /\ RankingInv(b) /\ [Next]_vars
        => TypeInv' /\ NoRankingRequest' /\ RankingInv(b)'
  BY NextTypes, NextRanking
<1>3. TypeInv /\ RankingInv(b) => RankingFollows
  BY RankingSettles
<1>4. QED
  BY <1>1, <1>2, <1>3, PTL DEF Spec
-----------------------------------------------------------------------------
(***************************************************************************)
(* The task boards.  Higher scores are better and the best one counts:     *)
(* then the order in which the incremental path looks for a submission is  *)
(* the one of a full recomputation.  A change of a submission concerns the *)
(* slot of one entry in one phase, and a message of that slot follows; a   *)
(* slot for which none is pending has its row right, on the board or in    *)
(* the hand of the bridge.                                                 *)
(***************************************************************************)
OfSlot(s, p, e) == PhaseOf[s] = p /\ EntryOf[s] = e
IsFirst(s, S) == s \in S /\ \A t \in S \ {s} : Precedes(BridgeKey(s), BridgeKey(t))
Right(p, e, s, raw) == \A t \in Subs : IsFirst(t, Candidates(p, e)) => s = t /\ raw = sub[t].score

BoardRight(p, e) == board[p][e].rank # 0 => Right(p, e, board[p][e].chosen, board[p][e].raw)
RowsRight(x, p, e) ==
  Candidates(p, e) # {} => e \in DOMAIN x.rows /\ Right(p, e, x.rows[e].chosen, x.rows[e].raw)

\* A message about the slot that no bridge has read, or that the bridge has read
\* and not yet looked into.
UnreadOf(p, e) ==
  \/ \E s \in announcing : OfSlot(s, p, e)
  \/ \E i \in DOMAIN results : OfSlot(results[i], p, e)
  \/ \E h \in Handlers : req[h].pc \in {"mark", "emit"} /\ OfSlot(req[h].id, p, e)
HeldOf(x, p, e) ==
  \/ x.pc = "stopped"
  \/ \E i \in DOMAIN x.batch : /\ OfSlot(x.batch[i], p, e)
                               /\ i > 1 \/ x.pc \in {"max", "best", "full"}
Pending(b, p, e) == UnreadOf(p, e) \/ HeldOf(bridge[b], p, e)
Current(x, p, e) == x.batch # <<>> /\ OfSlot(Head(x.batch), p, e)
SlotRight(x, p, e) ==
  IF x.pc \in {"zadd", "zrank", "zcard", "update"} /\ Current(x, p, e)
  THEN Right(p, e, x.best, x.score)
  ELSE IF x.pc = "write_task" /\ PhaseOf[Head(x.batch)] = p
  THEN RowsRight(x, p, e)
  ELSE BoardRight(p, e)
TaskInv(b) == \A p \in Phases, e \in Entries : Pending(b, p, e) \/ SlotRight(bridge[b], p, e)

NoTaskRequest == \A h \in Handlers : req[h].pc # "write_task"

\* There is at most one first submission.
LEMMA FirstIsOne ==
  ASSUME SubTyped, NEW S \in SUBSET Subs, NEW s, NEW t, IsFirst(s, S), IsFirst(t, S)
  PROVE  s = t
<1> SUFFICES ASSUME s # t PROVE FALSE
  OBVIOUS
<1>1. s \in Subs /\ t \in Subs /\ Precedes(BridgeKey(s), BridgeKey(t))
      /\ Precedes(BridgeKey(t), BridgeKey(s))
  BY DEF IsFirst
<1>2. BridgeKey(s) \in Columns /\ BridgeKey(t) \in Columns
  BY <1>1, KeysTyped
<1>3. QED
  BY <1>1, <1>2, PrecedesOrders

LEMMA FirstIsFirst ==
  ASSUME SubTyped, NEW p, NEW e, Candidates(p, e) # {}
  PROVE  IsFirst(FirstBy(BridgeKey, Candidates(p, e)), Candidates(p, e))
BY CandidatesTyped, FirstFound DEF IsFirst

\* The incremental path finds the same submission.
LEMMA PathsAgree ==
  ASSUME SubTyped, NEW p \in Phases, NEW e, Candidates(p, e) # {},
         Mode[p] = "best", HigherIsBetter[p] = TRUE
  PROVE  IsFirst(FirstBy(IncrementalKey, Candidates(p, e)), Candidates(p, e))
<1>1. \A s \in Candidates(p, e) : IncrementalKey(s) = BridgeKey(s)
  BY DEF Candidates, IncrementalKey, BridgeKey, ModeKey, Signed
<1>2. QED
  BY <1>1, CandidatesTyped, FirstFound DEF IsFirst

\* Only the submissions of the slot decide which of them is the first.
LEMMA SlotFrame ==
  ASSUME NEW p, NEW e, \A s \in Subs : OfSlot(s, p, e) => sub'[s] = sub[s]
  PROVE  /\ Candidates(p, e)' = Candidates(p, e)
         /\ \A t \in Subs : IsFirst(t, Candidates(p, e))' <=> IsFirst(t, Candidates(p, e))
         /\ \A s, raw : Right(p, e, s, raw) => Right(p, e, s, raw)'
<1>1. Candidates(p, e)' = Candidates(p, e)
  BY DEF Candidates, OfSlot
<1>2. \A s \in Candidates(p, e) : BridgeKey(s)' = BridgeKey(s) /\ sub'[s] = sub[s]
  <2>1. \A s \in Candidates(p, e) : sub'[s] = sub[s]
    BY DEF Candidates, OfSlot
  <2>2. QED
    BY <2>1 DEF BridgeKey, FinalFirst, ModeKey, Signed
<1>3. \A t \in Subs : IsFirst(t, Candidates(p, e))' <=> IsFirst(t, Candidates(p, e))
  BY <1>1, <1>2 DEF IsFirst
<1>4. \A s, raw : Right(p, e, s, raw) => Right(p, e, s, raw)'
  BY <1>1, <1>2, <1>3 DEF Right, IsFirst
<1>5. QED
  BY <1>1, <1>3, <1>4
-----------------------------------------------------------------------------
LEMMA AppendKeeps ==
  ASSUME NEW r \in Seq(Subs), NEW s \in Subs
  PROVE  /\ \A i \in DOMAIN r : i \in DOMAIN Append(r, s) /\ Append(r, s)[i] = r[i]
         /\ \E i \in DOMAIN Append(r, s) : Append(r, s)[i] = s
<1>1. Len(r) \in Nat /\ DOMAIN r = 1 .. Len(r) /\ DOMAIN Append(r, s) = 1 .. Len(r) + 1
  OBVIOUS
<1>2. Append(r, s)[Len(r) + 1] = s /\ Len(r) + 1 \in DOMAIN Append(r, s)
  BY <1>1
<1>3. \A i \in DOMAIN r : i \in DOMAIN Append(r, s) /\ Append(r, s)[i] = r[i]
  BY <1>1
<1>4. QED
  BY <1>2, <1>3

LEMMA SlotAnnounced ==
  ASSUME TypeInv, Others, "emit" \notin Faults, "rejudge" \notin Requests,
         NEW p \in Phases, NEW e \in Entries
  PROVE  /\ (\E s \in Subs : OfSlot(s, p, e) /\ sub'[s] # sub[s]) => UnreadOf(p, e)'
         /\ UnreadOf(p, e) => UnreadOf(p, e)'
<1>0. /\ DOMAIN req = Handlers /\ \A h \in Handlers : DOMAIN req[h] = {"pc", "id", "rows"}
      /\ sub \in [Subs -> SubRow] /\ results \in Seq(Subs)
  BY DEF TypeInv, WorldOK, SubTyped, RequestsOK, RequestOK
<1> DEFINE Goal == /\ (\E s \in Subs : OfSlot(s, p, e) /\ sub'[s] # sub[s]) => UnreadOf(p, e)'
                   /\ UnreadOf(p, e) => UnreadOf(p, e)'
<1> SUFFICES Goal
  OBVIOUS
<1>1. ASSUME NEW s \in Subs, Judge(s) PROVE Goal
  <2>1. \A t \in Subs \ {s} : sub'[t] = sub[t]
    BY <1>0, <1>1 DEF Judge
  <2>2. announcing' = announcing \cup {s} /\ UNCHANGED <<results, req>>
    BY <1>1 DEF Judge
  <2>3. QED
    BY <2>1, <2>2 DEF UnreadOf
<1>2. ASSUME NEW s \in Subs, EnqueueResult(s) PROVE Goal
  <2>1. announcing' = announcing \ {s} /\ results' = Append(results, s) /\ UNCHANGED <<req, sub>>
    BY <1>2 DEF EnqueueResult
  <2>2. /\ \A i \in DOMAIN results : i \in DOMAIN results' /\ results'[i] = results[i]
        /\ \E i \in DOMAIN results' : results'[i] = s
    BY <1>0, <2>1, AppendKeeps
  <2>3. QED
    BY <2>1, <2>2 DEF UnreadOf
<1>3. ASSUME NEW s \in Subs, Rejudge(s) PROVE Goal
  BY <1>3 DEF Rejudge
<1>4. ASSUME NEW f \in Entries, Disqualify(f) PROVE Goal
  <2>1. UNCHANGED <<sub, announcing, results, req>>
    BY <1>4 DEF Disqualify
  <2>2. QED
    BY <2>1 DEF UnreadOf
<1>5. ASSUME NEW h \in Handlers, NEW s \in Subs, ResetOtherFinals(h, s) PROVE Goal
  <2>1. UNCHANGED <<announcing, results>> /\ req'[h].pc = "mark" /\ req'[h].id = s
    BY <1>0, <1>5 DEF ResetOtherFinals, Idle
  <2>2. \A g \in Handlers \ {h} : req'[g] = req[g]
    BY <1>0, <1>5 DEF ResetOtherFinals
  <2>3. req[h].pc = "idle"
    BY <1>5 DEF ResetOtherFinals, Idle
  <2>4. UnreadOf(p, e) => UnreadOf(p, e)'
    BY <2>1, <2>2, <2>3 DEF UnreadOf
  <2>5. \A t \in Subs : sub'[t] # sub[t] => t \in SameSlot(s)
    BY <1>0, <1>5 DEF ResetOtherFinals
  <2>6. ASSUME NEW t \in Subs, OfSlot(t, p, e), sub'[t] # sub[t] PROVE UnreadOf(p, e)'
    <3>1. OfSlot(s, p, e)
      BY <2>5, <2>6 DEF SameSlot, OfSlot
    <3>2. QED
      BY <2>1, <3>1 DEF UnreadOf
  <2>7. QED
    BY <2>4, <2>6
<1>6. ASSUME NEW h \in Handlers, MarkFinal(h) PROVE Goal
  <2>1. /\ UNCHANGED <<announcing, results>> /\ req'[h].pc = "emit" /\ req'[h].id = req[h].id
        /\ req[h].pc = "mark"
    BY <1>0, <1>6 DEF MarkFinal
  <2>2. \A g \in Handlers \ {h} : req'[g] = req[g]
    BY <1>0, <1>6 DEF MarkFinal
  <2>3. UnreadOf(p, e) => UnreadOf(p, e)'
    BY <2>1, <2>2 DEF UnreadOf
  <2>4. \A t \in Subs : sub'[t] # sub[t] => t = req[h].id
    BY <1>0, <1>6 DEF MarkFinal
  <2>5. ASSUME NEW t \in Subs, OfSlot(t, p, e), sub'[t] # sub[t] PROVE UnreadOf(p, e)'
    BY <2>1, <2>4, <2>5 DEF UnreadOf
  <2>6. QED
    BY <2>3, <2>5
<1>7. ASSUME NEW h \in Handlers, EmitFinal(h) PROVE Goal
  <2>0. RequestOK(req[h])
    BY DEF TypeInv, RequestsOK
  <2>1. /\ UNCHANGED <<announcing, sub>> /\ results' = Append(results, req[h].id)
        /\ req[h].id \in Subs
    BY <1>7, <2>0 DEF EmitFinal, RequestOK, world
  <2>2. /\ \A i \in DOMAIN results : i \in DOMAIN results' /\ results'[i] = results[i]
        /\ \E i \in DOMAIN results' : results'[i] = req[h].id
    BY <1>0, <2>1, AppendKeeps
  <2>3. \A g \in Handlers \ {h} : req'[g] = req[g]
    BY <1>0, <1>7 DEF EmitFinal
  <2>4. QED
    BY <2>1, <2>2, <2>3 DEF UnreadOf
<1>8. ASSUME NEW h \in Handlers, Asks(h) \/ HandlerWrites(h) PROVE Goal
  <2>1. UNCHANGED <<sub, announcing, results>>
    BY <1>8 DEF Asks, TaskPhaseBoard, ContestPhaseBoard, GlobalPhaseRanking, Request,
                HandlerWrites, world
  <2>2. ASSUME NEW g \in Handlers, req[g].pc \in {"mark", "emit"} PROVE req'[g] = req[g]
    <3>1. g # h
      BY <1>8, <2>2 DEF Asks, TaskPhaseBoard, ContestPhaseBoard, GlobalPhaseRanking, Request,
                        HandlerWrites, Idle
    <3>2. \/ \E v : req' = [req EXCEPT ![h] = v]
          \/ req' = [req EXCEPT ![h].pc = "stale", ![h].rows = <<>>]
      BY <1>8 DEF Asks, TaskPhaseBoard, ContestPhaseBoard, GlobalPhaseRanking, Request,
                  HandlerWrites
    <3>3. QED
      BY <1>0, <3>1, <3>2
  <2>3. QED
    BY <2>1, <2>2 DEF UnreadOf
<1>9. QED
  BY <1>1, <1>2, <1>3, <1>4, <1>5, <1>6, <1>7, <1>8 DEF Others

LEMMA HandlersLeaveTaskBoards ==
  ASSUME TypeInv, Others, "task" \notin Requests, NoTaskRequest
  PROVE  NoTaskRequest' /\ UNCHANGED board
<1>1. DOMAIN req = Handlers /\ \A h \in Handlers : DOMAIN req[h] = {"pc", "id", "rows"}
  BY DEF TypeInv, RequestsOK, RequestOK
<1>2. UNCHANGED board
  BY DEF Others, Judge, EnqueueResult, Rejudge, Disqualify, ResetOtherFinals, MarkFinal, EmitFinal,
         Asks, TaskPhaseBoard, ContestPhaseBoard, GlobalPhaseRanking, Request, HandlerWrites, tables,
         NoTaskRequest
<1>3. ASSUME NEW h \in Handlers, NEW v, req' = [req EXCEPT ![h] = v], v.pc # "write_task"
      PROVE  NoTaskRequest'
  <2>1. \A g \in Handlers : req'[g] = IF g = h THEN v ELSE req[g]
    BY <1>1, <1>3
  <2>2. QED
    BY <1>3, <2>1 DEF NoTaskRequest
<1>4. ASSUME \/ \E s \in Subs : Judge(s) \/ EnqueueResult(s) \/ Rejudge(s)
             \/ \E e \in Entries : Disqualify(e)
      PROVE  NoTaskRequest'
  BY <1>4 DEF Judge, EnqueueResult, Rejudge, Disqualify, NoTaskRequest
<1>5. ASSUME NEW h \in Handlers, NEW s \in Subs, ResetOtherFinals(h, s) PROVE NoTaskRequest'
  <2> DEFINE v == [Idle EXCEPT !.pc = "mark", !.id = s]
  <2>1. req' = [req EXCEPT ![h] = v] /\ v.pc = "mark"
    BY <1>5 DEF ResetOtherFinals, Idle
  <2> HIDE DEF v
  <2>2. QED
    BY <1>3, <2>1
<1>6. ASSUME NEW h \in Handlers, MarkFinal(h) PROVE NoTaskRequest'
  <2> DEFINE v == [req[h] EXCEPT !.pc = "emit"]
  <2>1. req' = [req EXCEPT ![h] = v] /\ v.pc = "emit"
    BY <1>1, <1>6 DEF MarkFinal
  <2> HIDE DEF v
  <2>2. QED
    BY <1>3, <2>1
<1>7. ASSUME NEW h \in Handlers, req' = [req EXCEPT ![h] = Idle] PROVE NoTaskRequest'
  <2>1. Idle.pc # "write_task"
    BY DEF Idle
  <2>2. QED
    BY <1>3, <1>7, <2>1
<1>8. ASSUME NEW h \in Handlers, req' = [req EXCEPT ![h].pc = "stale", ![h].rows = <<>>]
      PROVE  NoTaskRequest'
  <2> DEFINE v == [req[h] EXCEPT !.pc = "stale", !.rows = <<>>]
  <2>1. req' = [req EXCEPT ![h] = v] /\ v.pc = "stale"
    BY <1>1, <1>8
  <2> HIDE DEF v
  <2>2. QED
    BY <1>3, <2>1
<1>9. ASSUME NEW h \in Handlers, Asks(h) PROVE NoTaskRequest'
  <2>1. ContestPhaseBoard(h) \/ GlobalPhaseRanking(h)
    BY <1>9 DEF Asks, TaskPhaseBoard, Request
  <2> DEFINE v == [pc |-> "write_contest", id |-> 0, rows |-> HandlerContestRows]
             w == [pc |-> "write_global", id |-> 0, rows |-> GlobalRows]
  <2>2. req' = [req EXCEPT ![h] = v] \/ req' = [req EXCEPT ![h] = w]
    BY <2>1 DEF ContestPhaseBoard, GlobalPhaseRanking, Request
  <2>3. v.pc # "write_task" /\ w.pc # "write_task"
    OBVIOUS
  <2> HIDE DEF v, w
  <2>4. QED
    BY <1>3, <2>2, <2>3
<1>10. QED
  BY <1>2, <1>4, <1>5, <1>6, <1>7, <1>8, <1>9 DEF Others, EmitFinal, HandlerWrites
-----------------------------------------------------------------------------
\* The course of a bridge over the statements that matter to a task board.
LEMMA TaskCourse ==
  ASSUME TypeInv, NEW b \in Bridges, BridgeStep(b) \/ BridgeFault(b),
         "full" \notin Faults, "crash" \notin Faults
  PROVE  LET x == bridge[b]
             y == bridge'[b]
             best == FirstBy(IncrementalKey, Candidates(Phase(b), Entry(b)))
         IN  \/ ReadResults(b)
             \/ /\ (x.pc = "max" /\ y.pc = "best") \/ (x.pc \in IncrementalPC /\ y.pc = "full")
                /\ y.batch = x.batch /\ UNCHANGED board
             \/ /\ x.pc = "best" /\ y.pc = "zadd" /\ Candidates(Phase(b), Entry(b)) # {}
                /\ y.best = best /\ y.score = sub[best].score
                /\ y.batch = x.batch /\ UNCHANGED board
             \/ /\ x.pc \in {"zadd", "zrank", "zcard"} /\ y.pc \in {"zrank", "zcard", "update"}
                /\ y.best = x.best /\ y.score = x.score
                /\ y.batch = x.batch /\ UNCHANGED board
             \/ UpdateSingleEntry(b) /\ y.pc = "contest" /\ y.batch = x.batch
             \/ /\ x.pc = "full" /\ y.pc = "write_task" /\ y.rows = BridgeTaskRows(Phase(b))
                /\ y.batch = x.batch /\ UNCHANGED board
             \/ WriteTaskRows(b) /\ y.pc = "seed_read" /\ y.batch = x.batch
             \/ /\ x.pc \in {"seed_read", "seed", "contest", "write_contest", "global", "write_global"}
                /\ y.pc \in {"seed", "contest", "write_contest", "global", "write_global", "stale"}
                /\ y.batch = x.batch /\ UNCHANGED board
             \/ /\ x.pc \in {"global", "write_global", "stale"} /\ NextMessage(b) /\ UNCHANGED board
             \/ x.pc = "idle" /\ y.pc = "stopped" /\ UNCHANGED board
<1> DEFINE x == bridge[b]
           y == bridge'[b]
           best == FirstBy(IncrementalKey, Candidates(Phase(b), Entry(b)))
<1>0. /\ x.pc \in BridgePC /\ b \in DOMAIN bridge
      /\ DOMAIN x = {"pc", "batch", "max", "best", "score", "rank", "card", "rows"}
  BY DEF TypeInv, BridgesOK, BridgeOK
<1> SUFFICES
      \/ ReadResults(b)
      \/ /\ (x.pc = "max" /\ y.pc = "best") \/ (x.pc \in IncrementalPC /\ y.pc = "full")
         /\ y.batch = x.batch /\ UNCHANGED board
      \/ /\ x.pc = "best" /\ y.pc = "zadd" /\ Candidates(Phase(b), Entry(b)) # {}
         /\ y.best = best /\ y.score = sub[best].score
         /\ y.batch = x.batch /\ UNCHANGED board
      \/ /\ x.pc \in {"zadd", "zrank", "zcard"} /\ y.pc \in {"zrank", "zcard", "update"}
         /\ y.best = x.best /\ y.score = x.score
         /\ y.batch = x.batch /\ UNCHANGED board
      \/ UpdateSingleEntry(b) /\ y.pc = "contest" /\ y.batch = x.batch
      \/ /\ x.pc = "full" /\ y.pc = "write_task" /\ y.rows = BridgeTaskRows(Phase(b))
         /\ y.batch = x.batch /\ UNCHANGED board
      \/ WriteTaskRows(b) /\ y.pc = "seed_read" /\ y.batch = x.batch
      \/ /\ x.pc \in {"seed_read", "seed", "contest", "write_contest", "global", "write_global"}
         /\ y.pc \in {"seed", "contest", "write_contest", "global", "write_global", "stale"}
         /\ y.batch = x.batch /\ UNCHANGED board
      \/ /\ x.pc \in {"global", "write_global", "stale"} /\ NextMessage(b) /\ UNCHANGED board
      \/ x.pc = "idle" /\ y.pc = "stopped" /\ UNCHANGED board
  OBVIOUS
<1>2. ASSUME GetMaxScore(b) PROVE x.pc = "max" /\ y.pc = "best" /\ y.batch = x.batch /\ UNCHANGED board
  <2>1. PICK m : bridge' = [bridge EXCEPT ![b].pc = "best", ![b].max = m]
    BY <1>2 DEF GetMaxScore
  <2>2. QED
    BY ZenonT(40), <1>0, <1>2, <2>1 DEF GetMaxScore, tables
<1>3. ASSUME GetBestSubmission(b)
      PROVE  /\ x.pc = "best" /\ y.batch = x.batch /\ UNCHANGED board
             /\ \/ y.pc = "full"
                \/ /\ y.pc = "zadd" /\ Candidates(Phase(b), Entry(b)) # {}
                   /\ y.best = best /\ y.score = sub[best].score
  <2>1. \/ Goto(b, "full")
        \/ Candidates(Phase(b), Entry(b)) # {}
           /\ bridge' = [bridge EXCEPT ![b].pc = "zadd", ![b].best = best,
                                       ![b].score = sub[best].score]
    BY <1>3 DEF GetBestSubmission
  <2>2. CASE Goto(b, "full")
    BY <1>3, <2>2, Goes DEF GetBestSubmission, tables
  <2> DEFINE k == sub[best].score
  <2> HIDE DEF best, k
  <2>3. ASSUME bridge' = [bridge EXCEPT ![b].pc = "zadd", ![b].best = best, ![b].score = k]
        PROVE  y.pc = "zadd" /\ y.batch = x.batch /\ y.best = best /\ y.score = k
    BY <1>0, <2>3
  <2>4. QED
    BY <1>3, <2>1, <2>2, <2>3 DEF GetBestSubmission, tables, k
<1> HIDE DEF best
<1>4. ASSUME UpdateScore(b)
      PROVE  /\ x.pc = "zadd" /\ y.pc = "zrank" /\ y.batch = x.batch /\ y.best = x.best
             /\ y.score = x.score /\ UNCHANGED board
  <2>1. bridge' = [bridge EXCEPT ![b].pc = "zrank"]
    BY <1>4 DEF UpdateScore, Goto
  <2>2. QED
    BY <1>0, <1>4, <2>1 DEF UpdateScore, tables
<1>5. ASSUME RevRank(b)
      PROVE  /\ x.pc = "zrank" /\ y.pc = "zcard" /\ y.batch = x.batch /\ y.best = x.best
             /\ y.score = x.score /\ UNCHANGED board
  <2>1. PICK m : bridge' = [bridge EXCEPT ![b].pc = "zcard", ![b].rank = m]
    BY <1>5 DEF RevRank
  <2>2. QED
    BY ZenonT(40), <1>0, <1>5, <2>1 DEF RevRank, tables
<1>6. ASSUME ZCard(b)
      PROVE  /\ x.pc = "zcard" /\ y.pc = "update" /\ y.batch = x.batch /\ y.best = x.best
             /\ y.score = x.score /\ UNCHANGED board
  <2>1. PICK m : bridge' = [bridge EXCEPT ![b].pc = "update", ![b].card = m]
    BY <1>6 DEF ZCard
  <2>2. QED
    BY ZenonT(40), <1>0, <1>6, <2>1 DEF ZCard, tables
<1>7. ASSUME UpdateSingleEntry(b) PROVE y.pc = "contest" /\ y.batch = x.batch
  BY <1>7, Goes DEF UpdateSingleEntry
<1>8. ASSUME FullRecomputeTaskPhase(b)
      PROVE  /\ x.pc = "full" /\ y.pc = "write_task" /\ y.rows = BridgeTaskRows(Phase(b))
             /\ y.batch = x.batch /\ UNCHANGED board
  <2> DEFINE rows == BridgeTaskRows(Phase(b))
  <2>1. Compute(b, "full", rows, "write_task")
    BY <1>8 DEF FullRecomputeTaskPhase
  <2> HIDE DEF rows
  <2>2. UNCHANGED board
    BY <2>1 DEF Compute, tables
  <2>3. x.pc = "full" /\ y.pc = "write_task" /\ y.batch = x.batch /\ y.rows = rows
    BY <2>1, Computes
  <2>4. QED
    BY <2>2, <2>3 DEF rows
<1>9. ASSUME WriteTaskRows(b) PROVE y.pc = "seed_read" /\ y.batch = x.batch
  BY <1>9, Goes DEF WriteTaskRows
<1>10. ASSUME NEW rows, NEW pc \in {"seed_read", "contest", "global"},
              NEW next \in {"seed", "write_contest", "write_global"}, Compute(b, pc, rows, next)
       PROVE  x.pc = pc /\ y.pc = next /\ y.batch = x.batch /\ UNCHANGED board
  <2>1. x.pc = pc /\ y.pc = next /\ y.batch = x.batch
    BY <1>10, Computes
  <2>2. QED
    BY <1>10, <2>1 DEF Compute, tables
<1>11. ASSUME SeedPhase(b) \/ WriteContestRows(b) \/ WriteGlobalRows(b)
       PROVE  /\ x.pc \in {"seed", "write_contest", "write_global"}
              /\ y.pc \in {"contest", "global", "stale"}
              /\ y.batch = x.batch /\ UNCHANGED board
  BY <1>11, Goes DEF SeedPhase, WriteContestRows, WriteGlobalRows, tables
<1>12. ASSUME SeedRead(b) \/ RecomputeContestPhase(b) \/ RecomputeGlobalPhase(b)
       PROVE  /\ x.pc \in {"seed_read", "contest", "global"}
              /\ y.pc \in {"seed", "write_contest", "write_global"}
              /\ y.batch = x.batch /\ UNCHANGED board
  BY <1>10, <1>12 DEF SeedRead, RecomputeContestPhase, RecomputeGlobalPhase
<1>13. ASSUME DeleteStaleRankings(b) PROVE x.pc = "stale" /\ NextMessage(b) /\ UNCHANGED board
  BY <1>13 DEF DeleteStaleRankings
<1>14. ASSUME IncrementalFails(b)
       PROVE  x.pc \in IncrementalPC /\ y.pc = "full" /\ y.batch = x.batch /\ UNCHANGED board
  BY <1>14, Goes DEF IncrementalFails, tables
<1>15. ASSUME BoardFails(b)
       PROVE  /\ UNCHANGED board
              /\ \/ x.pc \in {"contest", "write_contest"} /\ y.pc = "global" /\ y.batch = x.batch
                 \/ x.pc \in {"global", "write_global", "stale"} /\ NextMessage(b)
  BY <1>15, Goes DEF BoardFails, tables
<1>16. ASSUME ReadFails(b) PROVE x.pc = "idle" /\ y.pc = "stopped" /\ UNCHANGED board
  BY <1>16, Goes DEF ReadFails, tables
<1>17. ~FullFails(b) /\ ~Restart(b)
  BY DEF FullFails, Restart
<1>18. CASE Incremental(b)
  BY <1>2, <1>3, <1>4, <1>5, <1>6, <1>7, <1>18 DEF Incremental, IncrementalPC
<1>19. CASE Full(b)
  BY <1>8, <1>9, <1>11, <1>12, <1>19 DEF Full
<1>20. CASE BoardsStep(b)
  BY <1>11, <1>12, <1>13, <1>20 DEF BoardsStep
<1>21. CASE BridgeFault(b)
  BY <1>14, <1>15, <1>16, <1>17, <1>21 DEF BridgeFault
<1>22. QED
  BY <1>18, <1>19, <1>20, <1>21 DEF BridgeStep
-----------------------------------------------------------------------------
LEMMA HeadIsFirst ==
  ASSUME NEW r \in Seq(Subs), r # <<>>
  PROVE  1 \in DOMAIN r /\ Head(r) = r[1]
OBVIOUS

\* A bridge that keeps its batch keeps what it holds of a slot, but for the
\* message in hand when it has looked into it.
LEMMA HeldKeeps ==
  ASSUME NEW x, NEW y, NEW p, NEW e, x.batch \in Seq(Subs), y.batch = x.batch
  PROVE  /\ HeldOf(x, p, e) /\ x.pc # "stopped" /\ ~Current(x, p, e) => HeldOf(y, p, e)
         /\ /\ HeldOf(x, p, e) /\ x.pc # "stopped"
            /\ x.pc \in {"max", "best", "full"} => y.pc \in {"max", "best", "full"}
            => HeldOf(y, p, e)
         /\ Current(x, p, e) /\ y.pc \in {"max", "best", "full"} => HeldOf(y, p, e)
<1>1. \A i \in DOMAIN x.batch : i \in Nat /\ i >= 1
  OBVIOUS
<1>2. ASSUME HeldOf(x, p, e), x.pc # "stopped", ~Current(x, p, e) PROVE HeldOf(y, p, e)
  <2>1. PICK i \in DOMAIN x.batch : OfSlot(x.batch[i], p, e)
    BY <1>2 DEF HeldOf
  <2>2. x.batch # <<>>
    BY <2>1
  <2>3. i > 1
    BY <1>1, <1>2, <2>1, <2>2, HeadIsFirst DEF Current
  <2>4. QED
    BY <2>1, <2>3 DEF HeldOf
<1>3. ASSUME HeldOf(x, p, e), x.pc # "stopped",
             x.pc \in {"max", "best", "full"} => y.pc \in {"max", "best", "full"}
      PROVE  HeldOf(y, p, e)
  BY <1>3 DEF HeldOf
<1>4. ASSUME Current(x, p, e), y.pc \in {"max", "best", "full"} PROVE HeldOf(y, p, e)
  BY <1>4, HeadIsFirst DEF HeldOf, Current
<1>5. QED
  BY <1>2, <1>3, <1>4

\* The rows of a recomputation are right, and so is the board they reach.
LEMMA RowsAreRight ==
  ASSUME SubTyped, NEW p, NEW e \in Entries, NEW y, y.rows = BridgeTaskRows(p)
  PROVE  RowsRight(y, p, e)
<1> SUFFICES ASSUME Candidates(p, e) # {}
    PROVE  /\ e \in DOMAIN BridgeTaskRows(p)
           /\ Right(p, e, BridgeTaskRows(p)[e].chosen, BridgeTaskRows(p)[e].raw)
  BY DEF RowsRight
<1> DEFINE s == FirstBy(BridgeKey, Candidates(p, e))
<1>1. /\ e \in DOMAIN BridgeTaskRows(p)
      /\ BridgeTaskRows(p)[e].chosen = s /\ BridgeTaskRows(p)[e].raw = sub[s].score
  BY BridgeRows
<1>2. IsFirst(s, Candidates(p, e))
  BY FirstIsFirst
<1> HIDE DEF s
<1>3. \A t \in Subs : IsFirst(t, Candidates(p, e)) => s = t
  BY <1>2, FirstIsOne, CandidatesTyped
<1>4. QED
  BY <1>1, <1>3 DEF Right

LEMMA WrittenRowsRight ==
  ASSUME NEW p, NEW e \in Entries, NEW x, TaskRows(x.rows), RowsRight(x, p, e),
         NEW table \in [Entries -> TaskRow]
  PROVE  Right(p, e, Upsert(table, x.rows)[e].chosen, Upsert(table, x.rows)[e].raw)
<1>1. CASE e \in DOMAIN x.rows
  <2>1. /\ Upsert(table, x.rows)[e].chosen = x.rows[e].chosen
        /\ Upsert(table, x.rows)[e].raw = x.rows[e].raw
    BY <1>1, UpsertTyped
  <2>2. QED
    BY <2>1 DEF RowsRight, Right, IsFirst
<1>2. CASE e \notin DOMAIN x.rows
  BY <1>2 DEF RowsRight, Right, IsFirst
<1>3. QED
  BY <1>1, <1>2

LEMMA BestIsRight ==
  ASSUME SubTyped, NEW p \in Phases, NEW e, Candidates(p, e) # {},
         Mode[p] = "best", HigherIsBetter[p] = TRUE
  PROVE  LET s == FirstBy(IncrementalKey, Candidates(p, e)) IN Right(p, e, s, sub[s].score)
<1> DEFINE s == FirstBy(IncrementalKey, Candidates(p, e))
<1>1. IsFirst(s, Candidates(p, e))
  BY PathsAgree
<1> HIDE DEF s
<1>2. Right(p, e, s, sub[s].score)
  BY <1>1, FirstIsOne, CandidatesTyped DEF Right
<1>3. QED
  BY <1>2 DEF s
-----------------------------------------------------------------------------
SlotOK(b, p, e) == Pending(b, p, e) \/ SlotRight(bridge[b], p, e)

\* Reading moves messages from the stream into the batch.
LEMMA SlotRead ==
  ASSUME TypeInv, NEW b \in Bridges, NEW p \in Phases, NEW e \in Entries, SlotOK(b, p, e),
         ReadResults(b), \A s, raw : Right(p, e, s, raw) => Right(p, e, s, raw)'
  PROVE  SlotOK(b, p, e)'
<1>0. /\ b \in DOMAIN bridge /\ results \in Seq(Subs) /\ Len(results) \in Nat
      /\ DOMAIN bridge[b] = {"pc", "batch", "max", "best", "score", "rank", "card", "rows"}
      /\ bridge[b].pc = "idle" /\ bridge[b].batch = <<>>
  BY DEF TypeInv, WorldOK, BridgesOK, BridgeOK, ReadResults
<1>1. PICK n \in 1 .. BatchSize :
        /\ n <= Len(results)
        /\ bridge' = [bridge EXCEPT ![b].batch = SubSeq(results, 1, n), ![b].pc = "max"]
        /\ results' = SubSeq(results, n + 1, Len(results))
  BY DEF ReadResults
<1>2. n \in 1 .. Len(results)
  BY <1>0, <1>1, InstanceAssumption
<1>3. /\ DOMAIN results = 1 .. Len(results)
      /\ DOMAIN SubSeq(results, 1, n) = 1 .. n
      /\ \A i \in 1 .. n : SubSeq(results, 1, n)[i] = results[i]
      /\ DOMAIN SubSeq(results, n + 1, Len(results)) = 1 .. Len(results) - n
      /\ \A i \in 1 .. Len(results) - n : SubSeq(results, n + 1, Len(results))[i] = results[n + i]
  <2>1. \A i \in 1 .. Len(results) : results[i] \in Subs
    BY <1>0
  <2>2. /\ SubSeq(results, 1, n) \in Seq(Subs) /\ Len(SubSeq(results, 1, n)) = n
        /\ \A i \in 1 .. n : SubSeq(results, 1, n)[i] = results[i]
    BY <1>0, <1>2, <2>1, SubSeqProperties
  <2>3. /\ SubSeq(results, n + 1, Len(results)) \in Seq(Subs)
        /\ Len(SubSeq(results, n + 1, Len(results))) = Len(results) - n
        /\ \A i \in 1 .. Len(results) - n : SubSeq(results, n + 1, Len(results))[i] = results[n + i]
    BY <1>0, <1>2, <2>1, SubSeqProperties
  <2>4. QED
    BY <1>0, <1>2, <2>2, <2>3
<1> DEFINE y == bridge'[b]
<1>4. y.pc = "max" /\ y.batch = SubSeq(results, 1, n)
  BY <1>0, <1>1
<1>5. UNCHANGED <<announcing, req, board>>
  BY DEF ReadResults, world, tables
<1>6. CASE UnreadOf(p, e)
  <2>1. CASE \E i \in DOMAIN results : OfSlot(results[i], p, e)
    <3>1. PICK i \in 1 .. Len(results) : OfSlot(results[i], p, e)
      BY <1>3, <2>1
    <3>2. CASE i <= n
      <4>1. i \in DOMAIN y.batch /\ y.batch[i] = results[i]
        BY <1>2, <1>3, <1>4, <3>1, <3>2
      <4>2. HeldOf(y, p, e)
        BY <1>4, <3>1, <4>1 DEF HeldOf
      <4>3. QED
        BY <4>2 DEF SlotOK, Pending, HeldOf
    <3>3. CASE i > n
      <4>1. i - n \in 1 .. Len(results) - n /\ n + (i - n) = i
        BY <1>0, <1>2, <3>1, <3>3
      <4>2. i - n \in DOMAIN results' /\ results'[i - n] = results[i]
        BY <1>1, <1>3, <4>1
      <4>3. UnreadOf(p, e)'
        BY <3>1, <4>2 DEF UnreadOf
      <4>4. QED
        BY <4>3 DEF SlotOK, Pending
    <3>4. QED
      BY <1>0, <1>2, <3>1, <3>2, <3>3
  <2>2. CASE ~\E i \in DOMAIN results : OfSlot(results[i], p, e)
    <3>1. UnreadOf(p, e)'
      BY <1>5, <1>6, <2>2 DEF UnreadOf
    <3>2. QED
      BY <3>1 DEF SlotOK, Pending
  <2>3. QED
    BY <2>1, <2>2
<1>7. CASE ~UnreadOf(p, e)
  <2>1. ~HeldOf(bridge[b], p, e)
    BY <1>0 DEF HeldOf
  <2>2. BoardRight(p, e)
    BY <1>0, <1>7, <2>1 DEF SlotOK, Pending, SlotRight
  <2>3. BoardRight(p, e)'
    <3>1. PICK row : row = board[p][e]
      OBVIOUS
    <3>2. board'[p][e] = row
      BY <1>5, <3>1
    <3>3. QED
      BY <2>2, <3>1, <3>2 DEF BoardRight
  <2>4. QED
    BY <1>4, <2>3 DEF SlotOK, SlotRight
<1>8. QED
  BY <1>6, <1>7

\* The next message of the batch.
LEMMA SlotNext ==
  ASSUME TypeInv, NEW b \in Bridges, NEW p \in Phases, NEW e \in Entries, SlotOK(b, p, e),
         bridge[b].pc \in {"global", "write_global", "stale"}, NextMessage(b),
         UNCHANGED <<board, announcing, results, req>>,
         \A s, raw : Right(p, e, s, raw) => Right(p, e, s, raw)'
  PROVE  SlotOK(b, p, e)'
<1> DEFINE x == bridge[b]
           y == bridge'[b]
<1>0. x.batch \in Seq(Subs) /\ x.batch # <<>>
  BY DEF TypeInv, BridgesOK, BridgeOK
<1>1. y.pc = (IF Tail(x.batch) = <<>> THEN "idle" ELSE "max") /\ y.batch = Tail(x.batch)
  BY NextTaken
<1>2. UnreadOf(p, e) => UnreadOf(p, e)'
  BY DEF UnreadOf
<1>3. HeldOf(x, p, e) => HeldOf(y, p, e)
  <2> SUFFICES ASSUME HeldOf(x, p, e) PROVE HeldOf(y, p, e)
    OBVIOUS
  <2>1. PICK i \in DOMAIN x.batch : OfSlot(x.batch[i], p, e) /\ i > 1
    BY DEF HeldOf
  <2>2. /\ i \in 2 .. Len(x.batch) /\ Len(x.batch) \in Nat
        /\ DOMAIN Tail(x.batch) = 1 .. Len(x.batch) - 1
        /\ \A j \in 1 .. Len(x.batch) - 1 : Tail(x.batch)[j] = x.batch[j + 1]
    BY <1>0, <2>1
  <2>3. i - 1 \in DOMAIN Tail(x.batch) /\ Tail(x.batch)[i - 1] = x.batch[i]
    BY <2>2
  <2>4. Tail(x.batch) # <<>>
    BY <2>3
  <2>5. QED
    BY <1>1, <2>1, <2>3, <2>4 DEF HeldOf
<1>4. BoardRight(p, e) => BoardRight(p, e)'
  <2>1. PICK row : row = board[p][e]
    OBVIOUS
  <2>2. board'[p][e] = row
    BY <2>1
  <2>3. QED
    BY <2>1, <2>2 DEF BoardRight
<1>5. SlotRight(x, p, e) => BoardRight(p, e)
  BY DEF SlotRight
<1>6. BoardRight(p, e)' => SlotRight(bridge[b], p, e)'
  BY <1>1 DEF SlotRight
<1>7. HeldOf(y, p, e) => HeldOf(bridge[b], p, e)'
  BY DEF HeldOf
<1>8. QED
  BY <1>2, <1>3, <1>4, <1>5, <1>6, <1>7 DEF SlotOK, Pending
-----------------------------------------------------------------------------
LEMMA SlotStep ==
  ASSUME TypeInv, NEW b \in Bridges, BridgeStep(b) \/ BridgeFault(b),
         "full" \notin Faults, "crash" \notin Faults,
         NEW p \in Phases, NEW e \in Entries, SlotOK(b, p, e),
         Mode[p] = "best", HigherIsBetter[p] = TRUE
  PROVE  SlotOK(b, p, e)'
<1> DEFINE x == bridge[b]
           y == bridge'[b]
<1>0. /\ SubTyped /\ BridgeOK(x) /\ x.batch \in Seq(Subs)
      /\ board \in [Phases -> [Entries -> TaskRow]]
  BY DEF TypeInv, WorldOK, TablesOK, BridgesOK, BridgeOK
<1>1. UNCHANGED <<sub, dq, announcing, req>> /\ (x.pc # "idle" => UNCHANGED results)
  BY BridgeConsumes
<1>2. /\ Candidates(p, e)' = Candidates(p, e)
      /\ \A s, raw : Right(p, e, s, raw) => Right(p, e, s, raw)'
  BY <1>1, SlotFrame
<1>3. x.pc # "idle" => (UnreadOf(p, e) => UnreadOf(p, e)')
  BY <1>1 DEF UnreadOf
<1>4. HeldOf(y, p, e) => HeldOf(bridge[b], p, e)'
  BY DEF HeldOf
<1>5. board'[p][e] = board[p][e] /\ BoardRight(p, e) => BoardRight(p, e)'
  <2>1. PICK row : row = board[p][e]
    OBVIOUS
  <2>2. QED
    BY <1>2, <2>1 DEF BoardRight
<1>6. y.pc \notin {"zadd", "zrank", "zcard", "update", "write_task"} /\ BoardRight(p, e)'
        => SlotRight(bridge[b], p, e)'
  BY DEF SlotRight
<1>7. Current(x, p, e) <=> x.batch # <<>> /\ Phase(b) = p /\ Entry(b) = e
  BY DEF Current, OfSlot, Phase, Entry
<1>8. /\ HeldOf(x, p, e) /\ x.pc # "stopped" /\ ~Current(x, p, e) /\ y.batch = x.batch
           => HeldOf(y, p, e)
      /\ /\ HeldOf(x, p, e) /\ x.pc # "stopped" /\ y.batch = x.batch
         /\ x.pc \in {"max", "best", "full"} => y.pc \in {"max", "best", "full"}
         => HeldOf(y, p, e)
      /\ Current(x, p, e) /\ y.pc \in {"max", "best", "full"} /\ y.batch = x.batch => HeldOf(y, p, e)
  <2>1. PICK v, w : v = x /\ w = y
    OBVIOUS
  <2>2. v.batch \in Seq(Subs)
    BY <1>0, <2>1
  <2>3. QED
    BY <2>1, <2>2, HeldKeeps
<1>9. x.pc \notin {"idle", "stopped"} => Phase(b) \in Phases /\ Entry(b) \in Entries /\ x.batch # <<>>
  BY <1>0, InHand DEF BridgeOK
<1>10. CASE ReadResults(b)
  BY <1>2, <1>10, SlotRead
<1>11. CASE /\ (x.pc = "max" /\ y.pc = "best") \/ (x.pc \in IncrementalPC /\ y.pc = "full")
            /\ y.batch = x.batch /\ UNCHANGED board
  <2>0. x.pc \in IncrementalPC /\ y.pc \in {"best", "full"} /\ x.pc \notin {"idle", "stopped", "write_task"}
    BY <1>11 DEF IncrementalPC
  <2>1. HeldOf(x, p, e) \/ Current(x, p, e) => HeldOf(y, p, e)
    BY <1>8, <1>11, <2>0
  <2>2. CASE Pending(b, p, e) \/ Current(x, p, e)
    BY <1>3, <1>4, <2>0, <2>1, <2>2 DEF SlotOK, Pending
  <2>3. CASE ~Pending(b, p, e) /\ ~Current(x, p, e)
    <3>1. BoardRight(p, e)
      BY <2>0, <2>3 DEF SlotOK, SlotRight
    <3>2. QED
      BY <1>5, <1>6, <1>11, <2>0, <3>1 DEF SlotOK
  <2>4. QED
    BY <2>2, <2>3
<1>12. CASE /\ x.pc = "best" /\ y.pc = "zadd" /\ Candidates(Phase(b), Entry(b)) # {}
            /\ y.best = FirstBy(IncrementalKey, Candidates(Phase(b), Entry(b)))
            /\ y.score = sub[FirstBy(IncrementalKey, Candidates(Phase(b), Entry(b)))].score
            /\ y.batch = x.batch /\ UNCHANGED board
  <2>1. CASE Current(x, p, e)
    <3>1. Phase(b) = p /\ Entry(b) = e
      BY <1>7, <2>1
    <3> DEFINE s == FirstBy(IncrementalKey, Candidates(p, e))
    <3>2. Right(p, e, s, sub[s].score)
      BY <1>0, <1>12, <3>1, BestIsRight
    <3>3. y.best = s /\ y.score = sub[s].score
      BY <1>12, <3>1
    <3> HIDE DEF s
    <3>4. PICK t, raw : t = y.best /\ raw = y.score
      OBVIOUS
    <3>5. Right(p, e, t, raw)'
      BY <1>2, <3>2, <3>3, <3>4
    <3>6. Current(bridge[b], p, e)'
      BY <1>12, <2>1 DEF Current
    <3>7. Right(p, e, bridge[b].best, bridge[b].score)'
      BY <3>4, <3>5 DEF Right
    <3>8. QED
      BY <1>12, <3>6, <3>7 DEF SlotOK, SlotRight
  <2>2. CASE ~Current(x, p, e)
    <3>1. CASE Pending(b, p, e)
      BY <1>3, <1>4, <1>8, <1>12, <2>2, <3>1 DEF SlotOK, Pending
    <3>2. CASE ~Pending(b, p, e)
      <4>1. BoardRight(p, e)
        BY <1>12, <3>2 DEF SlotOK, SlotRight
      <4>2. BoardRight(p, e)'
        BY <1>5, <1>12, <4>1
      <4>3. ~Current(bridge[b], p, e)'
        BY <1>12, <2>2 DEF Current
      <4>4. QED
        BY <1>12, <4>2, <4>3 DEF SlotOK, SlotRight
    <3>3. QED
      BY <3>1, <3>2
  <2>3. QED
    BY <2>1, <2>2
<1>13. CASE /\ x.pc \in {"zadd", "zrank", "zcard"} /\ y.pc \in {"zrank", "zcard", "update"}
            /\ y.best = x.best /\ y.score = x.score
            /\ y.batch = x.batch /\ UNCHANGED board
  <2>1. CASE Pending(b, p, e)
    BY <1>3, <1>4, <1>8, <1>13, <2>1 DEF SlotOK, Pending
  <2>2. CASE ~Pending(b, p, e) /\ Current(x, p, e)
    <3>1. PICK t, raw : t = x.best /\ raw = x.score
      OBVIOUS
    <3>2. Right(p, e, t, raw)
      BY <1>13, <2>2, <3>1 DEF SlotOK, SlotRight
    <3>3. Right(p, e, t, raw)'
      BY <1>2, <3>2
    <3>4. Right(p, e, bridge[b].best, bridge[b].score)'
      BY <1>13, <3>1, <3>3 DEF Right
    <3>5. Current(bridge[b], p, e)'
      BY <1>13, <2>2 DEF Current
    <3>6. QED
      BY <1>13, <3>4, <3>5 DEF SlotOK, SlotRight
  <2>3. CASE ~Pending(b, p, e) /\ ~Current(x, p, e)
    <3>1. BoardRight(p, e)'
      BY <1>5, <1>13, <2>3 DEF SlotOK, SlotRight
    <3>2. ~Current(bridge[b], p, e)'
      BY <1>13, <2>3 DEF Current
    <3>3. QED
      BY <1>13, <3>1, <3>2 DEF SlotOK, SlotRight
  <2>4. QED
    BY <2>1, <2>2, <2>3
<1>14. CASE UpdateSingleEntry(b) /\ y.pc = "contest" /\ y.batch = x.batch
  <2>0. x.pc = "update"
    BY <1>14 DEF UpdateSingleEntry
  <2>1. CASE Pending(b, p, e)
    BY <1>3, <1>4, <1>8, <1>14, <2>0, <2>1 DEF SlotOK, Pending
  <2>2. CASE ~Pending(b, p, e) /\ Current(x, p, e)
    <3>0. Phase(b) = p /\ Entry(b) = e
      BY <1>7, <2>2
    <3>1. PICK t, raw : t = x.best /\ raw = x.score
      OBVIOUS
    <3>2. Right(p, e, t, raw)'
      BY <1>2, <2>0, <2>2, <3>1 DEF SlotOK, SlotRight
    <3>3. board[p][e].rank = 0 => board'[p][e].rank = 0
      BY <1>14, <3>0 DEF UpdateSingleEntry
    <3>4. board[p][e].rank # 0 => board'[p][e].chosen = t /\ board'[p][e].raw = raw
      <4> SUFFICES ASSUME board[p][e].rank # 0
          PROVE  board'[p][e].chosen = t /\ board'[p][e].raw = raw
        OBVIOUS
      <4> DEFINE r == board[p][e]
                 w == [r EXCEPT !.rank = bridge[b].rank, !.score = bridge[b].score,
                                !.raw = bridge[b].score, !.chosen = bridge[b].best,
                                !.count = bridge[b].card]
      <4>1. board' = [board EXCEPT ![p][e] = w]
        BY <1>14, <3>0 DEF UpdateSingleEntry
      <4>2. r \in TaskRow
        BY <1>0
      <4> HIDE DEF r
      <4>3. w.chosen = bridge[b].best /\ w.raw = bridge[b].score
        BY <4>2 DEF TaskRow
      <4> HIDE DEF w
      <4>4. board'[p][e] = w
        BY <1>0, <4>1
      <4>5. QED
        BY <3>1, <4>3, <4>4
    <3>5. BoardRight(p, e)'
      BY <3>2, <3>3, <3>4 DEF BoardRight, Right
    <3>6. QED
      BY <1>6, <1>14, <3>5 DEF SlotOK
  <2>3. CASE ~Pending(b, p, e) /\ ~Current(x, p, e)
    <3>1. ~(Phase(b) = p /\ Entry(b) = e)
      BY <1>7, <1>9, <2>0, <2>3
    <3> DEFINE w == [board[Phase(b)][Entry(b)] EXCEPT
                       !.rank = bridge[b].rank, !.score = bridge[b].score,
                       !.raw = bridge[b].score, !.chosen = bridge[b].best,
                       !.count = bridge[b].card]
    <3>2. board' = board \/ board' = [board EXCEPT ![Phase(b)][Entry(b)] = w]
      BY <1>14 DEF UpdateSingleEntry
    <3> HIDE DEF w
    <3>3. board'[p][e] = board[p][e]
      BY <1>0, <1>9, <2>0, <3>1, <3>2
    <3>4. QED
      BY <1>5, <1>6, <1>14, <2>0, <2>3, <3>3 DEF SlotOK, SlotRight
  <2>4. QED
    BY <2>1, <2>2, <2>3
<1>15. CASE /\ x.pc = "full" /\ y.pc = "write_task" /\ y.rows = BridgeTaskRows(Phase(b))
            /\ y.batch = x.batch /\ UNCHANGED board
  <2>1. CASE Phase(b) = p
    <3>1. PICK v : v = y
      OBVIOUS
    <3>2. RowsRight(v, p, e)
      BY <1>0, <1>15, <2>1, <3>1, RowsAreRight
    <3>3. RowsRight(v, p, e)'
      BY <1>2, <3>2 DEF RowsRight
    <3>4. RowsRight(bridge[b], p, e)'
      BY <3>1, <3>3 DEF RowsRight, Right
    <3>5. PhaseOf[Head(bridge'[b].batch)] = p
      BY <1>15, <2>1 DEF Phase
    <3>6. QED
      BY <1>15, <3>4, <3>5 DEF SlotOK, SlotRight
  <2>2. CASE Phase(b) # p
    <3>0. ~Current(x, p, e) /\ PhaseOf[Head(bridge'[b].batch)] # p
      BY <1>7, <1>15, <2>2 DEF Phase
    <3>1. CASE Pending(b, p, e)
      BY <1>3, <1>4, <1>8, <1>15, <3>0, <3>1 DEF SlotOK, Pending
    <3>2. CASE ~Pending(b, p, e)
      BY <1>5, <1>15, <3>0, <3>2 DEF SlotOK, SlotRight
    <3>3. QED
      BY <3>1, <3>2
  <2>3. QED
    BY <2>1, <2>2
<1>16. CASE WriteTaskRows(b) /\ y.pc = "seed_read" /\ y.batch = x.batch
  <2>0. x.pc = "write_task" /\ board' = [board EXCEPT ![Phase(b)] = Upsert(@, x.rows)]
    BY <1>16 DEF WriteTaskRows
  <2>1. CASE Pending(b, p, e)
    BY <1>3, <1>4, <1>8, <1>16, <2>0, <2>1 DEF SlotOK, Pending
  <2>2. CASE ~Pending(b, p, e) /\ Phase(b) = p
    <3>1. RowsRight(x, p, e) /\ TaskRows(x.rows)
      BY <1>0, <2>0, <2>2 DEF SlotOK, SlotRight, Phase, BridgeOK
    <3>2. PICK table \in [Entries -> TaskRow] : table = board[p]
      BY <1>0
    <3>3. PICK row : row = Upsert(table, x.rows)[e]
      OBVIOUS
    <3>4. PICK v : v = x
      OBVIOUS
    <3>5. Right(p, e, row.chosen, row.raw)
      BY <3>1, <3>3, <3>4, WrittenRowsRight
    <3>6. Right(p, e, row.chosen, row.raw)'
      BY <1>2, <3>5
    <3>7. board'[p][e] = row
      BY <1>0, <2>0, <2>2, <3>2, <3>3
    <3>8. BoardRight(p, e)'
      BY <3>6, <3>7 DEF BoardRight
    <3>9. QED
      BY <1>6, <1>16, <3>8 DEF SlotOK
  <2>3. CASE ~Pending(b, p, e) /\ Phase(b) # p
    <3>1. board'[p][e] = board[p][e]
      BY <1>0, <1>9, <2>0, <2>3
    <3>2. BoardRight(p, e)
      BY <2>0, <2>3 DEF SlotOK, SlotRight, Phase
    <3>3. QED
      BY <1>5, <1>6, <1>16, <3>1, <3>2 DEF SlotOK
  <2>4. QED
    BY <2>1, <2>2, <2>3
<1>17. CASE /\ x.pc \in {"seed_read", "seed", "contest", "write_contest", "global", "write_global"}
            /\ y.pc \in {"seed", "contest", "write_contest", "global", "write_global", "stale"}
            /\ y.batch = x.batch /\ UNCHANGED board
  <2>1. CASE Pending(b, p, e)
    BY <1>3, <1>4, <1>8, <1>17, <2>1 DEF SlotOK, Pending
  <2>2. CASE ~Pending(b, p, e)
    BY <1>5, <1>6, <1>17, <2>2 DEF SlotOK, SlotRight
  <2>3. QED
    BY <2>1, <2>2
<1>18. CASE /\ x.pc \in {"global", "write_global", "stale"} /\ NextMessage(b) /\ UNCHANGED board
  BY <1>1, <1>2, <1>18, SlotNext
<1>19. CASE x.pc = "idle" /\ y.pc = "stopped" /\ UNCHANGED board
  BY <1>4, <1>19 DEF SlotOK, Pending, HeldOf
<1>20. QED
  BY <1>10, <1>11, <1>12, <1>13, <1>14, <1>15, <1>16, <1>17, <1>18, <1>19, TaskCourse
-----------------------------------------------------------------------------
\* What the other processes do about a slot is announced.
LEMMA SlotOthers ==
  ASSUME TypeInv, Others, NEW b \in Bridges, "emit" \notin Faults, "rejudge" \notin Requests,
         "task" \notin Requests, NoTaskRequest,
         NEW p \in Phases, NEW e \in Entries, SlotOK(b, p, e)
  PROVE  SlotOK(b, p, e)'
<1>1. UNCHANGED bridge /\ UNCHANGED board
  BY OthersAnnounce, HandlersLeaveTaskBoards
<1>2. CASE (\E s \in Subs : OfSlot(s, p, e) /\ sub'[s] # sub[s]) \/ UnreadOf(p, e)
  BY <1>2, SlotAnnounced DEF SlotOK, Pending
<1>3. CASE HeldOf(bridge[b], p, e)
  BY <1>1, <1>3 DEF SlotOK, Pending, HeldOf
<1>4. CASE /\ \A s \in Subs : OfSlot(s, p, e) => sub'[s] = sub[s]
           /\ SlotRight(bridge[b], p, e)
  <2>1. /\ Candidates(p, e)' = Candidates(p, e)
        /\ \A s, raw : Right(p, e, s, raw) => Right(p, e, s, raw)'
    BY <1>4, SlotFrame
  <2>2. PICK x, row : x = bridge[b] /\ row = board[p][e]
    OBVIOUS
  <2>3. Right(p, e, x.best, x.score) => Right(p, e, x.best, x.score)'
    BY <2>1
  <2>4. RowsRight(x, p, e) => RowsRight(x, p, e)'
    BY <2>1 DEF RowsRight
  <2>5. Right(p, e, row.chosen, row.raw) => Right(p, e, row.chosen, row.raw)'
    BY <2>1
  <2>6. BoardRight(p, e) => BoardRight(p, e)'
    BY <1>1, <2>2, <2>5 DEF BoardRight
  <2>7. SlotRight(x, p, e) => SlotRight(x, p, e)'
    BY <2>3, <2>4, <2>6 DEF SlotRight, Current
  <2>8. SlotRight(bridge[b], p, e)'
    BY <1>1, <1>4, <2>2, <2>7 DEF SlotRight, RowsRight, Right, Current, BoardRight
  <2>9. QED
    BY <2>8 DEF SlotOK
<1>5. QED
  BY <1>2, <1>3, <1>4 DEF SlotOK, Pending

LEMMA NextTask ==
  ASSUME NEW b, Bridges = {b}, \A p \in Phases : Mode[p] = "best" /\ HigherIsBetter[p] = TRUE,
         "emit" \notin Faults, "full" \notin Faults, "crash" \notin Faults,
         "rejudge" \notin Requests, "task" \notin Requests
  PROVE  TypeInv /\ NoTaskRequest /\ TaskInv(b) /\ [Next]_vars => NoTaskRequest' /\ TaskInv(b)'
<1> SUFFICES ASSUME TypeInv, NoTaskRequest, TaskInv(b), [Next]_vars
    PROVE  NoTaskRequest' /\ TaskInv(b)'
  OBVIOUS
<1>0. b \in Bridges /\ \A p \in Phases, e \in Entries : SlotOK(b, p, e)
  BY DEF TaskInv, SlotOK
<1>1. CASE Others
  <2>1. ASSUME NEW p \in Phases, NEW e \in Entries PROVE SlotOK(b, p, e)'
    BY <1>0, <1>1, SlotOthers
  <2>2. NoTaskRequest'
    BY <1>1, HandlersLeaveTaskBoards
  <2>3. QED
    BY <2>1, <2>2 DEF TaskInv, SlotOK
<1>2. CASE BridgeStep(b) \/ BridgeFault(b)
  <2>1. ASSUME NEW p \in Phases, NEW e \in Entries PROVE SlotOK(b, p, e)'
    <3>1. Mode[p] = "best" /\ HigherIsBetter[p] = TRUE
      OBVIOUS
    <3>2. QED
      BY <1>0, <1>2, <3>1, SlotStep
  <2>2. NoTaskRequest'
    BY <1>0, <1>2, BridgeConsumes DEF NoTaskRequest
  <2>3. QED
    BY <2>1, <2>2 DEF TaskInv, SlotOK
<1>3. CASE UNCHANGED vars
  BY <1>3 DEF vars, TaskInv, NoTaskRequest, Pending, UnreadOf, HeldOf, SlotRight, Current,
              RowsRight, BoardRight, Right, IsFirst, Candidates, BridgeKey, FinalFirst, ModeKey,
              Signed
<1>4. QED
  BY <1>1, <1>2, <1>3, NextSplits

LEMMA InitTask ==
  ASSUME NEW b, Bridges = {b}
  PROVE  Init => NoTaskRequest /\ TaskInv(b)
<1> SUFFICES ASSUME Init PROVE NoTaskRequest /\ TaskInv(b)
  OBVIOUS
<1>1. NoTaskRequest
  BY DEF Init, Idle, NoTaskRequest
<1>2. bridge[b].pc = "idle"
  BY DEF Init, Fresh
<1>3. \A p \in Phases, e \in Entries : BoardRight(p, e)
  BY DEF Init, NoRow, BoardRight
<1>4. QED
  BY <1>1, <1>2, <1>3 DEF TaskInv, SlotRight

LEMMA TaskSettles ==
  ASSUME NEW b, Bridges = {b}
  PROVE  TypeInv /\ TaskInv(b) => TaskRowsFollow
<1> SUFFICES ASSUME TypeInv, TaskInv(b), Settled, NEW p \in Phases, NEW e \in Entries,
                    board[p][e].rank # 0, Candidates(p, e) # {}
    PROVE  /\ board[p][e].chosen = FirstBy(BridgeKey, Candidates(p, e))
           /\ board[p][e].raw = sub[FirstBy(BridgeKey, Candidates(p, e))].score
  BY DEF TaskRowsFollow
<1>1. bridge[b].pc = "idle" /\ bridge[b].batch = <<>> /\ SubTyped
  BY DEF Settled, TypeInv, BridgesOK, BridgeOK, WorldOK
<1>2. ~Pending(b, p, e)
  BY <1>1 DEF Settled, Pending, UnreadOf, HeldOf, Idle
<1>3. BoardRight(p, e)
  BY <1>1, <1>2 DEF TaskInv, SlotRight
<1> DEFINE s == FirstBy(BridgeKey, Candidates(p, e))
<1>4. IsFirst(s, Candidates(p, e))
  BY <1>1, FirstIsFirst
<1> HIDE DEF s
<1>5. s \in Subs
  BY <1>4 DEF IsFirst, Candidates
<1>6. board[p][e].chosen = s /\ board[p][e].raw = sub[s].score
  BY <1>3, <1>4, <1>5 DEF BoardRight, Right
<1>7. QED
  BY <1>6 DEF s

\* The task boards where higher scores are better and the best one counts: one
\* bridge that loses neither an announcement nor a recomputation of a task board
\* leaves every row it has written, when it has caught up, with the submission
\* that counts for that entry and the score it has now.  Both ways of writing a
\* row, the update of one entry and the recomputation of all, come to it from a
\* message they share with other entries, in whichever order the results came
\* and whatever was marked final meanwhile; an error of the incremental path,
\* of the other boards or of the read changes nothing of it.
THEOREM TaskBoardsFollow ==
  ASSUME NEW b, Bridges = {b}, \A p \in Phases : Mode[p] = "best" /\ HigherIsBetter[p] = TRUE,
         "emit" \notin Faults, "full" \notin Faults, "crash" \notin Faults,
         "rejudge" \notin Requests, "task" \notin Requests
  PROVE  Spec => []TaskRowsFollow
<1>1. Init => TypeInv /\ NoTaskRequest /\ TaskInv(b)
  BY InitTypes, InitTask
<1>2. TypeInv /\ NoTaskRequest /\ TaskInv(b) /\ [Next]_vars
        => TypeInv' /\ NoTaskRequest' /\ TaskInv(b)'
  BY NextTypes, NextTask
<1>3. TypeInv /\ TaskInv(b) => TaskRowsFollow
  BY TaskSettles
<1>4. QED
  BY <1>1, <1>2, <1>3, PTL DEF Spec
-----------------------------------------------------------------------------
(***************************************************************************)
(* The pages of the contest board.  The rows of one recomputation are in   *)
(* order among themselves, but a page shows the rows of the table: they    *)
(* must all be of the same recomputation.  An entry with a result keeps    *)
(* one when no submission is judged again, so each recomputation replaces  *)
(* every row that an earlier one has written.                              *)
(***************************************************************************)

\* The total of an entry's points over the phases it has a result in.
TotalOf(c, e) == SumOver(c, e, LAMBDA p : Points(c[p], e))

LEMMA TotalTyped ==
  ASSUME NEW c, \A p \in Phases : ScoredChoices(c[p]), NEW e,
         IsFiniteSet({p \in Phases : e \in DOMAIN c[p]})
  PROVE  TotalOf(c, e) \in Nat
<1> DEFINE S == {p \in Phases : e \in DOMAIN c[p]}
           f == [p \in S |-> Points(c[p], e)]
           Solves(g) == g = [s \in SUBSET S |-> IF s = {} THEN 0
                                                ELSE Points(c[Pick(s)], e) + g[s \ {Pick(s)}]]
<1>1. TotalOf(c, e) = (CHOOSE g : Solves(g))[S]
  BY DEF TotalOf, SumOver, MapThenSumSet, MapThenFoldSet, Pick
<1>2. \A p \in S : f[p] = Points(c[p], e) /\ f[p] \in Nat
  BY PointsTyped
<1>3. \A s \in SUBSET S : s # {} => Pick(s) \in S
  BY DEF Pick
<1>4. IsFiniteSet(S)
  OBVIOUS
<1> HIDE DEF f
<1>5. ASSUME NEW g PROVE Solves(g) <=> Sums(f, S, g)
  <2>1. \A s \in SUBSET S : s # {} => f[Pick(s)] = Points(c[Pick(s)], e)
    BY <1>2, <1>3
  <2> HIDE DEF S
  <2>2. [s \in SUBSET S |-> IF s = {} THEN 0 ELSE Points(c[Pick(s)], e) + g[s \ {Pick(s)}]]
          = [s \in SUBSET S |-> IF s = {} THEN 0 ELSE f[Pick(s)] + g[s \ {Pick(s)}]]
    BY <2>1
  <2>3. QED
    BY <2>2 DEF Sums
<1> HIDE DEF S
<1>6. PICK g : Sums(f, S, g)
  BY <1>4, SumsExist
<1> DEFINE g2 == CHOOSE h : Solves(h)
<1>7. Solves(g2)
  <2> HIDE DEF Solves
  <2> QED  BY <1>5, <1>6
<1> HIDE DEF g2, Solves
<1>8. SumOf(f, S) = g2[S]
  BY <1>4, <1>5, <1>7, SumIs
<1>9. SumOf(f, S) \in Nat
  BY <1>2, <1>4, SumTyped
<1>10. QED
  BY <1>1, <1>8, <1>9 DEF g2

\* DenseRank, for keys that are given by a function.
Place(K, S, x) == 1 + Cardinality({K[y] : y \in {z \in S : Precedes(K[z], K[x])}})

\* A greater total has a smaller dense rank.
LEMMA RankFalls ==
  ASSUME NEW S, IsFiniteSet(S), NEW t \in [S -> Nat], NEW K, \A x \in S : K[x] = <<-t[x]>>,
         NEW e \in S, NEW f \in S
  PROVE  /\ Place(K, S, e) \in Nat
         /\ t[e] < t[f] => Place(K, S, f) < Place(K, S, e)
<1> DEFINE Ahead(x) == {z \in S : Precedes(K[z], K[x])}
           Before(x) == {K[y] : y \in Ahead(x)}
<1>1. ASSUME NEW x \in S, NEW y \in S PROVE Precedes(K[x], K[y]) <=> t[y] < t[x]
  <2>1. Precedes(<<-t[x]>>, <<-t[y]>>) <=> -t[x] < -t[y]
    BY DEF Precedes
  <2>2. t[x] \in Nat /\ t[y] \in Nat
    OBVIOUS
  <2>3. -t[x] < -t[y] <=> t[y] < t[x]
    BY <2>2
  <2>4. QED
    BY <2>1, <2>3
<1>2. ASSUME NEW x \in S PROVE IsFiniteSet(Before(x)) /\ Cardinality(Before(x)) \in Nat
  <2>1. IsFiniteSet(Ahead(x))
    BY FS_Subset
  <2> HIDE DEF Ahead
  <2>2. IsFiniteSet(Before(x))
    BY <2>1, ImageFinite
  <2>3. QED
    BY <2>2, FS_CardinalityType
<1>3. \A x : Place(K, S, x) = 1 + Cardinality(Before(x))
  BY DEF Place
<1>4. ASSUME t[e] < t[f] PROVE Cardinality(Before(f)) < Cardinality(Before(e))
  <2>1. Ahead(f) \subseteq Ahead(e)
    <3>1. \A z \in S : t[f] < t[z] => t[e] < t[z]
      BY <1>4
    <3>2. QED
      BY <1>1, <3>1
  <2>2. f \in Ahead(e)
    BY <1>1, <1>4
  <2>3. ASSUME NEW z \in Ahead(f) PROVE K[z] # K[f]
    <3>1. ~Precedes(K[f], K[f])
      BY <1>1
    <3>2. Precedes(K[z], K[f])
      OBVIOUS
    <3>3. QED
      BY <3>1, <3>2
  <2> HIDE DEF Ahead
  <2>4. Before(f) \subseteq Before(e) /\ K[f] \in Before(e) /\ K[f] \notin Before(f)
    BY <2>1, <2>2, <2>3
  <2>5. IsFiniteSet(Before(e)) /\ Cardinality(Before(e)) \in Nat /\ Cardinality(Before(f)) \in Nat
    BY <1>2
  <2> HIDE DEF Before
  <2>6. Cardinality(Before(f)) <= Cardinality(Before(e)) /\ Cardinality(Before(e)) # Cardinality(Before(f))
    BY <2>4, <2>5, FS_Subset
  <2>7. QED
    BY <2>5, <2>6
<1> HIDE DEF Before
<1>5. Place(K, S, e) \in Nat
  BY <1>2, <1>3
<1>6. t[e] < t[f] => Place(K, S, f) < Place(K, S, e)
  BY <1>2, <1>3, <1>4
<1>7. QED
  BY <1>5, <1>6

\* Some rows in order among themselves.
Ordered(table, S) ==
  /\ \A e \in S : table[e].rank \in Nat /\ table[e].score \in Nat
  /\ \A e, f \in S : table[e].score < table[f].score => table[f].rank < table[e].rank
HasResult(e) == \E p \in Phases : Candidates(p, e) # {}

\* The bridge's query answers for every entry with a result, in order.
LEMMA RowsInOrder ==
  ASSUME SubTyped
  PROVE  /\ DOMAIN BridgeContestRows = {e \in Entries : HasResult(e)}
         /\ Ordered(BridgeContestRows, DOMAIN BridgeContestRows)
<1> DEFINE c == [p \in Phases |-> Chosen(BridgeKey, p)]
           S == Entered(c)
           t == [e \in S |-> TotalOf(c, e)]
           Key(e) == <<-TotalOf(c, e)>> \o <<>>
           K == [e \in S |-> Key(e)]
<1>1. BridgeContestRows = ContestRows(c, dq, FALSE)
  BY DEF BridgeContestRows
<1>2. /\ \A p \in Phases : ScoredChoices(c[p])
      /\ \A p \in Phases : DOMAIN c[p] = {f \in Entries : Candidates(p, f) # {}}
  BY ChosenTyped
<1>3. IsFiniteSet(S) /\ S = {e \in Entries : HasResult(e)}
  <2>1. S = {e \in Entries : HasResult(e)}
    BY <1>2 DEF Entered, HasResult
  <2>2. QED
    BY <2>1, FiniteAssumption, FS_Subset
<1>4. ASSUME NEW e PROVE IsFiniteSet({p \in Phases : e \in DOMAIN c[p]})
  <2> DEFINE T == {p \in Phases : e \in DOMAIN c[p]}
             R == {PhaseOf[s] : s \in Subs}
  <2>1. ASSUME NEW p \in T PROVE p \in R
    <3>1. Candidates(p, e) # {}
      BY <1>2
    <3>2. QED
      BY <3>1 DEF Candidates
  <2>2. IsFiniteSet(R)
    BY FiniteAssumption, ImageFinite
  <2> HIDE DEF T, R
  <2>3. T \subseteq R
    BY <2>1
  <2>4. IsFiniteSet(T)
    BY <2>2, <2>3, FS_Subset
  <2>5. QED
    BY <2>4 DEF T
<1> HIDE DEF c
<1>5. t \in [S -> Nat]
  <2>1. ASSUME NEW e \in S PROVE TotalOf(c, e) \in Nat
    BY <1>2, <1>4, TotalTyped
  <2>2. QED
    BY <2>1
<1>6. \A e \in S : t[e] = TotalOf(c, e) /\ K[e] = <<-t[e]>>
  <2>1. ASSUME NEW x PROVE <<x>> \o <<>> = <<x>>
    OBVIOUS
  <2>2. QED
    BY <2>1
<1>7. ASSUME NEW e \in S PROVE DenseRank(Key, S, e) = Place(K, S, e)
  <2> HIDE DEF Key
  <2>1. \A z \in S : K[z] = Key(z)
    OBVIOUS
  <2> HIDE DEF K, S
  <2>2. {z \in S : Precedes(Key(z), Key(e))} = {z \in S : Precedes(K[z], K[e])}
    BY <1>7, <2>1
  <2>3. {Key(y) : y \in {z \in S : Precedes(Key(z), Key(e))}}
          = {K[y] : y \in {z \in S : Precedes(K[z], K[e])}}
    BY <2>1, <2>2
  <2>4. QED
    BY <2>3 DEF DenseRank, Place
<1>8. ASSUME NEW e \in S
      PROVE  BridgeContestRows[e].rank = DenseRank(Key, S, e) /\ BridgeContestRows[e].score = TotalOf(c, e)
  <2>1. BridgeContestRows[e] = [ContestTotals(c, FALSE)[e] EXCEPT !.dq = e \in dq]
    BY <1>1 DEF ContestRows
  <2>2. DOMAIN ContestTotals(c, FALSE)[e] = {"rank", "score", "raw", "count", "dq"}
    BY Zenon DEF ContestTotals
  <2>3. ContestTotals(c, FALSE)[e].score = TotalOf(c, e)
    BY Zenon DEF ContestTotals, TotalOf
  <2>4. ContestTotals(c, FALSE)[e].rank = DenseRank(Key, S, e)
    <3> DEFINE Long(x) == <<-TotalOf(c, x)>>
                          \o (IF FALSE THEN <<SumOver(c, x, LAMBDA p : c[p][x].sub),
                                              SumOver(c, x, LAMBDA p : 1)>>
                              ELSE <<>>)
    <3>1. ContestTotals(c, FALSE)[e].rank
            = 1 + Cardinality({Long(y) : y \in {z \in S : Precedes(Long(z), Long(e))}})
      BY Zenon DEF ContestTotals, TotalOf, DenseRank
    <3>2. ASSUME NEW x PROVE Long(x) = Key(x)
      BY Zenon
    <3> HIDE DEF Long, Key
    <3>3. {z \in S : Precedes(Long(z), Long(e))} = {z \in S : Precedes(Key(z), Key(e))}
      BY <3>2
    <3>4. {Long(y) : y \in {z \in S : Precedes(Long(z), Long(e))}}
            = {Key(y) : y \in {z \in S : Precedes(Key(z), Key(e))}}
      BY <3>2, <3>3
    <3>5. QED
      BY <3>1, <3>4 DEF DenseRank
  <2> HIDE DEF Key
  <2>5. QED
    BY Zenon, <2>1, <2>2, <2>3, <2>4
<1>9. DOMAIN BridgeContestRows = S
  BY <1>1 DEF ContestRows
<1> HIDE DEF S, Key, K, t
<1>10. \A e, f \in S : /\ Place(K, S, e) \in Nat
                       /\ t[e] < t[f] => Place(K, S, f) < Place(K, S, e)
  BY <1>3, <1>5, <1>6, RankFalls
<1>11. \A e \in S : BridgeContestRows[e].rank = Place(K, S, e) /\ BridgeContestRows[e].score = t[e]
  BY <1>6, <1>7, <1>8
<1>12. QED
  BY <1>3, <1>5, <1>9, <1>10, <1>11 DEF Ordered

\* The entries the board shows are in order and have results, and so are the
\* rows that the bridge has in hand, which replace all of theirs.
Shown == {e \in Entries : cboard[e].rank # 0}
RowsReplaceBoard(rows) ==
  /\ Shown \subseteq DOMAIN rows /\ DOMAIN rows \subseteq Entries
  /\ Ordered(rows, DOMAIN rows)
  /\ \A e \in DOMAIN rows : HasResult(e)
OrderInv(b) ==
  /\ Ordered(cboard, Shown)
  /\ \A e \in Shown : HasResult(e)
  /\ bridge[b].pc = "write_contest" => RowsReplaceBoard(bridge[b].rows)

LEMMA OrderFollows ==
  ASSUME TypeInv, NEW b, OrderInv(b)
  PROVE  PageInOrder
<1> SUFFICES ASSUME NEW page \in Pages(cboard), NEW i \in DOMAIN page, NEW j \in DOMAIN page, i < j
             PROVE  cboard[page[i]].score >= cboard[page[j]].score
  BY DEF PageInOrder
<1> DEFINE Key(e) == <<cboard[e].rank, cboard[e].count>>
<1>1. DOMAIN cboard = Entries
  BY DEF TypeInv, TablesOK
<1>2. page \in Bijection(1 .. Cardinality(Shown), Shown) /\ ~Precedes(Key(page[j]), Key(page[i]))
  BY <1>1 DEF Pages, Shown
<1>3. page[i] \in Shown /\ page[j] \in Shown
  BY <1>2 DEF Bijection, Injection
<1>4. ~(cboard[page[j]].rank < cboard[page[i]].rank)
  BY <1>2 DEF Precedes
<1>5. ~(cboard[page[i]].score < cboard[page[j]].score)
  BY <1>3, <1>4 DEF OrderInv, Ordered
<1>6. cboard[page[i]].score \in Nat /\ cboard[page[j]].score \in Nat
  BY <1>3 DEF OrderInv, Ordered
<1>7. QED
  BY <1>5, <1>6

\* No step takes the results of an entry away, when nobody judges again.
LEMMA ResultsStay ==
  ASSUME TypeInv, [Next]_vars, "rejudge" \notin Requests, NEW e, HasResult(e)
  PROVE  HasResult(e)'
<1>1. PICK p \in Phases : \E s : s \in Candidates(p, e)
  BY DEF HasResult
<1>2. PICK s : s \in Candidates(p, e)
  BY <1>1
<1>3. \E t : t \in Candidates(p, e)'
  BY <1>2, CandidatesGrow
<1>4. QED
  BY <1>3 DEF HasResult

\* A recomputation that writes nothing, and a restart.
LEMMA BoardGivenUp ==
  ASSUME TypeInv, NEW b \in Bridges, BoardFails(b) \/ Restart(b)
  PROVE  bridge'[b].pc # "write_contest" /\ UNCHANGED cboard
<1>1. b \in DOMAIN bridge
  BY DEF TypeInv, BridgesOK
<1>2. UNCHANGED cboard
  BY DEF BoardFails, Restart, tables
<1>3. CASE Restart(b)
  BY <1>1, <1>2, <1>3 DEF Restart, Fresh
<1>4. CASE BoardFails(b)
  BY <1>2, <1>4, Goes, NextTaken DEF BoardFails
<1>5. QED
  BY <1>3, <1>4

\* Writing rows that replace all of the board's.
LEMMA OrderWritten ==
  ASSUME NEW rows, RowsReplaceBoard(rows), DOMAIN cboard = Entries,
         \A e \in DOMAIN rows : DOMAIN rows[e] = DOMAIN NoContestRow,
         cboard' = Upsert(cboard, rows)
  PROVE  Ordered(cboard', Shown') /\ Shown' \subseteq DOMAIN rows
<1>1. ASSUME NEW e \in DOMAIN rows
      PROVE  cboard'[e].rank = rows[e].rank /\ cboard'[e].score = rows[e].score
  <2>1. e \in Entries
    BY DEF RowsReplaceBoard
  <2>2. cboard'[e] = rows[e] \/ cboard'[e] = [rows[e] EXCEPT !.dq = cboard[e].dq]
    BY <2>1 DEF Upsert
  <2>3. DOMAIN rows[e] = {"rank", "score", "raw", "count", "dq"}
    BY DEF NoContestRow
  <2>4. QED
    BY <2>2, <2>3
<1>2. ASSUME NEW e \in Entries, e \notin DOMAIN rows PROVE cboard'[e].rank = 0
  <2>1. cboard'[e] = cboard[e]
    BY <1>2 DEF Upsert
  <2>2. e \notin Shown
    BY <1>2 DEF RowsReplaceBoard
  <2>3. QED
    BY <2>1, <2>2 DEF Shown
<1>3. Shown' \subseteq DOMAIN rows
  BY <1>2 DEF Shown
<1>4. \A e, f \in DOMAIN rows : /\ rows[e].rank \in Nat /\ rows[e].score \in Nat
                                /\ rows[e].score < rows[f].score => rows[f].rank < rows[e].rank
  BY DEF RowsReplaceBoard, Ordered
<1>5. QED
  BY <1>1, <1>3, <1>4 DEF Ordered

LEMMA NextOrder ==
  ASSUME NEW b, Bridges = {b}, "rejudge" \notin Requests, "contest" \notin Requests
  PROVE  TypeInv /\ NoContestRequest /\ OrderInv(b) /\ [Next]_vars
           => NoContestRequest' /\ OrderInv(b)'
<1> SUFFICES ASSUME TypeInv, NoContestRequest, OrderInv(b), [Next]_vars
    PROVE  NoContestRequest' /\ OrderInv(b)'
  OBVIOUS
<1>0. b \in Bridges /\ BridgeOK(bridge[b]) /\ DOMAIN cboard = Entries
  BY DEF TypeInv, BridgesOK, TablesOK
<1>1. \A e : HasResult(e) => HasResult(e)'
  BY ResultsStay
<1>2. NoContestRequest'
  <2>1. CASE Others
    BY <2>1, HandlersWriteOthers
  <2>2. CASE BridgeStep(b) \/ BridgeFault(b)
    BY <1>0, <2>2, BridgeConsumes DEF NoContestRequest
  <2>3. CASE UNCHANGED vars
    BY <2>3 DEF vars, NoContestRequest
  <2>4. QED
    BY <2>1, <2>2, <2>3, NextSplits
<1>3. ASSUME UNCHANGED cboard,
             \/ bridge'[b].pc # "write_contest"
             \/ bridge'[b].pc = bridge[b].pc /\ bridge'[b].rows = bridge[b].rows
      PROVE  OrderInv(b)'
  <2>1. Shown' = Shown
    BY <1>3 DEF Shown
  <2>2. Ordered(cboard', Shown') /\ \A e \in Shown' : HasResult(e)'
    BY <1>1, <1>3, <2>1 DEF OrderInv, Ordered
  <2>3. bridge'[b].pc = "write_contest" => RowsReplaceBoard(bridge[b].rows)'
    BY <1>1, <1>3, <2>1 DEF OrderInv, RowsReplaceBoard, Ordered
  <2>4. QED
    BY <2>2, <2>3 DEF OrderInv, Ordered
<1>4. CASE Others \/ UNCHANGED vars
  <2>1. UNCHANGED vars => UNCHANGED <<bridge, cboard>>
    BY DEF vars
  <2>2. Others => UNCHANGED bridge
    BY DEF Others, Judge, EnqueueResult, Rejudge, Disqualify, ResetOtherFinals, MarkFinal, EmitFinal,
           Asks, TaskPhaseBoard, ContestPhaseBoard, GlobalPhaseRanking, Request, HandlerWrites
  <2>3. Others => UNCHANGED cboard
    BY HandlersWriteOthers
  <2>4. QED
    BY <1>2, <1>3, <1>4, <2>1, <2>2, <2>3
<1>5. CASE BoardFails(b) \/ Restart(b)
  BY <1>0, <1>2, <1>3, <1>5, BoardGivenUp
<1>6. CASE (BridgeStep(b) \/ BridgeFault(b)) /\ ~BoardFails(b) /\ ~Restart(b)
  <2>1. CASE UNCHANGED cboard /\ bridge'[b].pc # "write_contest"
    BY <1>2, <1>3, <2>1
  <2>2. CASE /\ bridge[b].pc = "contest" /\ bridge'[b].pc = "write_contest"
             /\ bridge'[b].rows = BridgeContestRows /\ UNCHANGED cboard
    <3>1. SubTyped
      BY DEF TypeInv, WorldOK
    <3>2. Shown' = Shown
      BY <2>2 DEF Shown
    <3>3. Ordered(cboard', Shown') /\ \A e \in Shown' : HasResult(e)'
      BY <1>1, <2>2, <3>2 DEF OrderInv, Ordered
    <3>4. PICK rows : rows = BridgeContestRows
      OBVIOUS
    <3>5. /\ DOMAIN rows = {e \in Entries : HasResult(e)}
          /\ Ordered(rows, DOMAIN rows)
      BY <3>1, <3>4, RowsInOrder
    <3>6. Shown \subseteq DOMAIN rows
      BY <3>5 DEF OrderInv, Shown
    <3>7. RowsReplaceBoard(rows)'
      BY <1>1, <3>2, <3>5, <3>6 DEF RowsReplaceBoard, Ordered
    <3>8. bridge'[b].rows = rows
      BY <2>2, <3>4
    <3>9. RowsReplaceBoard(bridge[b].rows)'
      BY <3>7, <3>8 DEF RowsReplaceBoard, Ordered
    <3>10. QED
      BY <1>2, <3>3, <3>9 DEF OrderInv, Ordered
  <2>3. CASE /\ bridge[b].pc = "write_contest" /\ bridge'[b].pc = "global"
             /\ cboard' = Upsert(cboard, bridge[b].rows)
    <3>1. PICK rows : rows = bridge[b].rows
      OBVIOUS
    <3>2. RowsReplaceBoard(rows)
      BY <2>3, <3>1 DEF OrderInv
    <3>3. \A e \in DOMAIN rows : DOMAIN rows[e] = DOMAIN NoContestRow
      BY <1>0, <2>3, <3>1 DEF BridgeOK, ContestRow
    <3>4. Ordered(cboard', Shown') /\ Shown' \subseteq DOMAIN rows
      BY <1>0, <2>3, <3>1, <3>2, <3>3, OrderWritten
    <3>5. \A e \in Shown' : HasResult(e)'
      BY <1>1, <3>2, <3>4 DEF RowsReplaceBoard
    <3>6. QED
      BY <1>2, <2>3, <3>4, <3>5 DEF OrderInv, Ordered
  <2>4. QED
    BY <1>0, <1>6, <2>1, <2>2, <2>3, BridgeCourse DEF BeforeContest, IncrementalPC
<1>7. QED
  BY <1>4, <1>5, <1>6, NextSplits

\* A page of the contest board lists the entries by total, the best first, at
\* every step between two results, whichever of the rows with equal columns
\* comes first: one bridge writes the board, whatever it loses by a crash, a
\* failed recomputation or an announcement that is not sent, whatever is marked
\* final or disqualified meanwhile.  It needs that nobody judges again, because
\* an entry without a result would keep its old row among the new ones, and
\* that no reader recomputes this board, because the reader's rows may be older
\* than those it replaces.
THEOREM PagesAreInOrder ==
  ASSUME NEW b, Bridges = {b}, "rejudge" \notin Requests, "contest" \notin Requests
  PROVE  Spec => []PageInOrder
<1>1. Init => TypeInv /\ NoContestRequest /\ OrderInv(b)
  <2> SUFFICES ASSUME Init PROVE TypeInv /\ NoContestRequest /\ OrderInv(b)
    OBVIOUS
  <2>1. Shown = {}
    BY DEF Init, Shown, NoContestRow
  <2>2. NoContestRequest /\ bridge[b].pc # "write_contest"
    BY DEF Init, NoContestRequest, Idle, Fresh
  <2>3. QED
    BY <2>1, <2>2, InitTypes DEF OrderInv, Ordered
<1>2. TypeInv /\ NoContestRequest /\ OrderInv(b) /\ [Next]_vars
        => TypeInv' /\ NoContestRequest' /\ OrderInv(b)'
  BY NextTypes, NextOrder
<1>3. TypeInv /\ OrderInv(b) => PageInOrder
  BY OrderFollows
<1>4. QED
  BY <1>1, <1>2, <1>3, PTL DEF Spec
=============================================================================
