------------------------- MODULE RegistrationProofs -------------------------
(***************************************************************************)
(* What the tables of the participants keep, whatever requests overlap and *)
(* fail: their shape, what a submission refers to, the consent of a member *)
(* of a team, one entry per mode, a row for each file of what is queued,   *)
(* the size limit, and bounds on the submissions and the final marks that  *)
(* exceed what one request at a time would allow.                          *)
(***************************************************************************)
EXTENDS Registration, FiniteSums, SequenceTheorems
-----------------------------------------------------------------------------
(***************************************************************************)
(* The sum of the sizes of the files.                                      *)
(***************************************************************************)
Short(n) == {q \in Seq(Nat) : Len(q) <= n}

\* A sum of the sequences of at most n elements.
TailSums(g, n) ==
  /\ g \in [Short(n) -> Nat]
  /\ \A q \in Short(n) : g[q] = IF q = <<>> THEN 0 ELSE Head(q) + g[Tail(q)]

LEMMA ShortTails ==
  /\ Short(0) = {<<>>}
  /\ \A n \in Nat : <<>> \in Short(n) /\ Short(n) \subseteq Short(n + 1)
  /\ \A n \in Nat : \A q \in Short(n + 1) :
       q # <<>> => Head(q) \in Nat /\ Tail(q) \in Short(n)
<1>1. \A q \in Seq(Nat) : Len(q) \in Nat
  OBVIOUS
<1>2. \A q \in Seq(Nat) : q # <<>> =>
        Head(q) \in Nat /\ Tail(q) \in Seq(Nat) /\ Len(Tail(q)) = Len(q) - 1
  OBVIOUS
<1>3. \A q \in Seq(Nat) : Len(q) <= 0 <=> q = <<>>
  BY <1>1
<1>4. <<>> \in Seq(Nat) /\ Len(<<>>) = 0
  OBVIOUS
<1>5. Short(0) = {<<>>}
  BY <1>3, <1>4 DEF Short
<1>6. ASSUME NEW n \in Nat PROVE <<>> \in Short(n) /\ Short(n) \subseteq Short(n + 1)
  BY <1>1, <1>4 DEF Short
<1>7. ASSUME NEW n \in Nat, NEW q \in Short(n + 1), q # <<>>
      PROVE  Head(q) \in Nat /\ Tail(q) \in Short(n)
  <2>1. q \in Seq(Nat) /\ Len(q) <= n + 1 /\ Len(q) \in Nat
    BY <1>1 DEF Short
  <2>2. Head(q) \in Nat /\ Tail(q) \in Seq(Nat) /\ Len(Tail(q)) <= n
    BY <1>2, <1>7, <2>1
  <2>3. QED
    BY <2>2 DEF Short
<1>8. QED
  BY <1>5, <1>6, <1>7

LEMMA TailSumsExist == \A n \in Nat : \E g : TailSums(g, n)
<1> DEFINE S == {n \in Nat : \E g : TailSums(g, n)}
<1>1. 0 \in S
  <2>1. TailSums([q \in Short(0) |-> 0], 0)
    BY ShortTails DEF TailSums
  <2>2. QED
    BY <2>1
<1>2. ASSUME NEW n \in Nat, n \in S PROVE n + 1 \in S
  <2>1. PICK g : TailSums(g, n)
    BY <1>2
  <2> DEFINE k == [q \in Short(n + 1) |-> IF q = <<>> THEN 0 ELSE Head(q) + g[Tail(q)]]
  <2>2. \A q \in Short(n) : g[q] \in Nat
    BY <2>1 DEF TailSums
  <2>3. k \in [Short(n + 1) -> Nat]
    <3>1. ASSUME NEW q \in Short(n + 1), q # <<>> PROVE Head(q) + g[Tail(q)] \in Nat
      <4>1. Head(q) \in Nat /\ Tail(q) \in Short(n)
        BY <3>1, ShortTails
      <4>2. g[Tail(q)] \in Nat
        BY <2>2, <4>1
      <4>3. QED
        BY <4>1, <4>2
    <3>2. QED
      BY <3>1
  <2>4. \A q \in Short(n) : k[q] = g[q]
    <3>1. ASSUME NEW q \in Short(n) PROVE k[q] = g[q]
      <4>1. q \in Short(n + 1)
        BY ShortTails
      <4>2. g[q] = IF q = <<>> THEN 0 ELSE Head(q) + g[Tail(q)]
        BY <2>1 DEF TailSums
      <4>3. QED
        BY <4>1, <4>2
    <3>2. QED
      BY <3>1
  <2>5. \A q \in Short(n + 1) : q # <<>> => k[q] = Head(q) + k[Tail(q)]
    BY <2>4, ShortTails
  <2>6. \A q \in Short(n + 1) : q = <<>> => k[q] = 0
    OBVIOUS
  <2> HIDE DEF k
  <2>7. TailSums(k, n + 1)
    BY <2>3, <2>5, <2>6 DEF TailSums
  <2>8. QED
    BY <2>7
<1> HIDE DEF S
<1>3. Nat \subseteq S
  BY <1>1, <1>2, SetInduction
<1>4. QED
  BY <1>3 DEF S

SumOfShort(n) == CHOOSE g : TailSums(g, n)

\* All of them agree.
LEMMA TailSumsAgree ==
  ASSUME NEW q \in Seq(Nat), NEW a \in Nat, NEW b \in Nat, Len(q) <= a, Len(q) <= b
  PROVE  SumOfShort(a)[q] = SumOfShort(b)[q]
<1> DEFINE S == {n \in Nat : \A x \in Short(n), m, l \in Nat :
                   n <= m /\ n <= l => SumOfShort(m)[x] = SumOfShort(l)[x]}
<1>0. \A m \in Nat : TailSums(SumOfShort(m), m)
  BY TailSumsExist DEF SumOfShort
<1>1. 0 \in S
  <2>1. \A m \in Nat : SumOfShort(m)[<<>>] = 0
    BY <1>0, ShortTails DEF TailSums
  <2>2. QED
    BY <2>1, ShortTails
<1>2. ASSUME NEW n \in Nat, n \in S PROVE n + 1 \in S
  <2>1. ASSUME NEW x \in Short(n + 1), NEW m \in Nat, NEW l \in Nat, n + 1 <= m, n + 1 <= l
        PROVE  SumOfShort(m)[x] = SumOfShort(l)[x]
    <3>1. x \in Short(m) /\ x \in Short(l)
      BY <2>1 DEF Short
    <3>2. \A i \in {m, l} :
            SumOfShort(i)[x] = IF x = <<>> THEN 0 ELSE Head(x) + SumOfShort(i)[Tail(x)]
      BY <1>0, <3>1 DEF TailSums
    <3>3. x # <<>> => Tail(x) \in Short(n)
      BY ShortTails
    <3>4. x # <<>> => SumOfShort(m)[Tail(x)] = SumOfShort(l)[Tail(x)]
      BY <1>2, <2>1, <3>3
    <3>5. QED
      BY <3>2, <3>4
  <2>2. QED
    BY <2>1
<1> HIDE DEF S
<1>3. Nat \subseteq S
  BY <1>1, <1>2, SetInduction
<1>4. Len(q) \in S /\ q \in Short(Len(q))
  BY <1>3 DEF Short
<1>5. QED
  BY <1>4 DEF S

\* The recursion of Total defines it on every list of sizes.
LEMMA TotalUnfolds ==
  /\ Total[<<>>] = 0
  /\ \A q \in Seq(Nat) : q # <<>> => Total[q] = Head(q) + Total[Tail(q)]
<1> DEFINE F == [q \in Seq(Nat) |-> SumOfShort(Len(q))[q]]
           Body(f) == [q \in Seq(Nat) |-> IF q = <<>> THEN 0 ELSE Head(q) + f[Tail(q)]]
<1>0. \A m \in Nat : TailSums(SumOfShort(m), m)
  BY TailSumsExist DEF SumOfShort
<1>1. ASSUME NEW q \in Seq(Nat)
      PROVE  F[q] = IF q = <<>> THEN 0 ELSE Head(q) + F[Tail(q)]
  <2>1. Len(q) \in Nat /\ q \in Short(Len(q))
    BY DEF Short
  <2>2. SumOfShort(Len(q))[q] = IF q = <<>> THEN 0
                                ELSE Head(q) + SumOfShort(Len(q))[Tail(q)]
    BY <1>0, <2>1 DEF TailSums
  <2>3. CASE q = <<>>
    BY <2>2, <2>3
  <2>4. CASE q # <<>>
    <3>1. Tail(q) \in Seq(Nat) /\ Len(Tail(q)) \in Nat /\ Len(Tail(q)) <= Len(q)
      BY <2>4
    <3>2. SumOfShort(Len(q))[Tail(q)] = SumOfShort(Len(Tail(q)))[Tail(q)]
      <4>1. \A x \in Seq(Nat) : \A a, b \in Nat :
              Len(x) <= a /\ Len(x) <= b => SumOfShort(a)[x] = SumOfShort(b)[x]
        BY TailSumsAgree
      <4>2. Len(Tail(q)) <= Len(Tail(q))
        BY <3>1
      <4>3. QED
        BY <2>1, <3>1, <4>1, <4>2
    <3>3. QED
      BY <2>2, <2>4, <3>1, <3>2
  <2>5. QED
    BY <2>3, <2>4
<1>2. F = Body(F)
  BY <1>1
<1> HIDE DEF F
<1>3. Total = Body(Total)
  BY <1>2 DEF Total
<1>4. <<>> \in Seq(Nat)
  OBVIOUS
<1>5. \A q \in Seq(Nat) : Body(Total)[q] = IF q = <<>> THEN 0 ELSE Head(q) + Total[Tail(q)]
  OBVIOUS
<1> HIDE DEF Body
<1>6. \A q \in Seq(Nat) : Total[q] = IF q = <<>> THEN 0 ELSE Head(q) + Total[Tail(q)]
  BY <1>3, <1>5, Zenon
<1>7. QED
  BY <1>4, <1>6

LEMMA TotalTyped == \A q \in Seq(Nat) : Total[q] \in Nat
<1> DEFINE S == {n \in Nat : \A q \in Short(n) : Total[q] \in Nat}
<1>1. 0 \in S
  BY TotalUnfolds, ShortTails
<1>2. ASSUME NEW n \in Nat, n \in S PROVE n + 1 \in S
  <2>1. ASSUME NEW q \in Short(n + 1), q # <<>> PROVE Total[q] \in Nat
    <3>1. Total[q] = Head(q) + Total[Tail(q)]
      BY <2>1, TotalUnfolds DEF Short
    <3>2. Head(q) \in Nat /\ Total[Tail(q)] \in Nat
      BY <1>2, <2>1, ShortTails
    <3>3. QED
      BY <3>1, <3>2
  <2>2. QED
    BY <2>1, TotalUnfolds
<1> HIDE DEF S
<1>3. Nat \subseteq S
  BY <1>1, <1>2, SetInduction
<1>4. \A q \in Seq(Nat) : Len(q) \in S /\ q \in Short(Len(q))
  BY <1>3 DEF Short
<1>5. QED
  BY <1>4 DEF S

\* Without its first and its last member a sequence is the same in either order.
LEMMA FrontAndTail ==
  ASSUME NEW n \in Nat, NEW x \in Seq(Nat), Len(x) = n + 2
  PROVE  /\ x # <<>> /\ Head(x) \in Nat /\ x[n + 2] \in Nat
         /\ Tail(x) \in Seq(Nat) /\ Len(Tail(x)) = n + 1 /\ Tail(x)[n + 1] = x[n + 2]
         /\ SubSeq(x, 1, n + 1) \in Seq(Nat) /\ Len(SubSeq(x, 1, n + 1)) = n + 1
         /\ SubSeq(x, 1, n + 1) # <<>> /\ Head(SubSeq(x, 1, n + 1)) = Head(x)
         /\ SubSeq(Tail(x), 1, n) = Tail(SubSeq(x, 1, n + 1))
<1> DEFINE t == Tail(x)
           f == SubSeq(x, 1, n + 1)
           g == SubSeq(t, 1, n)
<1>1. x # <<>>
  BY EmptySeq
<1>2. \A i \in 1 .. n + 2 : x[i] \in Nat
  BY ElementOfSeq
<1>3. /\ Head(x) \in Nat /\ t \in Seq(Nat) /\ Len(t) = n + 1
      /\ \A i \in 1 .. n + 1 : t[i] = x[i + 1]
  <2>1. /\ Head(x) \in Nat /\ t \in Seq(Nat) /\ Len(t) = Len(x) - 1
        /\ \A i \in 1 .. Len(t) : t[i] = x[i + 1]
    BY <1>1, HeadTailProperties
  <2> HIDE DEF t
  <2>2. QED
    BY <2>1
<1>4. f \in Seq(Nat) /\ Len(f) = n + 1 /\ \A i \in 1 .. n + 1 : f[i] = x[i]
  <2>1. 1 \in Int /\ n + 1 \in Int /\ \A i \in 1 .. n + 1 : x[i] \in Nat
    BY <1>2
  <2>2. /\ f \in Seq(Nat) /\ Len(f) = IF 1 <= n + 1 THEN (n + 1) - 1 + 1 ELSE 0
        /\ \A i \in 1 .. (n + 1) - 1 + 1 : f[i] = x[1 + i - 1]
    BY <2>1, SubSeqProperties
  <2> HIDE DEF f
  <2>3. QED
    BY <2>2
<1>5. g \in Seq(Nat) /\ Len(g) = n /\ \A i \in 1 .. n : g[i] = t[i]
  <2> HIDE DEF t
  <2>1. 1 \in Int /\ n \in Int /\ \A i \in 1 .. n : t[i] \in Nat
    BY <1>2, <1>3
  <2>2. /\ g \in Seq(Nat) /\ Len(g) = IF 1 <= n THEN n - 1 + 1 ELSE 0
        /\ \A i \in 1 .. n - 1 + 1 : g[i] = t[1 + i - 1]
    BY <2>1, SubSeqProperties
  <2> HIDE DEF g
  <2>3. QED
    BY <2>2
<1> HIDE DEF t, f, g
<1>6. f # <<>> /\ Head(f) = f[1] /\ Head(x) = x[1]
  BY <1>1, <1>4
<1>7. /\ Tail(f) \in Seq(Nat) /\ Len(Tail(f)) = n
      /\ \A i \in 1 .. n : Tail(f)[i] = f[i + 1]
  <2>1. /\ Tail(f) \in Seq(Nat) /\ Len(Tail(f)) = Len(f) - 1
        /\ \A i \in 1 .. Len(Tail(f)) : Tail(f)[i] = f[i + 1]
    BY <1>4, <1>6, HeadTailProperties
  <2>2. QED
    BY <1>4, <2>1
<1>8. g = Tail(f)
  <2>1. \A i \in 1 .. n : g[i] = Tail(f)[i]
    BY <1>3, <1>4, <1>5, <1>7
  <2>2. Len(g) = Len(Tail(f)) /\ \A i \in 1 .. Len(g) : g[i] = Tail(f)[i]
    BY <1>5, <1>7, <2>1
  <2>3. QED
    BY <1>5, <1>7, <2>2, SeqEqual
<1>9. Head(f) = Head(x) /\ t[n + 1] = x[n + 2] /\ x[n + 2] \in Nat
  BY <1>2, <1>3, <1>4, <1>6
<1>10. QED
  BY <1>1, <1>3, <1>4, <1>6, <1>8, <1>9 DEF f, g, t

\* The recursion adds at the front what validateSubmissionSize adds at the end.
LEMMA TotalOfLast ==
  ASSUME NEW q \in Seq(Nat), q # <<>>
  PROVE  Total[q] = Total[SubSeq(q, 1, Len(q) - 1)] + q[Len(q)]
<1> DEFINE Claim(x) == Total[x] = Total[SubSeq(x, 1, Len(x) - 1)] + x[Len(x)]
           S == {n \in Nat : \A x \in Seq(Nat) : Len(x) = n + 1 => Claim(x)}
<1>1. 0 \in S
  <2>1. ASSUME NEW x \in Seq(Nat), Len(x) = 1 PROVE Claim(x)
    <3> HIDE DEF S, Claim
    <3>1. x # <<>> /\ Head(x) = x[1] /\ x[1] \in Nat
      <4>1. Len(x) > 0
        BY <2>1
      <4>2. x # <<>> /\ 1 \in 1 .. Len(x)
        BY <4>1
      <4>3. x[1] \in Nat
        BY <2>1, <4>2
      <4>4. Head(x) = x[1]
        BY <2>1, <4>2
      <4>5. QED
        BY <4>2, <4>3, <4>4
    <3>2. Tail(x) = <<>>
      <4>1. Tail(x) \in Seq(Nat) /\ Len(Tail(x)) = 0
        BY <2>1, <3>1
      <4>2. \A y \in Seq(Nat) : Len(y) = 0 => y = <<>>
        OBVIOUS
      <4>3. QED
        BY <4>1, <4>2
    <3>3. SubSeq(x, 1, 0) = <<>>
      BY <2>1
    <3>4. Total[x] = x[1] + 0
      BY <3>1, <3>2, TotalUnfolds
    <3>5. Total[SubSeq(x, 1, 0)] = 0
      BY <3>3, TotalUnfolds
    <3>6. QED
      BY <2>1, <3>1, <3>4, <3>5 DEF Claim
  <2>2. QED
    BY <2>1
<1>2. ASSUME NEW n \in Nat, n \in S PROVE n + 1 \in S
  <2>1. ASSUME NEW x \in Seq(Nat), Len(x) = n + 2 PROVE Claim(x)
    <3> DEFINE t == Tail(x)
               f == SubSeq(x, 1, n + 1)
    <3>1. /\ x # <<>> /\ t \in Seq(Nat) /\ Len(t) = n + 1
          /\ f \in Seq(Nat) /\ Len(f) = n + 1 /\ f # <<>>
          /\ Head(f) = Head(x) /\ Head(x) \in Nat
      BY <2>1, FrontAndTail
    <3>2. SubSeq(t, 1, n) = Tail(f) /\ t[n + 1] = x[n + 2] /\ x[n + 2] \in Nat
      BY <2>1, FrontAndTail
    <3>3. Total[t] = Total[SubSeq(t, 1, n)] + t[n + 1]
      <4>1. Claim(t)
        BY <1>2, <3>1
      <4>2. Len(t) - 1 = n
        BY <3>1
      <4>3. QED
        BY <3>1, <4>1, <4>2
    <3>4. Total[x] = Head(x) + Total[t] /\ Total[f] = Head(x) + Total[Tail(f)]
      BY <3>1, TotalUnfolds
    <3>5. Total[Tail(f)] \in Nat
      <4> HIDE DEF f
      <4>1. Tail(f) \in Seq(Nat)
        BY <3>1
      <4>2. QED
        BY <4>1, TotalTyped
    <3>6. Total[x] = Total[f] + x[n + 2]
      <4> HIDE DEF f, t
      <4>1. Total[t] = Total[Tail(f)] + x[n + 2]
        BY <3>2, <3>3
      <4>2. /\ Total[x] = Head(x) + (Total[Tail(f)] + x[n + 2])
            /\ Total[f] = Head(x) + Total[Tail(f)]
        BY <3>1, <3>4, <4>1
      <4>3. \A a, b, c \in Nat : a + (b + c) = (a + b) + c
        OBVIOUS
      <4>4. QED
        BY <3>1, <3>2, <3>5, <4>2, <4>3
    <3>7. Len(x) - 1 = n + 1
      BY <2>1
    <3>8. QED
      BY <2>1, <3>6, <3>7
  <2>2. QED
    BY <2>1
<1> HIDE DEF S
<1>3. Nat \subseteq S
  BY <1>1, <1>2, SetInduction
<1>4. Len(q) - 1 \in S /\ Len(q) = (Len(q) - 1) + 1
  BY <1>3
<1>5. QED
  BY <1>4 DEF S

\* What passes validateSubmissionSize fits the limit altogether.
LEMMA SizesFit ==
  ASSUME NEW list \in FileLists, NEW limit \in Nat, FitsLimit(list, limit)
  PROVE  Total[list] <= limit
<1> DEFINE n == Len(list)
           before == SubSeq(list, 1, n - 1)
<1>1. list \in Seq(Nat) /\ list # <<>> /\ n \in DOMAIN list /\ list[n] \in Nat
  BY FilesAssumption
<1>2. before \in Seq(Nat)
  BY <1>1
<1>3. Total[list] = Total[before] + list[n]
  BY <1>1, TotalOfLast
<1>4. list[n] <= limit - Total[before] /\ Total[before] \in Nat
  BY <1>1, <1>2, TotalTyped DEF FitsLimit
<1>5. QED
  BY <1>1, <1>3, <1>4
-----------------------------------------------------------------------------
(***************************************************************************)
(* The tables and the requests keep their shape.                           *)
(***************************************************************************)
\* A statement leaves every other request alone.
LEMMA RequestsTyped ==
  ASSUME TypeOK, NEW h \in Handlers, NEW r \in Request, Begin(h, r) \/ Goto(h, r)
  PROVE  req' \in [Handlers -> Request] /\ begun' \in 0 .. MaxRequests
BY TablesAssumption DEF TypeOK, Begin, Goto, Serve

LEMMA IdleTyped == Idle \in Request
<1>1. Idle \in RequestRecord
  BY DEF Idle, RequestRecord, Ops
<1>2. QED
  BY <1>1 DEF Request, Idle

LEMMA DoneTyped ==
  ASSUME TypeOK, NEW h \in Handlers, Done(h)
  PROVE  req' \in [Handlers -> Request] /\ begun' \in 0 .. MaxRequests
BY IdleTyped, RequestsTyped DEF Done

LEMMA StatusTyped ==
  ASSUME TypeOK, NEW t \in Teams, NEW u \in Users,
         NEW status \in {"absent", "pending", "accepted"}, SetStatus(t, u, status)
  PROVE  member' \in [Teams -> [Users -> {"absent", "pending", "accepted"}]]
BY DEF SetStatus, TypeOK

\* A row of the submissions that a statement replaces keeps its shape.
LEMMA RowTyped ==
  ASSUME TypeOK, NEW s \in Subs, NEW row \in SubRow, sub' = [sub EXCEPT ![s] = row]
  PROVE  sub' \in [Subs -> SubRow]
BY DEF TypeOK

\* The final mark of a row, and what MarkSubmissionQueued writes to it.
LEMMA RowChanges ==
  ASSUME NEW row \in SubRow
  PROVE  /\ \A b \in BOOLEAN : [row EXCEPT !.final = b] \in SubRow
         /\ \A m, n \in Nat :
              [row EXCEPT !.state = "queued", !.count = m, !.total = n] \in SubRow
BY DEF SubRow

\* The next file of a request, and the end of its files.
LEMMA FileRequests ==
  ASSUME NEW q \in Request, q.op = "file"
  PROVE  [q EXCEPT !.left = @ - 1, !.op = IF q.left = 1 THEN "queue" ELSE @] \in Request
<1> DEFINE r == [q EXCEPT !.left = @ - 1, !.op = IF q.left = 1 THEN "queue" ELSE @]
<1>1. q \in RequestRecord /\ q.sub \in Subs /\ q.left \in Nat /\ q.left > 0
  BY DEF Request, RequestRecord
<1>2. q.left - 1 \in Nat
  BY <1>1
<1>3. CASE q.left = 1
  <2>1. r = [q EXCEPT !.left = 0, !.op = "queue"]
    BY <1>1, <1>3 DEF RequestRecord
  <2>2. [q EXCEPT !.left = 0, !.op = "queue"] \in Request
    BY <1>1 DEF Request, RequestRecord, Ops
  <2>3. QED
    BY <2>1, <2>2
<1>4. CASE q.left # 1
  <2>1. r = [q EXCEPT !.left = q.left - 1]
    BY <1>1, <1>4 DEF RequestRecord
  <2>2. [q EXCEPT !.left = q.left - 1] \in Request
    BY <1>1, <1>2, <1>4 DEF Request, RequestRecord
  <2>3. QED
    BY <2>1, <2>2
<1>5. QED
  BY <1>3, <1>4

LEMMA TeamTypes == TypeOK /\ TeamStep => TypeOK'
<1> SUFFICES ASSUME TypeOK, TeamStep PROVE TypeOK'
  OBVIOUS
<1> USE TablesAssumption DEF notTeams, entryVars, setupVars, subVars
<1>1. ASSUME NEW h \in Handlers, AddOwner(h) PROVE TypeOK'
  <2>1. req' \in [Handlers -> Request] /\ begun' \in 0 .. MaxRequests
    BY <1>1, DoneTyped DEF AddOwner
  <2>2. req[h].on \in Teams /\ req[h].user \in Users
    BY <1>1 DEF AddOwner, TypeOK, Request
  <2>3. SetStatus(req[h].on, req[h].user, "accepted") \/ UNCHANGED member
    BY <1>1 DEF AddOwner
  <2>4. member' \in [Teams -> [Users -> {"absent", "pending", "accepted"}]]
    BY <2>2, <2>3, StatusTyped DEF TypeOK
  <2>5. QED
    BY <1>1, <2>1, <2>4 DEF AddOwner, TypeOK
<1>2. ASSUME NEW h \in Handlers, NEW u \in Users, NEW t \in Teams, CreateTeam(h, u, t)
      PROVE TypeOK'
  <2> DEFINE r == [Idle EXCEPT !.op = "owner", !.user = u, !.on = t]
  <2>1. r \in Request
    BY DEF Request, RequestRecord, Ops, Idle
  <2>2. Begin(h, r)
    BY <1>2 DEF CreateTeam
  <2>3. req' \in [Handlers -> Request] /\ begun' \in 0 .. MaxRequests
    BY <2>1, <2>2, RequestsTyped
  <2>4. QED
    BY <1>2, <2>3 DEF CreateTeam, TypeOK
<1>3. ASSUME NEW t \in Teams, NEW u \in Users, DeleteTeam(u, t) PROVE TypeOK'
  BY <1>3 DEF DeleteTeam, OneStatement, Serve, TypeOK
<1>4. ASSUME NEW t \in Teams, NEW u \in Users, AcceptInvitation(u, t) PROVE TypeOK'
  BY <1>4 DEF AcceptInvitation, SetStatus, OneStatement, Serve, TypeOK
<1>5. ASSUME NEW t \in Teams, NEW u \in Users, DeclineInvitation(u, t) PROVE TypeOK'
  BY <1>5 DEF DeclineInvitation, SetStatus, OneStatement, Serve, TypeOK
<1>6. ASSUME NEW t \in Teams, NEW u \in Users, NEW v \in Users, AddMember(u, t, v)
      PROVE TypeOK'
  BY <1>6 DEF AddMember, InviteTeamMember, OneStatement, Serve, TypeOK
<1>7. ASSUME NEW t \in Teams, NEW u \in Users, NEW v \in Users, RemoveMember(u, t, v)
      PROVE TypeOK'
  BY <1>7 DEF RemoveMember, SetStatus, OneStatement, Serve, TypeOK
<1>8. QED
  BY <1>1, <1>2, <1>3, <1>4, <1>5, <1>6, <1>7 DEF TeamStep

LEMMA EntryTypes == TypeOK /\ EntryStep => TypeOK'
<1> SUFFICES ASSUME TypeOK, EntryStep PROVE TypeOK'
  OBVIOUS
<1> USE TablesAssumption DEF notEntries, entryVars, teamVars, setupVars, subVars
<1>1. ASSUME NEW h \in Handlers, NEW u \in Users, NEW on \in Users \cup Teams,
             NEW m \in Modes, NEW extra \in Lineups, CreateEntry(h, u, on, m, extra)
      PROVE TypeOK'
  <2> DEFINE r == [Idle EXCEPT !.op = "entry", !.user = u, !.on = on, !.mode = m,
                     !.users = IF on \in Teams THEN {} ELSE extra \ {u}]
  <2>1. r \in Request
    BY RegisteredAssumption DEF Request, RequestRecord, Ops, Idle
  <2>2. Begin(h, r)
    BY <1>1 DEF CreateEntry
  <2>3. req' \in [Handlers -> Request] /\ begun' \in 0 .. MaxRequests
    BY <2>1, <2>2, RequestsTyped
  <2>4. QED
    BY <1>1, <2>3 DEF CreateEntry, TypeOK
<1>2. ASSUME NEW h \in Handlers, NEW e \in Entries, InsertEntry(h, e) PROVE TypeOK'
  <2> DEFINE r == [req[h] EXCEPT !.op = "leader", !.entry = e]
  <2>1. /\ req[h] \in Request /\ req[h].op = "entry" /\ req[h].on \in Users \cup Teams
        /\ req[h].mode \in Modes
    BY <1>2 DEF InsertEntry, TypeOK, Request
  <2>2. r \in Request
    BY <2>1 DEF Request, RequestRecord, Ops
  <2>3. Goto(h, r) \/ Done(h)
    BY <1>2 DEF InsertEntry
  <2>4. req' \in [Handlers -> Request] /\ begun' \in 0 .. MaxRequests
    BY <2>2, <2>3, RequestsTyped, DoneTyped
  <2>5. QED
    BY <1>2, <2>1, <2>4 DEF InsertEntry, TypeOK
<1>3. ASSUME NEW h \in Handlers, AddLeader(h) PROVE TypeOK'
  <2> DEFINE r == [req[h] EXCEPT !.op = IF req[h].on \in Teams THEN "list" ELSE "members"]
  <2>1. /\ req[h] \in Request /\ req[h].op = "leader" /\ req[h].entry \in Entries
        /\ req[h].user \in Users
    BY <1>3 DEF AddLeader, TypeOK, Request
  <2>2. r \in Request
    BY <2>1 DEF Request, RequestRecord, Ops
  <2>3. Goto(h, r)
    BY <1>3 DEF AddLeader
  <2>4. req' \in [Handlers -> Request] /\ begun' \in 0 .. MaxRequests
    BY <2>2, <2>3, RequestsTyped
  <2>5. QED
    BY <1>3, <2>1, <2>4 DEF AddLeader, AddEntryMember, TypeOK
<1>4. ASSUME NEW h \in Handlers, ListMembers(h) PROVE TypeOK'
  <2> DEFINE us == {u \in Users \ {req[h].user} : member[req[h].on][u] = "accepted"}
             r == [req[h] EXCEPT !.op = "members", !.users = us]
  <2>1. req[h] \in Request /\ req[h].op = "list" /\ us \in SUBSET Users
    BY <1>4 DEF ListMembers, TypeOK
  <2>2. Goto(h, r)
    BY <1>4 DEF ListMembers
  <2>3. r \in Request
    <3> HIDE DEF us
    <3> QED
      BY <2>1 DEF Request, RequestRecord, Ops
  <2>4. req' \in [Handlers -> Request] /\ begun' \in 0 .. MaxRequests
    BY <2>2, <2>3, RequestsTyped
  <2>5. QED
    BY <1>4, <2>4 DEF ListMembers, TypeOK
<1>5. ASSUME NEW h \in Handlers, AddLineup(h) PROVE TypeOK'
  <2>1. req[h] \in Request /\ req[h].op = "members" /\ req[h].entry \in Entries
    BY <1>5 DEF AddLineup, TypeOK, Request
  <2>2. CASE req[h].users = {} /\ Done(h) /\ UNCHANGED lineup
    BY <1>5, <2>2, DoneTyped DEF AddLineup, TypeOK
  <2>3. ASSUME NEW u \in req[h].users, AddEntryMember(req[h].entry, u),
               Goto(h, [req[h] EXCEPT !.users = @ \ {u}])
        PROVE TypeOK'
    <3>1. u \in Users
      BY <2>1, <2>3 DEF Request, RequestRecord
    <3>2. [req[h] EXCEPT !.users = @ \ {u}] \in Request
      BY <2>1 DEF Request, RequestRecord
    <3>3. req' \in [Handlers -> Request] /\ begun' \in 0 .. MaxRequests
      BY <2>3, <3>2, RequestsTyped
    <3>4. QED
      BY <1>5, <2>1, <2>3, <3>1, <3>3 DEF AddLineup, AddEntryMember, TypeOK
  <2>4. QED
    BY <1>5, <2>2, <2>3 DEF AddLineup
<1>6. ASSUME NEW e \in Entries, DeleteContestEntry(e) PROVE TypeOK'
  BY <1>6 DEF DeleteContestEntry, OneStatement, Serve, TypeOK
<1>7. ASSUME NEW e \in Entries, NEW u \in Users, AddMemberByHand(e, u) PROVE TypeOK'
  BY <1>7 DEF AddMemberByHand, AddEntryMember, OneStatement, Serve, TypeOK
<1>8. ASSUME NEW e \in Entries, NEW u \in Users, RemoveEntryMember(e, u) PROVE TypeOK'
  BY <1>8 DEF RemoveEntryMember, OneStatement, Serve, TypeOK
<1>9. QED
  BY <1>1, <1>2, <1>3, <1>4, <1>5, <1>6, <1>7, <1>8 DEF EntryStep

LEMMA SubmissionTypes == TypeOK /\ SubmissionStep => TypeOK'
<1> SUFFICES ASSUME TypeOK, SubmissionStep PROVE TypeOK'
  OBVIOUS
<1> USE TablesAssumption, FilesAssumption DEF notSubs, entryVars, teamVars, setupVars, subVars
<1>1. ASSUME NEW h \in Handlers, NEW u \in Users, NEW e \in Entries, NEW p \in Phases,
             NEW list \in FileLists, InitiateUpload(h, u, e, p, list)
      PROVE TypeOK'
  <2> DEFINE r == [Idle EXCEPT !.op = "create", !.user = u, !.entry = e, !.phase = p,
                               !.count = Len(list)]
  <2>1. Len(list) \in Nat
    OBVIOUS
  <2>2. r \in Request
    BY <2>1 DEF Request, RequestRecord, Ops, Idle
  <2>3. Begin(h, r)
    BY <1>1 DEF InitiateUpload
  <2>4. req' \in [Handlers -> Request] /\ begun' \in 0 .. MaxRequests
    BY <2>2, <2>3, RequestsTyped
  <2>5. QED
    BY <1>1, <2>4 DEF InitiateUpload, TypeOK
<1>2. ASSUME NEW h \in Handlers, NEW s \in Subs, CreateSubmission(h, s) PROVE TypeOK'
  <2> DEFINE r == req[h]
             row == [NoSub EXCEPT !.state = "uploaded", !.entry = r.entry, !.by = r.user,
                                  !.phase = r.phase, !.count = r.count]
  <2>1. /\ r \in Request /\ r.user \in Users /\ r.entry \in Entries /\ r.phase \in Phases
        /\ r.count \in Nat
    BY <1>2 DEF CreateSubmission, TypeOK, Request, RequestRecord
  <2>2. row \in SubRow
    BY <2>1 DEF SubRow, NoSub
  <2>3. req' \in [Handlers -> Request] /\ begun' \in 0 .. MaxRequests
    BY <1>2, DoneTyped DEF CreateSubmission
  <2>4. sub' = [sub EXCEPT ![s] = row] \/ sub' = sub
    BY <1>2 DEF CreateSubmission
  <2>5. sub' \in [Subs -> SubRow]
    <3> HIDE DEF row
    <3> QED
      BY <2>2, <2>4, RowTyped DEF TypeOK
  <2>6. QED
    BY <1>2, <2>3, <2>5 DEF CreateSubmission, TypeOK
<1>3. ASSUME NEW h \in Handlers, NEW s \in Subs, MarkFinal(h, s) PROVE TypeOK'
  <2> DEFINE r == [Idle EXCEPT !.op = "final", !.sub = s]
  <2>1. r \in Request
    BY DEF Request, RequestRecord, Ops, Idle
  <2>2. req' \in [Handlers -> Request] /\ begun' \in 0 .. MaxRequests
    BY <1>3, <2>1, RequestsTyped DEF MarkFinal
  <2>3. \A q \in Subs : sub[q] \in SubRow /\ [sub[q] EXCEPT !.final = FALSE] \in SubRow
    BY RowChanges DEF TypeOK
  <2>4. sub' \in [Subs -> SubRow]
    <3>1. sub' = ResetOtherFinals(s)
      BY <1>3 DEF MarkFinal
    <3>2. QED
      BY <2>3, <3>1 DEF ResetOtherFinals
  <2>5. QED
    BY <1>3, <2>2, <2>4 DEF MarkFinal, TypeOK
<1>4. ASSUME NEW h \in Handlers, NEW s \in Subs, NEW list \in FileLists,
             CompleteUpload(h, s, list)
      PROVE TypeOK'
  <2> DEFINE r == [Idle EXCEPT !.op = "file", !.sub = s, !.left = Len(list),
                               !.count = Len(list), !.total = Total[list]]
  <2>1. Len(list) \in Nat /\ Len(list) > 0 /\ Total[list] \in Nat
    BY TotalTyped
  <2>2. r \in Request
    BY <2>1 DEF Request, RequestRecord, Ops, Idle
  <2>3. req' \in [Handlers -> Request] /\ begun' \in 0 .. MaxRequests
    BY <1>4, <2>2, RequestsTyped DEF CompleteUpload
  <2>4. QED
    BY <1>4, <2>3 DEF CompleteUpload, TypeOK
<1>5. ASSUME NEW h \in Handlers, CreateSubmissionFile(h) PROVE TypeOK'
  <2> DEFINE q == req[h]
             r == [q EXCEPT !.left = @ - 1, !.op = IF q.left = 1 THEN "queue" ELSE @]
  <2>1. q \in Request /\ q.op = "file" /\ q.sub \in Subs /\ q.left \in Nat /\ q.left > 0
    BY <1>5 DEF CreateSubmissionFile, TypeOK, Request, RequestRecord
  <2>2. r \in Request
    BY <2>1, FileRequests
  <2>3. Goto(h, r) \/ Done(h)
    BY <1>5 DEF CreateSubmissionFile
  <2>4. req' \in [Handlers -> Request] /\ begun' \in 0 .. MaxRequests
    BY <2>2, <2>3, RequestsTyped, DoneTyped
  <2>5. files' \in [Subs -> Nat]
    <3>1. files' = [files EXCEPT ![q.sub] = @ + 1] \/ files' = files
      BY <1>5 DEF CreateSubmissionFile
    <3>2. files \in [Subs -> Nat] /\ q.sub \in Subs
      BY <2>1 DEF TypeOK
    <3> HIDE DEF q, r
    <3>3. QED
      BY <3>1, <3>2
  <2>6. QED
    BY <1>5, <2>4, <2>5 DEF CreateSubmissionFile, TypeOK
<1>6. ASSUME NEW h \in Handlers, MarkSubmissionQueued(h) PROVE TypeOK'
  <2> DEFINE q == req[h]
             r == [q EXCEPT !.op = "enqueue"]
  <2>1. /\ q \in Request /\ q.op = "queue" /\ q.sub \in Subs
        /\ q.count \in Nat /\ q.total \in Nat
    BY <1>6 DEF MarkSubmissionQueued, TypeOK, Request, RequestRecord
  <2>2. r \in Request
    BY <2>1 DEF Request, RequestRecord, Ops
  <2>3. Goto(h, r) \/ Done(h)
    BY <1>6 DEF MarkSubmissionQueued
  <2>4. req' \in [Handlers -> Request] /\ begun' \in 0 .. MaxRequests
    BY <2>2, <2>3, RequestsTyped, DoneTyped
  <2> DEFINE row == [sub[q.sub] EXCEPT !.state = "queued", !.count = q.count, !.total = q.total]
  <2>5. row \in SubRow
    BY <2>1, RowChanges DEF TypeOK
  <2>6. sub' \in [Subs -> SubRow]
    <3>1. sub' = [sub EXCEPT ![q.sub] = row] \/ sub' = sub
      BY <1>6 DEF MarkSubmissionQueued
    <3> HIDE DEF row
    <3> QED
      BY <2>1, <2>5, <3>1, RowTyped DEF TypeOK
  <2>7. QED
    BY <1>6, <2>4, <2>6 DEF MarkSubmissionQueued, TypeOK
<1>7. ASSUME NEW h \in Handlers, EnqueueJudge(h) \/ EnqueueResult(h) PROVE TypeOK'
  <2>1. req[h].sub \in Subs
    BY <1>7 DEF EnqueueJudge, EnqueueResult, TypeOK, Request
  <2>2. req' \in [Handlers -> Request] /\ begun' \in 0 .. MaxRequests
    BY <1>7, DoneTyped DEF EnqueueJudge, EnqueueResult
  <2>3. QED
    BY <1>7, <2>1, <2>2 DEF EnqueueJudge, EnqueueResult, TypeOK
<1>8. ASSUME NEW h \in Handlers, MarkSubmissionFinal(h) PROVE TypeOK'
  <2> DEFINE q == req[h]
             r == [q EXCEPT !.op = "result"]
  <2>1. q \in Request /\ q.op = "final" /\ q.sub \in Subs
    BY <1>8 DEF MarkSubmissionFinal, TypeOK, Request
  <2>2. r \in Request
    BY <2>1 DEF Request, RequestRecord, Ops
  <2>3. Goto(h, r) \/ Done(h)
    BY <1>8 DEF MarkSubmissionFinal
  <2>4. req' \in [Handlers -> Request] /\ begun' \in 0 .. MaxRequests
    BY <2>2, <2>3, RequestsTyped, DoneTyped
  <2> DEFINE row == [sub[q.sub] EXCEPT !.final = TRUE]
  <2>5. row \in SubRow
    BY <2>1, RowChanges DEF TypeOK
  <2>6. sub' \in [Subs -> SubRow]
    <3>1. sub' = [sub EXCEPT ![q.sub] = row] \/ sub' = sub
      BY <1>8 DEF MarkSubmissionFinal
    <3> HIDE DEF row
    <3> QED
      BY <2>1, <2>5, <3>1, RowTyped DEF TypeOK
  <2>7. QED
    BY <1>8, <2>4, <2>6 DEF MarkSubmissionFinal, TypeOK
<1>9. QED
  BY <1>1, <1>2, <1>3, <1>4, <1>5, <1>6, <1>7, <1>8 DEF SubmissionStep

LEMMA AdminTypes == TypeOK /\ AdminStep => TypeOK'
<1> SUFFICES ASSUME TypeOK, AdminStep PROVE TypeOK'
  OBVIOUS
<1> USE TablesAssumption DEF entryVars, teamVars, subVars
<1>1. ASSUME NEW p \in Phases, DeletePhase(p) PROVE TypeOK'
  BY <1>1 DEF DeletePhase, OneStatement, Serve, TypeOK
<1>2. ASSUME DeleteContest PROVE TypeOK'
  <2>1. [NoSub EXCEPT !.state = "gone"] \in SubRow
    BY DEF NoSub, SubRow
  <2>2. sub' \in [Subs -> SubRow]
    BY <1>2, <2>1 DEF DeleteContest, TypeOK
  <2>3. entry' \in [Entries -> Users \cup Teams \cup {None, Gone}]
    BY <1>2 DEF DeleteContest, TypeOK
  <2>4. QED
    BY <1>2, <2>2, <2>3 DEF DeleteContest, OneStatement, Serve, TypeOK
<1>3. ASSUME ContestEnds PROVE TypeOK'
  BY <1>3 DEF ContestEnds, TypeOK
<1>4. QED
  BY <1>1, <1>2, <1>3 DEF AdminStep

LEMMA FailureTypes ==
  ASSUME TypeOK, NEW h \in Handlers, StatementFails(h)
  PROVE  TypeOK'
<1> DEFINE q == req[h]
<1>1. q \in Request
  BY DEF TypeOK
<1>2. \A op \in {"list", "members"} :
        q.op = "leader" /\ (op = "list" => q.on \in Teams) => [q EXCEPT !.op = op] \in Request
  BY <1>1 DEF Request, RequestRecord, Ops
<1>3. \A u \in q.users : [q EXCEPT !.users = @ \ {u}] \in Request
  BY <1>1 DEF Request, RequestRecord
<1>4. \/ \E op \in {"list", "members"} : /\ q.op = "leader" /\ (op = "list" => q.on \in Teams)
                                      /\ Goto(h, [q EXCEPT !.op = op])
      \/ \E u \in q.users : Goto(h, [q EXCEPT !.users = @ \ {u}])
      \/ Done(h)
  BY DEF StatementFails
<1>5. req' \in [Handlers -> Request] /\ begun' \in 0 .. MaxRequests
  BY <1>2, <1>3, <1>4, RequestsTyped, DoneTyped
<1>6. QED
  BY <1>5 DEF StatementFails, TypeOK, teamVars, notTeams, entryVars, setupVars, subVars

LEMMA InitTypes == Init => TypeOK
<1> SUFFICES ASSUME Init PROVE TypeOK
  OBVIOUS
<1> USE TablesAssumption, RegisteredAssumption
<1>1. /\ team \in [Teams -> Users \cup {None, Gone}]
      /\ member \in [Teams -> [Users -> {"absent", "pending", "accepted"}]]
      /\ entry \in [Entries -> Users \cup Teams \cup {None, Gone}]
      /\ mode \in [Entries -> Modes \cup {None, "official"}]
  BY DEF Init
<1>2. lineup \in [Entries -> SUBSET Users]
  BY DEF Init
<1>3. sub \in [Subs -> SubRow]
  <2>1. NoSub \in SubRow
    BY DEF NoSub, SubRow
  <2>2. ASSUME NEW s \in Subs, Submitted[s] # None
        PROVE  EarlierSub(Submitted[s][1], Submitted[s][2]) \in SubRow
    <3>1. /\ Submitted[s][1] \in Entries /\ Submitted[s][2] \in Phases
          /\ Registered[Submitted[s][1]] \in Users \cup {None}
      BY <2>2
    <3>2. QED
      BY <3>1 DEF EarlierSub, NoSub, SubRow
  <2>3. QED
    BY <2>1, <2>2 DEF Init
<1>4. files \in [Subs -> Nat]
  BY DEF Init
<1>5. req \in [Handlers -> Request] /\ begun \in 0 .. MaxRequests
  BY IdleTyped DEF Init
<1>6. agreed = {} /\ jobs = {} /\ results = {} /\ contest = "open" /\ phase \in [Phases -> BOOLEAN]
  BY DEF Init
<1>7. QED
  BY <1>1, <1>2, <1>3, <1>4, <1>5, <1>6 DEF TypeOK

LEMMA NextTypes == TypeOK /\ [Next]_vars => TypeOK'
<1> SUFFICES ASSUME TypeOK, [Next]_vars PROVE TypeOK'
  OBVIOUS
<1>1. CASE UNCHANGED vars
  BY <1>1 DEF vars, teamVars, entryVars, setupVars, subVars, TypeOK
<1>2. QED
  BY <1>1, TeamTypes, EntryTypes, SubmissionTypes, AdminTypes, FailureTypes DEF Next

\* The tables and the requests keep their shape.
THEOREM RegistrationTypes == Spec => []TypeOK
BY InitTypes, NextTypes, PTL DEF Spec
-----------------------------------------------------------------------------
(***************************************************************************)
(* What each component leaves alone, and the requests it leads to.         *)
(***************************************************************************)
Became(h, ops) == req'[h] = req[h] \/ req'[h].op \in ops

LEMMA BeginOrGoto ==
  ASSUME TypeOK, NEW h \in Handlers, NEW r, Begin(h, r) \/ Goto(h, r)
  PROVE  \A g \in Handlers : req'[g] = IF g = h THEN r ELSE req[g]
BY DEF Begin, Goto, TypeOK

LEMMA AfterDone ==
  ASSUME TypeOK, NEW h \in Handlers, Done(h)
  PROVE  \A g \in Handlers : req'[g] = IF g = h THEN Idle ELSE req[g]
BY BeginOrGoto DEF Done

LEMMA TeamStepFrame ==
  ASSUME TypeOK, TeamStep
  PROVE  UNCHANGED notTeams /\ \A g \in Handlers : Became(g, {"idle", "owner"})
<1> USE DEF OneStatement, Idle, Became
<1>1. ASSUME NEW h \in Handlers, AddOwner(h)
      PROVE  UNCHANGED notTeams /\ \A g \in Handlers : Became(g, {"idle", "owner"})
  BY <1>1, AfterDone DEF AddOwner
<1>2. ASSUME NEW h \in Handlers, NEW u \in Users, NEW t \in Teams, CreateTeam(h, u, t)
      PROVE  UNCHANGED notTeams /\ \A g \in Handlers : Became(g, {"idle", "owner"})
  <2> DEFINE r == [Idle EXCEPT !.op = "owner", !.user = u, !.on = t]
  <2>1. Begin(h, r) /\ r.op = "owner"
    BY <1>2 DEF CreateTeam
  <2> HIDE DEF r
  <2>2. QED
    BY <1>2, <2>1, BeginOrGoto DEF CreateTeam
<1>3. ASSUME NEW t \in Teams, NEW u \in Users, NEW v \in Users,
             \/ DeleteTeam(u, t) \/ AcceptInvitation(u, t) \/ DeclineInvitation(u, t)
             \/ AddMember(u, t, v) \/ RemoveMember(u, t, v)
      PROVE  UNCHANGED notTeams /\ \A g \in Handlers : Became(g, {"idle", "owner"})
  BY <1>3 DEF DeleteTeam, AcceptInvitation, DeclineInvitation, AddMember, RemoveMember
<1>4. QED
  BY <1>1, <1>2, <1>3 DEF TeamStep

LEMMA EntryStepFrame ==
  ASSUME TypeOK, EntryStep
  PROVE  /\ UNCHANGED notEntries
         /\ \A g \in Handlers : Became(g, {"idle", "entry", "leader", "list", "members"})
<1> DEFINE P == /\ UNCHANGED notEntries
                /\ \A g \in Handlers : Became(g, {"idle", "entry", "leader", "list", "members"})
<1>1. ASSUME NEW h \in Handlers, NEW u \in Users, NEW on \in Users \cup Teams,
             NEW m \in Modes, NEW extra \in Lineups, CreateEntry(h, u, on, m, extra)
      PROVE P
  <2> DEFINE r == [Idle EXCEPT !.op = "entry", !.user = u, !.on = on, !.mode = m,
                     !.users = IF on \in Teams THEN {} ELSE extra \ {u}]
  <2>1. r.op = "entry"
    BY DEF Idle
  <2>2. Begin(h, r)
    BY <1>1 DEF CreateEntry
  <2> HIDE DEF r
  <2>3. QED
    BY <1>1, <2>1, <2>2, BeginOrGoto DEF CreateEntry, Became
<1>2. ASSUME NEW h \in Handlers, NEW e \in Entries, InsertEntry(h, e) PROVE P
  <2> DEFINE r == [req[h] EXCEPT !.op = "leader", !.entry = e]
  <2>1. r.op = "leader"
    BY DEF TypeOK, Request, RequestRecord
  <2>2. Goto(h, r) \/ Done(h)
    BY <1>2 DEF InsertEntry
  <2> HIDE DEF r
  <2>3. QED
    BY <1>2, <2>1, <2>2, BeginOrGoto, AfterDone DEF InsertEntry, Became, Idle
<1>3. ASSUME NEW h \in Handlers, AddLeader(h) PROVE P
  <2> DEFINE r == [req[h] EXCEPT !.op = IF req[h].on \in Teams THEN "list" ELSE "members"]
  <2>1. r.op \in {"list", "members"}
    BY DEF TypeOK, Request, RequestRecord
  <2>2. Goto(h, r)
    BY <1>3 DEF AddLeader
  <2> HIDE DEF r
  <2>3. QED
    BY <1>3, <2>1, <2>2, BeginOrGoto DEF AddLeader, Became
<1>4. ASSUME NEW h \in Handlers, ListMembers(h) PROVE P
  <2> DEFINE us == {u \in Users \ {req[h].user} : member[req[h].on][u] = "accepted"}
             r == [req[h] EXCEPT !.op = "members", !.users = us]
  <2>1. Goto(h, r)
    BY <1>4 DEF ListMembers
  <2>2. r.op = "members"
    BY DEF TypeOK, Request, RequestRecord
  <2> HIDE DEF r
  <2>3. QED
    BY <1>4, <2>1, <2>2, BeginOrGoto DEF ListMembers, Became
<1>5. ASSUME NEW h \in Handlers, AddLineup(h) PROVE P
  <2>1. CASE Done(h)
    BY <1>5, <2>1, AfterDone DEF AddLineup, Became, Idle
  <2>2. ASSUME NEW u \in req[h].users, Goto(h, [req[h] EXCEPT !.users = @ \ {u}]) PROVE P
    <3> DEFINE r == [req[h] EXCEPT !.users = @ \ {u}]
    <3>1. r.op = "members"
      BY <1>5 DEF AddLineup, TypeOK, Request, RequestRecord
    <3>2. Goto(h, r)
      BY <2>2
    <3> HIDE DEF r
    <3>3. QED
      BY <1>5, <3>1, <3>2, BeginOrGoto DEF AddLineup, Became
  <2>3. QED
    BY <1>5, <2>1, <2>2 DEF AddLineup
<1>6. ASSUME NEW e \in Entries, NEW u \in Users,
             AddMemberByHand(e, u) \/ RemoveEntryMember(e, u)
      PROVE P
  BY <1>6 DEF AddMemberByHand, RemoveEntryMember, OneStatement, Became
<1>7. ASSUME NEW e \in Entries, DeleteContestEntry(e) PROVE P
  BY <1>7 DEF DeleteContestEntry, OneStatement, Became
<1>8. QED
  BY <1>1, <1>2, <1>3, <1>4, <1>5, <1>6, <1>7 DEF EntryStep

LEMMA AdminStepFrame == AdminStep => UNCHANGED <<teamVars, req>>
BY DEF AdminStep, DeletePhase, DeleteContest, ContestEnds, OneStatement

LEMMA FailureFrame ==
  ASSUME TypeOK, NEW h \in Handlers, StatementFails(h)
  PROVE  /\ UNCHANGED <<teamVars, notTeams>>
         /\ \A g \in Handlers : Became(g, {"idle", "list", "members"})
<1>1. UNCHANGED <<teamVars, notTeams>>
  BY DEF StatementFails
<1>2. PICK r : Goto(h, r) /\ r.op \in {"idle", "list", "members"}
  <2>1. CASE Done(h)
    BY <2>1 DEF Done, Idle
  <2>2. CASE Goto(h, [req[h] EXCEPT !.op = IF req[h].on \in Teams THEN "list" ELSE "members"])
    BY <2>2 DEF TypeOK, Request, RequestRecord
  <2>3. ASSUME NEW u \in req[h].users, req[h].op = "members",
               Goto(h, [req[h] EXCEPT !.users = @ \ {u}])
        PROVE  \E r : Goto(h, r) /\ r.op \in {"idle", "list", "members"}
    BY <2>3 DEF TypeOK, Request, RequestRecord
  <2>4. QED
    BY <2>1, <2>2, <2>3 DEF StatementFails
<1>3. QED
  BY <1>1, <1>2, BeginOrGoto DEF Became
-----------------------------------------------------------------------------
(***************************************************************************)
(* A submission keeps what it refers to.                                   *)
(***************************************************************************)
\* What a submission refers to are identifiers of rows.
RefsTyped ==
  \A s \in Subs : SubExists(s) => /\ sub[s].entry \in Entries
                                  /\ sub[s].by \in Users
                                  /\ sub[s].phase \in Phases

Anchored == TypeOK /\ RefsTyped /\ SubmissionsAnchored

\* Either nothing a submission refers to has changed or it was inserted now.
SameRefs(s) ==
  /\ SubExists(s)
  /\ sub'[s].entry = sub[s].entry /\ sub'[s].by = sub[s].by /\ sub'[s].phase = sub[s].phase

LEMMA AnchoredBySubs ==
  ASSUME Anchored, SubmissionStep, NEW s \in Subs, SubExists(s)'
  PROVE  SameRefs(s) \/ /\ sub'[s].entry \in Entries /\ sub'[s].by \in Users
                        /\ sub'[s].phase \in Phases
                        /\ SubmissionRefs(sub'[s].entry, sub'[s].by, sub'[s].phase)
<1> DEFINE P == SameRefs(s) \/ /\ sub'[s].entry \in Entries /\ sub'[s].by \in Users
                               /\ sub'[s].phase \in Phases
                               /\ SubmissionRefs(sub'[s].entry, sub'[s].by, sub'[s].phase)
<1>0. TypeOK
  BY DEF Anchored
<1>1. ASSUME UNCHANGED sub PROVE P
  BY <1>1 DEF SameRefs, SubExists
<1>2. ASSUME NEW h \in Handlers, NEW q \in Subs, CreateSubmission(h, q) PROVE P
  <2> DEFINE r == req[h]
             row == [NoSub EXCEPT !.state = "uploaded", !.entry = r.entry, !.by = r.user,
                                  !.phase = r.phase, !.count = r.count]
  <2>1. CASE UNCHANGED sub
    BY <1>1, <2>1
  <2>2. CASE sub' = [sub EXCEPT ![q] = row] /\ SubmissionRefs(r.entry, r.user, r.phase)
    <3>1. r.user \in Users /\ r.entry \in Entries /\ r.phase \in Phases
      BY <1>0, <1>2 DEF CreateSubmission, TypeOK, Request, RequestRecord
    <3>2. row.entry = r.entry /\ row.by = r.user /\ row.phase = r.phase
      BY DEF NoSub
    <3>3. sub'[s] = IF s = q THEN row ELSE sub[s]
      BY <1>0, <2>2 DEF TypeOK
    <3> HIDE DEF row
    <3>4. QED
      BY <2>2, <3>1, <3>2, <3>3 DEF SameRefs, SubExists
  <2>3. QED
    BY <1>2, <2>1, <2>2 DEF CreateSubmission
<1>3. ASSUME NEW q \in Subs, sub' = ResetOtherFinals(q) PROVE P
  <2>1. sub[s] \in SubRow
    BY <1>0 DEF TypeOK
  <2>2. sub'[s] = sub[s] \/ sub'[s] = [sub[s] EXCEPT !.final = FALSE]
    BY <1>3 DEF ResetOtherFinals
  <2>3. QED
    BY <2>1, <2>2 DEF SameRefs, SubExists, SubRow
<1>4. ASSUME NEW h \in Handlers, MarkSubmissionQueued(h) PROVE P
  <2> DEFINE q == req[h].sub
             row == [sub[q] EXCEPT !.state = "queued", !.count = req[h].count,
                                   !.total = req[h].total]
  <2>1. q \in Subs
    BY <1>0, <1>4 DEF MarkSubmissionQueued, TypeOK, Request, RequestRecord
  <2>2. /\ sub[q] \in SubRow
        /\ sub' = sub \/ (sub' = [sub EXCEPT ![q] = row] /\ SubExists(q))
    BY <1>0, <1>4, <2>1 DEF MarkSubmissionQueued, TypeOK
  <2>3. row.entry = sub[q].entry /\ row.by = sub[q].by /\ row.phase = sub[q].phase
    BY <2>2 DEF SubRow
  <2> HIDE DEF row
  <2>4. QED
    BY <1>0, <2>1, <2>2, <2>3 DEF SameRefs, SubExists, TypeOK
<1>5. ASSUME NEW h \in Handlers, MarkSubmissionFinal(h) PROVE P
  <2> DEFINE q == req[h].sub
             row == [sub[q] EXCEPT !.final = TRUE]
  <2>1. q \in Subs
    BY <1>0, <1>5 DEF MarkSubmissionFinal, TypeOK, Request, RequestRecord
  <2>2. /\ sub[q] \in SubRow
        /\ sub' = sub \/ (sub' = [sub EXCEPT ![q] = row] /\ SubExists(q))
    BY <1>0, <1>5, <2>1 DEF MarkSubmissionFinal, TypeOK
  <2>3. row.entry = sub[q].entry /\ row.by = sub[q].by /\ row.phase = sub[q].phase
    BY <2>2 DEF SubRow
  <2> HIDE DEF row
  <2>4. QED
    BY <1>0, <2>1, <2>2, <2>3 DEF SameRefs, SubExists, TypeOK
<1>6. ASSUME NEW h \in Handlers, NEW q \in Subs, MarkFinal(h, q) PROVE P
  BY <1>3, <1>6 DEF MarkFinal
<1>7. ASSUME NEW h \in Handlers,
             CreateSubmissionFile(h) \/ EnqueueJudge(h) \/ EnqueueResult(h)
      PROVE P
  BY <1>1, <1>7 DEF CreateSubmissionFile, EnqueueJudge, EnqueueResult
<1>8. ASSUME NEW h \in Handlers, NEW u \in Users, NEW e \in Entries, NEW p \in Phases,
             NEW list \in FileLists, InitiateUpload(h, u, e, p, list)
      PROVE P
  BY <1>1, <1>8 DEF InitiateUpload, subVars
<1>9. ASSUME NEW h \in Handlers, NEW q \in Subs, NEW list \in FileLists,
             CompleteUpload(h, q, list)
      PROVE P
  BY <1>1, <1>9 DEF CompleteUpload, subVars
<1>10. QED
  BY <1>2, <1>4, <1>5, <1>6, <1>7, <1>8, <1>9 DEF SubmissionStep

LEMMA SubmissionStepFrame == SubmissionStep => UNCHANGED notSubs
BY DEF SubmissionStep, InitiateUpload, CreateSubmission, MarkFinal, CompleteUpload,
       CreateSubmissionFile, MarkSubmissionQueued, EnqueueJudge, MarkSubmissionFinal,
       EnqueueResult

\* No statement about the entries takes away what a submission refers to.
LEMMA AnchoredByEntries ==
  ASSUME TypeOK, EntryStep, NEW x \in Entries, NEW u \in Users,
         EntryExists(x), u \in lineup[x], HasSubmitted(x, u)
  PROVE  EntryExists(x)' /\ u \in lineup'[x]
<1> DEFINE P == EntryExists(x)' /\ u \in lineup'[x]
<1>1. TypeOK /\ EntryExists(x) /\ u \in lineup[x]
  OBVIOUS
<1>2. HasSubmitted(x, u)
  OBVIOUS
<1>3. ASSUME UNCHANGED <<entry, lineup>> PROVE P
  BY <1>1, <1>3 DEF EntryExists
<1>4. ASSUME NEW e \in Entries, NEW v, AddEntryMember(e, v), UNCHANGED entry PROVE P
  BY <1>1, <1>4 DEF AddEntryMember, EntryExists, TypeOK
<1>5. ASSUME NEW h \in Handlers, NEW e \in Entries, InsertEntry(h, e) PROVE P
  <2>1. x # e
    BY <1>1, <1>5, TablesAssumption DEF InsertEntry, EntryExists
  <2>2. entry'[x] = entry[x] /\ lineup' = lineup
    BY <1>1, <1>5, <2>1 DEF InsertEntry, TypeOK
  <2>3. QED
    BY <1>1, <2>2 DEF EntryExists
<1>6. ASSUME NEW h \in Handlers, AddLeader(h) PROVE P
  <2>1. req[h].entry \in Entries
    BY <1>1, <1>6 DEF AddLeader, TypeOK, Request
  <2>2. QED
    BY <1>4, <1>6, <2>1 DEF AddLeader
<1>7. ASSUME NEW h \in Handlers, AddLineup(h) PROVE P
  <2>1. req[h].entry \in Entries
    BY <1>1, <1>7 DEF AddLineup, TypeOK, Request
  <2>2. QED
    BY <1>3, <1>4, <1>7, <2>1 DEF AddLineup
<1>8. ASSUME NEW e \in Entries, NEW v \in Users, AddMemberByHand(e, v) PROVE P
  BY <1>4, <1>8 DEF AddMemberByHand
<1>9. ASSUME NEW e \in Entries, NEW v \in Users, RemoveEntryMember(e, v) PROVE P
  <2>1. e # x \/ v # u
    BY <1>2, <1>9 DEF RemoveEntryMember
  <2>2. QED
    BY <1>1, <1>9, <2>1 DEF RemoveEntryMember, EntryExists, TypeOK
<1>10. ASSUME NEW e \in Entries, DeleteContestEntry(e) PROVE P
  <2>1. e # x
    BY <1>1, <1>2, <1>10 DEF DeleteContestEntry
  <2>2. QED
    BY <1>1, <1>10, <2>1 DEF DeleteContestEntry, EntryExists, TypeOK
<1>11. ASSUME NEW h \in Handlers, ListMembers(h) PROVE P
  BY <1>3, <1>11 DEF ListMembers, entryVars
<1>12. ASSUME NEW h \in Handlers, NEW v \in Users, NEW on \in Users \cup Teams,
              NEW m \in Modes, NEW extra \in Lineups, CreateEntry(h, v, on, m, extra)
       PROVE P
  BY <1>3, <1>12 DEF CreateEntry, entryVars
<1>13. QED
  BY <1>5, <1>6, <1>7, <1>8, <1>9, <1>10, <1>11, <1>12 DEF EntryStep

LEMMA AnchoredStep == Anchored /\ [Next]_vars => Anchored'
<1> SUFFICES ASSUME Anchored, [Next]_vars PROVE Anchored'
  OBVIOUS
<1> DEFINE Kept(s) == /\ sub'[s].entry \in Entries /\ sub'[s].by \in Users
                      /\ sub'[s].phase \in Phases
                      /\ SubmissionRefs(sub[s].entry, sub[s].by, sub[s].phase)'
<1>0. TypeOK /\ TypeOK'
  BY NextTypes DEF Anchored
<1>1. SUFFICES ASSUME NEW s \in Subs, SubExists(s)' PROVE Kept(s)
  BY <1>0, <1>1 DEF Anchored, RefsTyped, SubmissionsAnchored
<1>2. SubExists(s) => /\ sub[s].entry \in Entries /\ sub[s].by \in Users /\ sub[s].phase \in Phases
                      /\ SubmissionRefs(sub[s].entry, sub[s].by, sub[s].phase)
  BY DEF Anchored, RefsTyped, SubmissionsAnchored
<1>3. ASSUME UNCHANGED <<entryVars, setupVars, sub>> PROVE Kept(s)
  BY <1>1, <1>2, <1>3 DEF SubExists, SubmissionRefs, EntryExists, entryVars, setupVars
<1>4. CASE SubmissionStep
  <2>1. UNCHANGED notSubs
    BY <1>4, SubmissionStepFrame
  <2>2. QED
    BY <1>1, <1>2, <1>4, <2>1, AnchoredBySubs
       DEF SameRefs, SubmissionRefs, EntryExists, notSubs, entryVars, setupVars
<1>5. CASE EntryStep
  <2>1. UNCHANGED notEntries
    BY <1>0, <1>5, EntryStepFrame
  <2>2. SubExists(s) /\ sub' = sub /\ phase' = phase
    BY <1>1, <2>1 DEF notEntries, subVars, setupVars, SubExists
  <2>3. PICK x \in Entries, u \in Users : x = sub[s].entry /\ u = sub[s].by
    BY <1>2, <2>2
  <2>4. EntryExists(x) /\ u \in lineup[x] /\ HasSubmitted(x, u)
    BY <1>2, <2>2, <2>3 DEF SubmissionRefs, HasSubmitted
  <2>5. EntryExists(x)' /\ u \in lineup'[x]
    BY <1>0, <1>5, <2>4, AnchoredByEntries
  <2>6. QED
    BY <1>2, <2>2, <2>3, <2>5 DEF SubmissionRefs, EntryExists
<1>6. CASE TeamStep \/ \E h \in Handlers : StatementFails(h)
  BY <1>0, <1>3, <1>6, TeamStepFrame, FailureFrame DEF notTeams, subVars
<1>7. ASSUME NEW p \in Phases, DeletePhase(p) PROVE Kept(s)
  <2>1. SubExists(s) /\ sub[s].phase # p /\ UNCHANGED <<entryVars, sub>>
    BY <1>1, <1>7 DEF DeletePhase, subVars, SubExists
  <2>2. QED
    BY <1>0, <1>2, <1>7, <2>1 DEF DeletePhase, SubmissionRefs, EntryExists, entryVars, TypeOK
<1>8. CASE DeleteContest
  <2>1. sub'[s] = IF SubExists(s) THEN [NoSub EXCEPT !.state = "gone"] ELSE sub[s]
    BY <1>8 DEF DeleteContest
  <2>2. ~SubExists(s)'
    BY <2>1 DEF SubExists, NoSub
  <2>3. QED
    BY <1>1, <2>2
<1>9. CASE ContestEnds
  BY <1>1, <1>2, <1>9 DEF ContestEnds, SubmissionRefs, EntryExists, SubExists, entryVars, subVars
<1>10. CASE UNCHANGED vars
  BY <1>3, <1>10 DEF vars, subVars
<1>11. QED
  BY <1>4, <1>5, <1>6, <1>7, <1>8, <1>9, <1>10 DEF Next, AdminStep

LEMMA AnchoredInit == Init => Anchored
<1> SUFFICES ASSUME Init PROVE Anchored
  OBVIOUS
<1>1. ASSUME NEW s \in Subs, SubExists(s)
      PROVE  /\ sub[s].entry \in Entries /\ sub[s].by \in Users /\ sub[s].phase \in Phases
             /\ SubmissionRefs(sub[s].entry, sub[s].by, sub[s].phase)
  <2> DEFINE e == Submitted[s][1]
             p == Submitted[s][2]
  <2>1. Submitted[s] # None /\ sub[s] = EarlierSub(e, p)
    BY <1>1 DEF Init, SubExists, NoSub
  <2>2. sub[s].entry = e /\ sub[s].by = Registered[e] /\ sub[s].phase = p
    BY <2>1 DEF EarlierSub, NoSub
  <2>3. e \in Entries /\ p \in Phases /\ Registered[e] \in Users
    BY <2>1, RegisteredAssumption
  <2> HIDE DEF e, p
  <2>4. EntryExists(e) /\ Registered[e] \in lineup[e] /\ phase[p]
    BY <2>3, TablesAssumption DEF Init, EntryExists
  <2>5. QED
    BY <2>2, <2>3, <2>4 DEF SubmissionRefs
<1>2. QED
  BY <1>1, InitTypes DEF Anchored, RefsTyped, SubmissionsAnchored

\* No order of uploads, removals and deletions separates a submission from its
\* entry, its phase or its author's row in the line-up.
THEOREM SubmissionsStayAnchored == Spec => []SubmissionsAnchored
<1>1. Init => Anchored
  BY AnchoredInit
<1>2. Anchored /\ [Next]_vars => Anchored'
  BY AnchoredStep
<1>3. Anchored => SubmissionsAnchored
  BY DEF Anchored
<1>4. QED
  BY <1>1, <1>2, <1>3, PTL DEF Spec
-----------------------------------------------------------------------------
(***************************************************************************)
(* A member has consented.                                                 *)
(***************************************************************************)
\* The second statement of Create concerns the team of its first, or one that
\* has been deleted in between.
OwnerRequests ==
  \A h \in Handlers : req[h].op = "owner" => team[req[h].on] \in {req[h].user, Gone}

ConsentInv == TypeOK /\ OwnerRequests /\ Consented

LEMMA ConsentInit == Init => ConsentInv
BY InitTypes, RegisteredAssumption DEF Init, ConsentInv, OwnerRequests, Consented, Idle

LEMMA ConsentTeam ==
  ASSUME ConsentInv, TeamStep
  PROVE  OwnerRequests' /\ Consented'
<1> DEFINE P == OwnerRequests' /\ Consented'
<1> USE TablesAssumption
<1>0. TypeOK /\ OwnerRequests /\ Consented
  BY DEF ConsentInv
<1>1. ASSUME NEW h \in Handlers, AddOwner(h) PROVE P
  <2> DEFINE t == req[h].on
             u == req[h].user
  <2>1. t \in Teams /\ u \in Users /\ team[t] \in {u, Gone} /\ team' = team /\ agreed' = agreed
    BY <1>0, <1>1 DEF AddOwner, OwnerRequests, TypeOK, Request
  <2>2. UNCHANGED member \/ (SetStatus(t, u, "accepted") /\ team[t] = u)
    BY <1>1, <2>1 DEF AddOwner, TeamExists
  <2>3. \A g \in Handlers : req'[g] = req[g] \/ req'[g].op = "idle"
    BY <1>0, <1>1, AfterDone DEF AddOwner, Idle
  <2>4. Consented'
    BY <1>0, <2>1, <2>2 DEF Consented, SetStatus, TypeOK
  <2>5. OwnerRequests'
    BY <1>0, <2>1, <2>3 DEF OwnerRequests
  <2>6. QED
    BY <2>4, <2>5
<1>2. ASSUME NEW h \in Handlers, NEW u \in Users, NEW t \in Teams, CreateTeam(h, u, t) PROVE P
  <2> DEFINE r == [Idle EXCEPT !.op = "owner", !.user = u, !.on = t]
  <2>1. r.op = "owner" /\ r.user = u /\ r.on = t
    BY DEF Idle
  <2>2. Begin(h, r) /\ team[t] = None /\ team' = [team EXCEPT ![t] = u] /\ UNCHANGED <<member, agreed>>
    BY <1>2 DEF CreateTeam
  <2> HIDE DEF r
  <2>3. \A g \in Handlers : req'[g] = IF g = h THEN r ELSE req[g]
    BY <1>0, <2>2, BeginOrGoto
  <2>4. Consented'
    BY <1>0, <2>2 DEF Consented, TypeOK
  <2>5. ASSUME NEW g \in Handlers, req'[g].op = "owner"
        PROVE  team'[req'[g].on] \in {req'[g].user, Gone}
    <3>1. CASE g = h
      BY <1>0, <2>1, <2>2, <2>3, <3>1 DEF TypeOK
    <3>2. CASE g # h
      <4>1. req'[g] = req[g] /\ team[req[g].on] \in {req[g].user, Gone}
        BY <1>0, <2>3, <2>5, <3>2 DEF OwnerRequests
      <4>2. req[g].on \in Teams /\ req[g].user \in Users
        BY <1>0, <2>5, <4>1 DEF TypeOK, Request
      <4>3. QED
        BY <1>0, <2>2, <4>1, <4>2 DEF TypeOK
    <3>3. QED
      BY <3>1, <3>2
  <2>6. QED
    BY <2>4, <2>5 DEF OwnerRequests
<1>3. ASSUME NEW u \in Users, NEW t \in Teams, DeleteTeam(u, t) PROVE P
  <2>1. /\ team' = [team EXCEPT ![t] = Gone] /\ req' = req
        /\ member' = [member EXCEPT ![t] = [v \in Users |-> "absent"]]
        /\ agreed' = {a \in agreed : a[1] # t}
    BY <1>3 DEF DeleteTeam, OneStatement
  <2>2. Consented'
    BY <1>0, <2>1 DEF Consented, TypeOK
  <2>3. \A h \in Handlers : req[h].op = "owner" => req[h].on \in Teams
    BY <1>0 DEF TypeOK, Request
  <2>4. OwnerRequests'
    BY <1>0, <2>1, <2>3 DEF OwnerRequests, TypeOK
  <2>5. QED
    BY <2>2, <2>4
<1>4. ASSUME NEW u \in Users, NEW t \in Teams, NEW v \in Users,
             \/ AcceptInvitation(u, t) \/ DeclineInvitation(u, t)
             \/ AddMember(u, t, v) \/ RemoveMember(u, t, v)
      PROVE P
  <2>1. UNCHANGED <<team, req>>
    BY <1>4 DEF AcceptInvitation, DeclineInvitation, AddMember, RemoveMember, OneStatement
  <2>2. OwnerRequests'
    BY <1>0, <2>1 DEF OwnerRequests
  <2>3. CASE AcceptInvitation(u, t)
    BY <1>0, <2>1, <2>2, <2>3 DEF AcceptInvitation, SetStatus, Consented, TypeOK
  <2>4. CASE DeclineInvitation(u, t)
    BY <1>0, <2>1, <2>2, <2>4 DEF DeclineInvitation, SetStatus, Consented, TypeOK
  <2>5. CASE AddMember(u, t, v)
    BY <1>0, <2>1, <2>2, <2>5 DEF AddMember, InviteTeamMember, Consented, TypeOK
  <2>6. CASE RemoveMember(u, t, v)
    BY <1>0, <2>1, <2>2, <2>6 DEF RemoveMember, SetStatus, Consented, TypeOK
  <2>7. QED
    BY <1>4, <2>3, <2>4, <2>5, <2>6
<1>5. QED
  BY <1>1, <1>2, <1>3, <1>4 DEF TeamStep

LEMMA SubmissionRequests ==
  ASSUME TypeOK, SubmissionStep
  PROVE  \A g \in Handlers : req'[g] = req[g] \/ req'[g].op # "owner"
<1> DEFINE P == \A g \in Handlers : req'[g] = req[g] \/ req'[g].op # "owner"
<1>1. ASSUME NEW h \in Handlers, NEW r, Begin(h, r) \/ Goto(h, r), r.op # "owner" PROVE P
  BY <1>1, BeginOrGoto
<1>2. ASSUME NEW h \in Handlers, Done(h) PROVE P
  BY <1>2, AfterDone DEF Idle
<1>3. ASSUME NEW h \in Handlers, NEW s \in Subs,
             \/ CreateSubmission(h, s) \/ EnqueueJudge(h) \/ EnqueueResult(h)
      PROVE P
  BY <1>2, <1>3 DEF CreateSubmission, EnqueueJudge, EnqueueResult
<1>4. ASSUME NEW h \in Handlers, EnqueueJudge(h) \/ EnqueueResult(h) PROVE P
  BY <1>2, <1>4 DEF EnqueueJudge, EnqueueResult
<1>5. ASSUME NEW h \in Handlers, NEW u \in Users, NEW e \in Entries, NEW p \in Phases,
             NEW list \in FileLists, InitiateUpload(h, u, e, p, list)
      PROVE P
  <2> DEFINE r == [Idle EXCEPT !.op = "create", !.user = u, !.entry = e, !.phase = p,
                               !.count = Len(list)]
  <2>1. Begin(h, r) /\ r.op # "owner"
    BY <1>5 DEF InitiateUpload, Idle
  <2>2. QED
    BY <1>1, <2>1
<1>6. ASSUME NEW h \in Handlers, NEW s \in Subs, NEW list \in FileLists,
             CompleteUpload(h, s, list)
      PROVE P
  <2> DEFINE r == [Idle EXCEPT !.op = "file", !.sub = s, !.left = Len(list),
                               !.count = Len(list), !.total = Total[list]]
  <2>1. Begin(h, r) /\ r.op # "owner"
    BY <1>6 DEF CompleteUpload, Idle
  <2>2. QED
    BY <1>1, <2>1
<1>7. ASSUME NEW h \in Handlers, NEW s \in Subs, MarkFinal(h, s) PROVE P
  <2> DEFINE r == [Idle EXCEPT !.op = "final", !.sub = s]
  <2>1. Begin(h, r) /\ r.op # "owner"
    BY <1>7 DEF MarkFinal, Idle
  <2>2. QED
    BY <1>1, <2>1
<1>8. ASSUME NEW h \in Handlers, CreateSubmissionFile(h) PROVE P
  <2> DEFINE q == req[h]
             r == [q EXCEPT !.left = @ - 1, !.op = IF q.left = 1 THEN "queue" ELSE @]
  <2>1. q \in RequestRecord /\ q.op = "file"
    BY <1>8 DEF CreateSubmissionFile, TypeOK, Request
  <2>2. r.op # "owner"
    BY <2>1 DEF RequestRecord
  <2>3. Goto(h, r) \/ Done(h)
    BY <1>8 DEF CreateSubmissionFile
  <2>4. QED
    BY <1>1, <1>2, <2>2, <2>3
<1>9. ASSUME NEW h \in Handlers, MarkSubmissionQueued(h) \/ MarkSubmissionFinal(h) PROVE P
  <2>1. req[h] \in RequestRecord
    BY DEF TypeOK, Request
  <2>2. \A op \in {"enqueue", "result"} : [req[h] EXCEPT !.op = op].op # "owner"
    BY <2>1 DEF RequestRecord
  <2>3. Done(h) \/ \E op \in {"enqueue", "result"} : Goto(h, [req[h] EXCEPT !.op = op])
    BY <1>9 DEF MarkSubmissionQueued, MarkSubmissionFinal
  <2>4. QED
    BY <1>1, <1>2, <2>2, <2>3
<1>10. QED
  BY <1>3, <1>4, <1>5, <1>6, <1>7, <1>8, <1>9 DEF SubmissionStep

LEMMA ConsentStep == ConsentInv /\ [Next]_vars => ConsentInv'
<1> SUFFICES ASSUME ConsentInv, [Next]_vars PROVE ConsentInv'
  OBVIOUS
<1>0. TypeOK /\ TypeOK' /\ OwnerRequests /\ Consented
  BY NextTypes DEF ConsentInv
<1>1. ASSUME ~TeamStep
      PROVE  UNCHANGED teamVars /\ \A g \in Handlers : req'[g] = req[g] \/ req'[g].op # "owner"
  <2>1. CASE EntryStep
    BY <1>0, <2>1, EntryStepFrame DEF Became, notEntries
  <2>2. CASE SubmissionStep
    BY <1>0, <2>2, SubmissionRequests, SubmissionStepFrame DEF notSubs
  <2>3. CASE AdminStep
    BY <2>3, AdminStepFrame
  <2>4. ASSUME NEW h \in Handlers, StatementFails(h)
        PROVE  UNCHANGED teamVars /\ \A g \in Handlers : req'[g] = req[g] \/ req'[g].op # "owner"
    BY <1>0, <2>4, FailureFrame DEF Became
  <2>5. CASE UNCHANGED vars
    BY <2>5 DEF vars
  <2>6. QED
    BY <1>1, <2>1, <2>2, <2>3, <2>4, <2>5 DEF Next
<1>2. ASSUME ~TeamStep PROVE OwnerRequests' /\ Consented'
  <2>1. UNCHANGED <<team, member, agreed>>
    BY <1>1, <1>2 DEF teamVars
  <2>2. Consented'
    BY <1>0, <2>1 DEF Consented
  <2>3. ASSUME NEW g \in Handlers, req'[g].op = "owner"
        PROVE  team'[req'[g].on] \in {req'[g].user, Gone}
    <3>1. req'[g] = req[g] /\ req[g].op = "owner"
      BY <1>1, <1>2, <2>3
    <3>2. QED
      BY <1>0, <2>1, <3>1 DEF OwnerRequests
  <2>4. QED
    BY <2>2, <2>3 DEF OwnerRequests
<1>3. OwnerRequests' /\ Consented'
  BY <1>2, ConsentTeam
<1>4. QED
  BY <1>0, <1>3 DEF ConsentInv

\* A user counts as a member of a team only as its owner or by an invitation
\* she accepted, also when the team is deleted between the two statements that
\* create it.
THEOREM MembersConsented == Spec => []Consented
<1>1. ConsentInv => Consented
  BY DEF ConsentInv
<1>2. QED
  BY <1>1, ConsentInit, ConsentStep, PTL DEF Spec
-----------------------------------------------------------------------------
(***************************************************************************)
(* A queued submission has a row for each file it counts.                  *)
(***************************************************************************)
\* A request of CompleteUpload has inserted the rows it does not owe, unless
\* its submission has been deleted.
FileRows(h) ==
  LET r == req[h] IN
  r.op \in {"file", "queue"} =>
    /\ sub[r.sub].state # "none"
    /\ SubExists(r.sub) => r.count <= files[r.sub] + (IF r.op = "file" THEN r.left ELSE 0)

FilesInv == TypeOK /\ FilesCoverCount /\ \A h \in Handlers : FileRows(h)

LEMMA FilesInit == Init => FilesInv
<1> SUFFICES ASSUME Init PROVE FilesInv
  OBVIOUS
<1>1. \A h \in Handlers : FileRows(h)
  BY DEF Init, FileRows, Idle
<1>2. ASSUME NEW s \in Subs, sub[s].state = "queued" PROVE sub[s].count <= files[s]
  <2>1. Submitted[s] # None
    BY <1>2 DEF Init, NoSub
  <2>2. sub[s].count = 1 /\ files[s] = 1
    BY <2>1 DEF Init, EarlierSub, NoSub
  <2>3. QED
    BY <2>2
<1>3. QED
  BY <1>1, <1>2, InitTypes DEF FilesInv, FilesCoverCount

\* Files are only added to a submission that exists, and none is revived.
Grows(s) ==
  /\ sub[s].state # "none" => sub'[s].state # "none"
  /\ sub[s].state # "none" /\ SubExists(s)' => SubExists(s) /\ files'[s] >= files[s]

LEMMA RowsKept ==
  ASSUME FilesInv, TypeOK', \A s \in Subs : Grows(s), NEW h \in Handlers, req'[h] = req[h]
  PROVE  FileRows(h)'
<1> DEFINE r == req[h]
<1>1. SUFFICES ASSUME r.op \in {"file", "queue"}
               PROVE  /\ sub'[r.sub].state # "none"
                      /\ SubExists(r.sub)' =>
                           r.count <= files'[r.sub] + (IF r.op = "file" THEN r.left ELSE 0)
  BY DEF FileRows, SubExists
<1>2. r.sub \in Subs /\ r.count \in Nat /\ r.left \in Nat
  BY <1>1 DEF FilesInv, TypeOK, Request, RequestRecord
<1>3. files[r.sub] \in Nat /\ files'[r.sub] \in Nat
  BY <1>2 DEF FilesInv, TypeOK
<1>4. /\ sub[r.sub].state # "none"
      /\ SubExists(r.sub) => r.count <= files[r.sub] + (IF r.op = "file" THEN r.left ELSE 0)
  BY <1>1 DEF FilesInv, FileRows
<1>5. Grows(r.sub)
  BY <1>2
<1>6. QED
  BY <1>2, <1>3, <1>4, <1>5 DEF Grows

\* The steps that write neither the submissions nor their files.
LEMMA FilesElsewhere ==
  ASSUME FilesInv, TypeOK', UNCHANGED <<sub, files>>,
         \A g \in Handlers : req'[g] = req[g] \/ req'[g].op \notin {"file", "queue"}
  PROVE  FilesInv'
<1>1. \A s \in Subs : Grows(s)
  BY DEF FilesInv, TypeOK, Grows, SubExists
<1>2. ASSUME NEW g \in Handlers PROVE FileRows(g)'
  <2>1. CASE req'[g] = req[g]
    BY <1>1, <2>1, RowsKept
  <2>2. CASE req'[g].op \notin {"file", "queue"}
    BY <2>2 DEF FileRows
  <2>3. QED
    BY <2>1, <2>2
<1>3. FilesCoverCount'
  BY DEF FilesInv, FilesCoverCount
<1>4. QED
  BY <1>2, <1>3 DEF FilesInv

LEMMA FilesBySubs == FilesInv /\ SubmissionStep => FilesInv'
<1> SUFFICES ASSUME FilesInv, SubmissionStep PROVE FilesInv'
  OBVIOUS
<1>0. TypeOK /\ TypeOK' /\ FilesCoverCount
  BY SubmissionTypes DEF FilesInv
\* A step of handler h to a request of another kind, which writes no file row.
<1>a. ASSUME NEW h \in Handlers, NEW r, Begin(h, r) \/ Goto(h, r), r.op \notin {"file", "queue"},
             \A s \in Subs : Grows(s), FilesCoverCount'
      PROVE  FilesInv'
  <2>1. \A g \in Handlers : req'[g] = IF g = h THEN r ELSE req[g]
    BY <1>0, <1>a, BeginOrGoto
  <2>2. ASSUME NEW g \in Handlers PROVE FileRows(g)'
    <3>1. CASE g = h
      BY <1>a, <2>1, <3>1 DEF FileRows
    <3>2. CASE g # h
      BY <1>0, <1>a, <2>1, <3>2, RowsKept
    <3>3. QED
      BY <3>1, <3>2
  <2>3. QED
    BY <1>0, <1>a, <2>2 DEF FilesInv
<1>b. Idle.op \notin {"file", "queue"}
  BY DEF Idle
<1>c. ASSUME UNCHANGED <<sub, files>> PROVE FilesCoverCount' /\ \A s \in Subs : Grows(s)
  BY <1>0, <1>c DEF FilesCoverCount, Grows, SubExists, TypeOK
<1>1. ASSUME NEW h \in Handlers, NEW u \in Users, NEW e \in Entries, NEW p \in Phases,
             NEW list \in FileLists, InitiateUpload(h, u, e, p, list)
      PROVE  FilesInv'
  <2> DEFINE r == [Idle EXCEPT !.op = "create", !.user = u, !.entry = e, !.phase = p,
                               !.count = Len(list)]
  <2>1. Begin(h, r) /\ r.op \notin {"file", "queue"} /\ UNCHANGED <<sub, files>>
    BY <1>1 DEF InitiateUpload, Idle, subVars
  <2> HIDE DEF r
  <2>2. QED
    BY <2>1, <1>a, <1>c
<1>2. ASSUME NEW h \in Handlers, NEW s \in Subs, CreateSubmission(h, s) PROVE FilesInv'
  <2> DEFINE r == req[h]
             row == [NoSub EXCEPT !.state = "uploaded", !.entry = r.entry, !.by = r.user,
                                  !.phase = r.phase, !.count = r.count]
  <2>1. /\ sub' = [sub EXCEPT ![s] = row] \/ sub' = sub
        /\ files' = files /\ Done(h) /\ sub[s] = NoSub
    BY <1>2 DEF CreateSubmission
  <2>2. row.state = "uploaded" /\ NoSub.state = "none"
    BY DEF NoSub
  <2> HIDE DEF row
  <2>3. CASE sub' = sub
    BY <1>a, <1>b, <1>c, <2>1, <2>3 DEF Done
  <2>4. CASE sub' = [sub EXCEPT ![s] = row]
    <3>1. \A q \in Subs : sub'[q] = IF q = s THEN row ELSE sub[q]
      BY <1>0, <2>4 DEF TypeOK
    <3>2. FilesCoverCount'
      BY <1>0, <2>1, <2>2, <3>1 DEF FilesCoverCount
    <3>3. \A q \in Subs : files'[q] >= files[q]
      BY <1>0, <2>1 DEF TypeOK
    <3>4. \A q \in Subs : Grows(q)
      BY <2>1, <2>2, <3>1, <3>3 DEF Grows, SubExists
    <3>5. QED
      BY <1>a, <1>b, <2>1, <3>2, <3>4 DEF Done
  <2>5. QED
    BY <2>1, <2>3, <2>4
<1>3. ASSUME NEW h \in Handlers, NEW s \in Subs, MarkFinal(h, s) PROVE FilesInv'
  <2> DEFINE r == [Idle EXCEPT !.op = "final", !.sub = s]
  <2>1. /\ Begin(h, r) /\ r.op \notin {"file", "queue"}
        /\ sub' = ResetOtherFinals(s) /\ files' = files
    BY <1>3 DEF MarkFinal, Idle
  <2>2. \A q \in Subs : sub'[q].state = sub[q].state /\ sub'[q].count = sub[q].count
    <3>1. \A q \in Subs : sub[q] \in SubRow
      BY <1>0 DEF TypeOK
    <3>2. \A q \in Subs : sub'[q] = sub[q] \/ sub'[q] = [sub[q] EXCEPT !.final = FALSE]
      BY <2>1 DEF ResetOtherFinals
    <3>3. QED
      BY <3>1, <3>2 DEF SubRow
  <2> HIDE DEF r
  <2>3. FilesCoverCount' /\ \A q \in Subs : Grows(q)
    BY <1>0, <2>1, <2>2 DEF FilesCoverCount, Grows, SubExists, TypeOK
  <2>4. QED
    BY <1>a, <2>1, <2>3
<1>4. ASSUME NEW h \in Handlers, NEW s \in Subs, NEW list \in FileLists,
             CompleteUpload(h, s, list)
      PROVE  FilesInv'
  <2> DEFINE r == [Idle EXCEPT !.op = "file", !.sub = s, !.left = Len(list),
                               !.count = Len(list), !.total = Total[list]]
  <2>1. Begin(h, r) /\ UNCHANGED <<sub, files>> /\ SubExists(s)
    BY <1>4 DEF CompleteUpload, subVars
  <2>2. r.op = "file" /\ r.sub = s /\ r.left = Len(list) /\ r.count = Len(list)
    BY DEF Idle
  <2>3. Len(list) \in Nat /\ files[s] \in Nat
    BY <1>0, FilesAssumption DEF TypeOK
  <2> HIDE DEF r
  <2>4. \A g \in Handlers : req'[g] = IF g = h THEN r ELSE req[g]
    BY <1>0, <2>1, BeginOrGoto
  <2>5. ASSUME NEW g \in Handlers PROVE FileRows(g)'
    <3>1. CASE g = h
      <4>1. req'[g] = r /\ sub' = sub /\ files' = files
        BY <2>1, <2>4, <3>1
      <4>2. r.count <= files[s] + r.left
        BY <2>2, <2>3
      <4>3. sub[s].state # "none"
        BY <2>1 DEF SubExists
      <4>4. QED
        BY <2>2, <4>1, <4>2, <4>3 DEF FileRows, SubExists
    <3>2. CASE g # h
      BY <1>0, <1>c, <2>1, <2>4, <3>2, RowsKept
    <3>3. QED
      BY <3>1, <3>2
  <2>6. QED
    BY <1>0, <1>c, <2>1, <2>5 DEF FilesInv
<1>5. ASSUME NEW h \in Handlers, CreateSubmissionFile(h) PROVE FilesInv'
  <2> DEFINE q == req[h]
             s == q.sub
             r == [q EXCEPT !.left = @ - 1, !.op = IF q.left = 1 THEN "queue" ELSE @]
  <2>1. q.op = "file" /\ sub' = sub /\ q \in RequestRecord /\ s \in Subs /\ q.left > 0
    BY <1>0, <1>5 DEF CreateSubmissionFile, TypeOK, Request
  <2>2. q.left \in Nat /\ q.count \in Nat /\ files[s] \in Nat
    BY <1>0, <2>1 DEF TypeOK, RequestRecord
  <2>3. CASE Done(h) /\ files' = files
    BY <1>a, <1>b, <1>c, <2>1, <2>3 DEF Done
  <2>4. CASE files' = [files EXCEPT ![s] = @ + 1] /\ Goto(h, r)
    <3>1. /\ r.left = q.left - 1 /\ r.count = q.count /\ r.sub = s
          /\ r.op = IF q.left = 1 THEN "queue" ELSE "file"
      BY <2>1 DEF RequestRecord
    <3> HIDE DEF r
    <3>2. \A g \in Handlers : req'[g] = IF g = h THEN r ELSE req[g]
      BY <1>0, <2>4, BeginOrGoto
    <3>3. \A x \in Subs : Grows(x) /\ files'[x] >= files[x]
      BY <1>0, <2>1, <2>4 DEF Grows, SubExists, TypeOK
    <3>4. FilesCoverCount'
      <4>1. ASSUME NEW x \in Subs, sub[x].state = "queued" PROVE sub[x].count <= files'[x]
        <5>1. sub[x].count <= files[x] /\ files'[x] >= files[x]
          BY <1>0, <3>3, <4>1 DEF FilesCoverCount
        <5>2. sub[x].count \in Nat /\ files[x] \in Nat /\ files'[x] \in Nat
          BY <1>0 DEF TypeOK, SubRow
        <5>3. QED
          BY <5>1, <5>2
      <4>2. QED
        BY <2>1, <4>1 DEF FilesCoverCount
    <3>5. FileRows(h)'
      <4>1. sub[s].state # "none" /\ (SubExists(s) => q.count <= files[s] + q.left)
        BY <2>1 DEF FilesInv, FileRows
      <4>2. req'[h] = r /\ sub' = sub /\ files'[s] = files[s] + 1
        BY <1>0, <2>1, <2>4, <3>2 DEF TypeOK
      <4>3. SubExists(s) => r.count <= files'[s] + (IF r.op = "file" THEN r.left ELSE 0)
        <5>1. CASE q.left = 1
          BY <2>2, <3>1, <4>1, <4>2, <5>1
        <5>2. CASE q.left # 1
          BY <2>2, <3>1, <4>1, <4>2, <5>2
        <5>3. QED
          BY <5>1, <5>2
      <4>4. QED
        BY <3>1, <4>1, <4>2, <4>3 DEF FileRows, SubExists
    <3>6. ASSUME NEW g \in Handlers PROVE FileRows(g)'
      BY <1>0, <3>2, <3>3, <3>5, RowsKept
    <3>7. QED
      BY <1>0, <3>4, <3>6 DEF FilesInv
  <2>5. QED
    BY <1>5, <2>3, <2>4 DEF CreateSubmissionFile
<1>6. ASSUME NEW h \in Handlers, MarkSubmissionQueued(h) PROVE FilesInv'
  <2> DEFINE q == req[h]
             s == q.sub
             r == [q EXCEPT !.op = "enqueue"]
             row == [sub[s] EXCEPT !.state = "queued", !.count = q.count, !.total = q.total]
  <2>1. /\ q.op = "queue" /\ q \in RequestRecord /\ s \in Subs /\ files' = files
        /\ sub[s] \in SubRow
    BY <1>0, <1>6 DEF MarkSubmissionQueued, TypeOK, Request
  <2>2. CASE Done(h) /\ sub' = sub
    BY <1>a, <1>b, <1>c, <2>1, <2>2 DEF Done
  <2>3. CASE SubExists(s) /\ sub' = [sub EXCEPT ![s] = row] /\ Goto(h, r)
    <3>1. row.state = "queued" /\ row.count = q.count /\ r.op = "enqueue"
      BY <2>1 DEF SubRow, RequestRecord
    <3>2. q.count <= files[s]
      <4>1. q.count <= files[s] + 0 /\ q.count \in Nat /\ files[s] \in Nat
        BY <1>0, <2>1, <2>3 DEF FilesInv, FileRows, TypeOK, RequestRecord
      <4>2. QED
        BY <4>1
    <3> HIDE DEF row, r
    <3>3. FilesCoverCount'
      BY <1>0, <2>1, <2>3, <3>1, <3>2 DEF FilesCoverCount, TypeOK
    <3>4. \A x \in Subs : Grows(x)
      BY <1>0, <2>1, <2>3, <3>1 DEF Grows, SubExists, TypeOK
    <3>5. QED
      BY <1>a, <2>3, <3>1, <3>3, <3>4
  <2>4. QED
    BY <1>6, <2>2, <2>3 DEF MarkSubmissionQueued
<1>7. ASSUME NEW h \in Handlers, MarkSubmissionFinal(h) PROVE FilesInv'
  <2> DEFINE q == req[h]
             s == q.sub
             r == [q EXCEPT !.op = "result"]
             row == [sub[s] EXCEPT !.final = TRUE]
  <2>1. q \in RequestRecord /\ s \in Subs /\ files' = files /\ sub[s] \in SubRow
    BY <1>0, <1>7 DEF MarkSubmissionFinal, TypeOK, Request
  <2>2. CASE Done(h) /\ sub' = sub
    BY <1>a, <1>b, <1>c, <2>1, <2>2 DEF Done
  <2>3. CASE SubExists(s) /\ sub' = [sub EXCEPT ![s] = row] /\ Goto(h, r)
    <3>1. row.state = sub[s].state /\ row.count = sub[s].count /\ r.op = "result"
      BY <2>1 DEF SubRow, RequestRecord
    <3> HIDE DEF row, r
    <3>2. FilesCoverCount' /\ \A x \in Subs : Grows(x)
      BY <1>0, <2>1, <2>3, <3>1 DEF FilesCoverCount, Grows, SubExists, TypeOK
    <3>3. QED
      BY <1>a, <2>3, <3>1, <3>2
  <2>4. QED
    BY <1>7, <2>2, <2>3 DEF MarkSubmissionFinal
<1>8. ASSUME NEW h \in Handlers, EnqueueJudge(h) \/ EnqueueResult(h) PROVE FilesInv'
  BY <1>8, <1>a, <1>b, <1>c DEF EnqueueJudge, EnqueueResult, Done
<1>9. QED
  BY <1>1, <1>2, <1>3, <1>4, <1>5, <1>6, <1>7, <1>8 DEF SubmissionStep

LEMMA FilesStep == FilesInv /\ [Next]_vars => FilesInv'
<1> SUFFICES ASSUME FilesInv, [Next]_vars PROVE FilesInv'
  OBVIOUS
<1>0. TypeOK /\ TypeOK'
  BY NextTypes DEF FilesInv
<1>1. CASE TeamStep
  BY <1>0, <1>1, TeamStepFrame, FilesElsewhere DEF Became, notTeams, subVars
<1>2. CASE EntryStep
  BY <1>0, <1>2, EntryStepFrame, FilesElsewhere DEF Became, notEntries, subVars
<1>3. ASSUME NEW h \in Handlers, StatementFails(h) PROVE FilesInv'
  BY <1>0, <1>3, FailureFrame, FilesElsewhere DEF Became, notTeams, subVars
<1>4. CASE UNCHANGED vars
  BY <1>0, <1>4, FilesElsewhere DEF vars, subVars
<1>5. CASE ContestEnds \/ \E p \in Phases : DeletePhase(p)
  BY <1>0, <1>5, FilesElsewhere DEF ContestEnds, DeletePhase, OneStatement, subVars
<1>6. CASE DeleteContest
  <2>1. \A s \in Subs : sub'[s] = IF SubExists(s) THEN [NoSub EXCEPT !.state = "gone"] ELSE sub[s]
    BY <1>6 DEF DeleteContest
  <2>2. \A s \in Subs : ~SubExists(s)' /\ (sub[s].state # "none" => sub'[s].state # "none")
    BY <2>1 DEF SubExists, NoSub
  <2>3. \A s \in Subs : Grows(s)
    BY <2>2 DEF Grows
  <2>4. FilesCoverCount'
    BY <2>2 DEF FilesCoverCount, SubExists
  <2>5. req' = req
    BY <1>6 DEF DeleteContest, OneStatement
  <2>6. \A h \in Handlers : FileRows(h)'
    BY <1>0, <2>3, <2>5, RowsKept
  <2>7. QED
    BY <1>0, <2>4, <2>6 DEF FilesInv
<1>7. QED
  BY <1>1, <1>2, <1>3, <1>4, <1>5, <1>6, FilesBySubs DEF Next, AdminStep

\* A submission is queued with no more files than have a row, whatever
\* requests complete it at once, are repeated or fail.
THEOREM QueuedFilesExist == Spec => []FilesCoverCount
<1>1. FilesInv => FilesCoverCount
  BY DEF FilesInv
<1>2. QED
  BY <1>1, FilesInit, FilesStep, PTL DEF Spec
-----------------------------------------------------------------------------
(***************************************************************************)
(* A participant has one entry per mode.                                   *)
(***************************************************************************)
EntriesInv == TypeOK /\ OneEntryPerMode

LEMMA EntriesInit == Init => EntriesInv
<1> SUFFICES ASSUME Init PROVE OneEntryPerMode
  BY InitTypes DEF EntriesInv
<1> SUFFICES ASSUME NEW e \in Entries, NEW f \in Entries, EntryExists(e), entry[e] = entry[f]
             PROVE  e = f
  BY DEF OneEntryPerMode
<1>1. entry = Registered /\ entry[e] # None
  BY TablesAssumption DEF Init, EntryExists
<1>2. QED
  BY <1>1, RegisteredAssumption

\* Entries are only deleted.
LEMMA EntriesShrink ==
  ASSUME OneEntryPerMode, mode' = mode,
         \A e \in Entries : EntryExists(e)' => entry'[e] = entry[e]
  PROVE  OneEntryPerMode'
<1> SUFFICES ASSUME NEW e \in Entries, NEW f \in Entries, EntryExists(e)',
                    entry'[e] = entry'[f], mode'[e] = mode'[f]
             PROVE  e = f
  BY DEF OneEntryPerMode
<1>1. EntryExists(f)'
  BY DEF EntryExists
<1>2. entry'[e] = entry[e] /\ entry'[f] = entry[f] /\ EntryExists(e)
  BY <1>1 DEF EntryExists
<1>3. QED
  BY <1>2 DEF OneEntryPerMode

LEMMA EntriesStep == EntriesInv /\ [Next]_vars => EntriesInv'
<1> SUFFICES ASSUME EntriesInv, [Next]_vars PROVE OneEntryPerMode'
  BY NextTypes DEF EntriesInv
<1>0. TypeOK /\ OneEntryPerMode
  BY DEF EntriesInv
<1>1. ASSUME UNCHANGED <<entry, mode>> PROVE OneEntryPerMode'
  BY <1>0, <1>1 DEF OneEntryPerMode, EntryExists
<1>2. ASSUME NEW h \in Handlers, NEW e \in Entries, InsertEntry(h, e) PROVE OneEntryPerMode'
  <2> DEFINE on == req[h].on
             m == req[h].mode
  <2>1. CASE UNCHANGED <<entry, mode>>
    BY <1>1, <2>1
  <2>2. CASE /\ SlotFree(on, m)
             /\ entry' = [entry EXCEPT ![e] = on] /\ mode' = [mode EXCEPT ![e] = m]
    <3>1. \A f \in Entries : /\ entry'[f] = IF f = e THEN on ELSE entry[f]
                             /\ mode'[f] = IF f = e THEN m ELSE mode[f]
      BY <1>0, <2>2 DEF TypeOK
    <3>2. \A f \in Entries : entry[f] # on \/ mode[f] # m
      BY <2>2 DEF SlotFree
    <3> HIDE DEF on, m
    <3>3. QED
      BY <1>0, <3>1, <3>2 DEF OneEntryPerMode, EntryExists
  <2>3. QED
    BY <1>2, <2>1, <2>2 DEF InsertEntry
<1>3. ASSUME NEW e \in Entries, DeleteContestEntry(e) PROVE OneEntryPerMode'
  <2>1. \A f \in Entries : EntryExists(f)' => entry'[f] = entry[f]
    BY <1>0, <1>3, TablesAssumption DEF DeleteContestEntry, EntryExists, TypeOK
  <2>2. QED
    BY <1>0, <1>3, <2>1, EntriesShrink DEF DeleteContestEntry
<1>4. CASE DeleteContest
  <2>1. \A f \in Entries : EntryExists(f)' => entry'[f] = entry[f]
    BY <1>4, TablesAssumption DEF DeleteContest, EntryExists
  <2>2. QED
    BY <1>0, <1>4, <2>1, EntriesShrink DEF DeleteContest
<1>5. CASE EntryStep
  BY <1>1, <1>2, <1>3, <1>5 DEF EntryStep, CreateEntry, AddLeader, ListMembers, AddLineup,
     AddMemberByHand, RemoveEntryMember, entryVars
<1>6. CASE TeamStep
  BY <1>0, <1>1, <1>6, TeamStepFrame DEF notTeams, entryVars
<1>7. CASE SubmissionStep
  BY <1>1, <1>7, SubmissionStepFrame DEF notSubs, entryVars
<1>8. CASE ContestEnds \/ \E p \in Phases : DeletePhase(p)
  BY <1>1, <1>8 DEF ContestEnds, DeletePhase, entryVars
<1>9. ASSUME NEW h \in Handlers, StatementFails(h) PROVE OneEntryPerMode'
  BY <1>0, <1>1, <1>9, FailureFrame DEF notTeams, entryVars
<1>10. CASE UNCHANGED vars
  BY <1>1, <1>10 DEF vars, entryVars
<1>11. QED
  BY <1>4, <1>5, <1>6, <1>7, <1>8, <1>9, <1>10 DEF Next, AdminStep

\* A participant has one entry per mode, however many requests to create it
\* overlap: the two partial unique indexes are what refuses the second row.
THEOREM EntryIsUnique == Spec => []OneEntryPerMode
<1>1. EntriesInv => OneEntryPerMode
  BY DEF EntriesInv
<1>2. QED
  BY <1>1, EntriesInit, EntriesStep, PTL DEF Spec
-----------------------------------------------------------------------------
(***************************************************************************)
(* What a statement does to a row of the submissions and to a request that *)
(* uploads or marks one.                                                   *)
(***************************************************************************)
\* The row was not inserted and keeps its slot; a mark or a queued state is
\* new only by the request that sets it.
RowKept(s) ==
  /\ SubExists(s) /\ sub'[s].entry = sub[s].entry /\ sub'[s].phase = sub[s].phase
  /\ sub'[s].final => sub[s].final \/ \E h \in Handlers : req[h].op = "final" /\ req[h].sub = s
  /\ sub'[s].state = "queued" =>
       \/ sub[s].state = "queued" /\ sub'[s].total = sub[s].total
       \/ \E h \in Handlers : /\ req[h].op = "queue" /\ req[h].sub = s
                              /\ sub'[s].total = req[h].total

\* The row was inserted now.
RowInserted(s) ==
  /\ sub[s].state = "none" /\ sub'[s].state = "uploaded" /\ ~sub'[s].final
  /\ \E h \in Handlers : CreateSubmission(h, s)

RowFate(s) == IF SubExists(s)' THEN RowKept(s) \/ RowInserted(s)
              ELSE sub[s].state # "none" => sub'[s].state # "none"

LEMMA RowUnchanged ==
  ASSUME NEW s \in Subs, sub'[s] = sub[s]
  PROVE  RowFate(s)
BY DEF RowFate, RowKept, SubExists

LEMMA RowFates ==
  ASSUME TypeOK, [Next]_vars, NEW s \in Subs
  PROVE  RowFate(s)
<1>0. sub[s] \in SubRow
  BY DEF TypeOK
<1>1. ASSUME NEW h \in Handlers, NEW q \in Subs, CreateSubmission(h, q) PROVE RowFate(s)
  <2> DEFINE r == req[h]
             row == [NoSub EXCEPT !.state = "uploaded", !.entry = r.entry, !.by = r.user,
                                  !.phase = r.phase, !.count = r.count]
  <2>1. sub' = sub \/ sub' = [sub EXCEPT ![q] = row]
    BY <1>1 DEF CreateSubmission
  <2>2. sub[q] = NoSub /\ NoSub.state = "none" /\ row.state = "uploaded" /\ ~row.final
    BY <1>1 DEF CreateSubmission, NoSub
  <2> HIDE DEF row
  <2>3. CASE sub'[s] = sub[s]
    BY <2>3, RowUnchanged
  <2>4. CASE s = q /\ sub'[s] = row
    BY <1>1, <2>2, <2>4 DEF RowFate, RowInserted, SubExists
  <2>5. QED
    BY <2>1, <2>3, <2>4 DEF TypeOK
<1>2. ASSUME NEW h \in Handlers, NEW q \in Subs, MarkFinal(h, q) PROVE RowFate(s)
  <2>1. sub'[s] = sub[s] \/ sub'[s] = [sub[s] EXCEPT !.final = FALSE]
    BY <1>2 DEF MarkFinal, ResetOtherFinals
  <2>2. CASE sub'[s] = [sub[s] EXCEPT !.final = FALSE]
    <3>1. /\ sub'[s].state = sub[s].state /\ sub'[s].entry = sub[s].entry
          /\ sub'[s].phase = sub[s].phase /\ sub'[s].total = sub[s].total /\ ~sub'[s].final
      BY <1>0, <2>2 DEF SubRow
    <3>2. QED
      BY <3>1 DEF RowFate, RowKept, SubExists
  <2>3. QED
    BY <2>1, <2>2, RowUnchanged
<1>3. ASSUME NEW h \in Handlers, MarkSubmissionQueued(h) PROVE RowFate(s)
  <2> DEFINE q == req[h].sub
             row == [sub[q] EXCEPT !.state = "queued", !.count = req[h].count,
                                   !.total = req[h].total]
  <2>1. q \in Subs /\ req[h].op = "queue"
    BY <1>3 DEF MarkSubmissionQueued, TypeOK, Request
  <2>2. sub' = sub \/ (sub' = [sub EXCEPT ![q] = row] /\ SubExists(q))
    BY <1>3 DEF MarkSubmissionQueued
  <2>3. CASE sub'[s] = sub[s]
    BY <2>3, RowUnchanged
  <2>4. CASE s = q /\ sub'[s] = row /\ SubExists(q)
    <3>1. /\ row.entry = sub[s].entry /\ row.phase = sub[s].phase
          /\ row.final = sub[s].final /\ row.total = req[h].total /\ row.state = "queued"
      BY <1>0, <2>4 DEF SubRow
    <3> HIDE DEF row
    <3>2. QED
      BY <2>1, <2>4, <3>1 DEF RowFate, RowKept, SubExists
  <2>5. QED
    BY <2>1, <2>2, <2>3, <2>4 DEF TypeOK
<1>4. ASSUME NEW h \in Handlers, MarkSubmissionFinal(h) PROVE RowFate(s)
  <2> DEFINE q == req[h].sub
             row == [sub[q] EXCEPT !.final = TRUE]
  <2>1. q \in Subs /\ req[h].op = "final"
    BY <1>4 DEF MarkSubmissionFinal, TypeOK, Request
  <2>2. sub' = sub \/ (sub' = [sub EXCEPT ![q] = row] /\ SubExists(q))
    BY <1>4 DEF MarkSubmissionFinal
  <2>3. CASE sub'[s] = sub[s]
    BY <2>3, RowUnchanged
  <2>4. CASE s = q /\ sub'[s] = row /\ SubExists(q)
    <3>1. /\ row.entry = sub[s].entry /\ row.phase = sub[s].phase
          /\ row.state = sub[s].state /\ row.total = sub[s].total
      BY <1>0, <2>4 DEF SubRow
    <3> HIDE DEF row
    <3>2. QED
      BY <2>1, <2>4, <3>1 DEF RowFate, RowKept, SubExists
  <2>5. QED
    BY <2>1, <2>2, <2>3, <2>4 DEF TypeOK
<1>5. CASE DeleteContest
  <2>1. ~SubExists(s)' /\ (sub[s].state # "none" => sub'[s].state # "none")
    BY <1>5 DEF DeleteContest, SubExists, NoSub
  <2>2. QED
    BY <2>1 DEF RowFate
<1>6. CASE UNCHANGED sub
  BY <1>6, RowUnchanged
<1>7. ASSUME NEW h \in Handlers, StatementFails(h) PROVE UNCHANGED sub
  BY <1>7 DEF StatementFails, notTeams, subVars
<1>8. CASE SubmissionStep
  BY <1>1, <1>2, <1>3, <1>4, <1>6, <1>8 DEF SubmissionStep, InitiateUpload, CompleteUpload,
     CreateSubmissionFile, EnqueueJudge, EnqueueResult, subVars
<1>9. CASE TeamStep \/ EntryStep
  BY <1>6, <1>9, TeamStepFrame, EntryStepFrame DEF notTeams, notEntries, subVars
<1>10. CASE ContestEnds \/ \E p \in Phases : DeletePhase(p)
  BY <1>6, <1>10 DEF ContestEnds, DeletePhase, subVars
<1>11. CASE UNCHANGED vars
  BY <1>6, <1>11 DEF vars, subVars
<1>12. QED
  BY <1>5, <1>6, <1>7, <1>8, <1>9, <1>10, <1>11 DEF Next, AdminStep

\* A request uploads or marks a submission only after the checks of its
\* handler.
Checked(g, r) ==
  \/ /\ req[g].op = "file" /\ r.op \in {"file", "queue"}
     /\ r.sub = req[g].sub /\ r.total = req[g].total
  \/ /\ r.op = "file" /\ r.sub \in Subs /\ SubExists(r.sub)
     /\ r.total <= SizeLimit[sub[r.sub].phase] /\ UNCHANGED sub
  \/ r.op = "final" /\ r.sub \in Subs /\ MarkFinal(g, r.sub)
  \/ r.op = "create" /\ BelowLimit(r.entry, r.phase) /\ UNCHANGED sub

RequestFate(g) ==
  \/ req'[g] = req[g]
  \/ req'[g].op \notin {"create", "file", "queue", "final"}
  \/ Checked(g, req'[g])

LEMMA RequestFates ==
  ASSUME Anchored, [Next]_vars, NEW g \in Handlers
  PROVE  RequestFate(g)
<1>0. TypeOK /\ RefsTyped
  BY DEF Anchored
\* A step of handler h that leaves the request r.
<1>a. ASSUME NEW h \in Handlers, NEW r, Begin(h, r) \/ Goto(h, r),
             r.op \notin {"create", "file", "queue", "final"} \/ Checked(h, r)
      PROVE  RequestFate(g)
  <2>1. req'[g] = IF g = h THEN r ELSE req[g]
    BY <1>0, <1>a, BeginOrGoto
  <2>2. QED
    BY <1>a, <2>1 DEF RequestFate
<1>b. ASSUME NEW h \in Handlers, Done(h) PROVE RequestFate(g)
  BY <1>a, <1>b DEF Done, Idle
<1>1. ASSUME NEW h \in Handlers, NEW u \in Users, NEW e \in Entries, NEW p \in Phases,
             NEW list \in FileLists, InitiateUpload(h, u, e, p, list)
      PROVE  RequestFate(g)
  <2> DEFINE r == [Idle EXCEPT !.op = "create", !.user = u, !.entry = e, !.phase = p,
                               !.count = Len(list)]
  <2>1. Begin(h, r) /\ BelowLimit(e, p) /\ UNCHANGED sub
    BY <1>1 DEF InitiateUpload, subVars
  <2>2. r.op = "create" /\ r.entry = e /\ r.phase = p
    BY DEF Idle
  <2> HIDE DEF r
  <2>3. Checked(h, r)
    BY <2>1, <2>2 DEF Checked
  <2>4. QED
    BY <1>a, <2>1, <2>3
<1>2. ASSUME NEW h \in Handlers, NEW s \in Subs, NEW list \in FileLists,
             CompleteUpload(h, s, list)
      PROVE  RequestFate(g)
  <2> DEFINE r == [Idle EXCEPT !.op = "file", !.sub = s, !.left = Len(list),
                               !.count = Len(list), !.total = Total[list]]
  <2>1. /\ Begin(h, r) /\ SubExists(s) /\ UNCHANGED sub
        /\ FitsLimit(list, SizeLimit[sub[s].phase])
    BY <1>2 DEF CompleteUpload, subVars
  <2>2. r.op = "file" /\ r.sub = s /\ r.total = Total[list]
    BY DEF Idle
  <2>3. SizeLimit[sub[s].phase] \in Nat
    BY <1>0, <2>1, FilesAssumption DEF RefsTyped
  <2>4. Total[list] <= SizeLimit[sub[s].phase]
    BY <2>1, <2>3, SizesFit
  <2> HIDE DEF r
  <2>5. Checked(h, r)
    BY <2>1, <2>2, <2>4 DEF Checked
  <2>6. QED
    BY <1>a, <2>1, <2>5
<1>3. ASSUME NEW h \in Handlers, NEW s \in Subs, MarkFinal(h, s) PROVE RequestFate(g)
  <2> DEFINE r == [Idle EXCEPT !.op = "final", !.sub = s]
  <2>1. Begin(h, r)
    BY <1>3 DEF MarkFinal
  <2>2. r.op = "final" /\ r.sub = s
    BY DEF Idle
  <2> HIDE DEF r
  <2>3. Checked(h, r)
    BY <1>3, <2>2 DEF Checked
  <2>4. QED
    BY <1>a, <2>1, <2>3
<1>4. ASSUME NEW h \in Handlers, CreateSubmissionFile(h) PROVE RequestFate(g)
  <2> DEFINE q == req[h]
             r == [q EXCEPT !.left = @ - 1, !.op = IF q.left = 1 THEN "queue" ELSE @]
  <2>1. q \in RequestRecord /\ q.op = "file"
    BY <1>0, <1>4 DEF CreateSubmissionFile, TypeOK, Request
  <2>2. r.op \in {"file", "queue"} /\ r.sub = q.sub /\ r.total = q.total
    BY <2>1 DEF RequestRecord
  <2>3. Goto(h, r) \/ Done(h)
    BY <1>4 DEF CreateSubmissionFile
  <2> HIDE DEF r
  <2>4. Checked(h, r)
    BY <2>1, <2>2 DEF Checked
  <2>5. QED
    BY <1>a, <1>b, <2>3, <2>4
<1>5. ASSUME NEW h \in Handlers, MarkSubmissionQueued(h) \/ MarkSubmissionFinal(h)
      PROVE  RequestFate(g)
  <2>1. \A op \in {"enqueue", "result"} : [req[h] EXCEPT !.op = op].op = op
    BY <1>0 DEF TypeOK, Request, RequestRecord
  <2>2. Done(h) \/ \E op \in {"enqueue", "result"} : Goto(h, [req[h] EXCEPT !.op = op])
    BY <1>5 DEF MarkSubmissionQueued, MarkSubmissionFinal
  <2>3. QED
    BY <1>a, <1>b, <2>1, <2>2
<1>6. ASSUME NEW h \in Handlers, NEW s \in Subs,
             CreateSubmission(h, s) \/ EnqueueJudge(h) \/ EnqueueResult(h)
      PROVE  RequestFate(g)
  BY <1>6, <1>b DEF CreateSubmission, EnqueueJudge, EnqueueResult
<1>7. ASSUME NEW h \in Handlers, EnqueueJudge(h) \/ EnqueueResult(h) PROVE RequestFate(g)
  BY <1>7, <1>b DEF EnqueueJudge, EnqueueResult
<1>8. CASE SubmissionStep
  BY <1>1, <1>2, <1>3, <1>4, <1>5, <1>6, <1>7, <1>8 DEF SubmissionStep
<1>9. CASE TeamStep \/ EntryStep
  <2>1. Became(g, {"idle", "owner", "entry", "leader", "list", "members"})
    BY <1>0, <1>9, TeamStepFrame, EntryStepFrame DEF Became
  <2>2. QED
    BY <2>1 DEF Became, RequestFate
<1>10. ASSUME NEW h \in Handlers, StatementFails(h) PROVE RequestFate(g)
  BY <1>0, <1>10, FailureFrame DEF Became, RequestFate
<1>11. CASE AdminStep \/ UNCHANGED vars
  BY <1>11, AdminStepFrame DEF vars, RequestFate
<1>12. QED
  BY <1>8, <1>9, <1>10, <1>11 DEF Next
-----------------------------------------------------------------------------
(***************************************************************************)
(* What is queued fits the size limit of its phase.                        *)
(***************************************************************************)
\* A request of CompleteUpload carries a sum that fits, unless its submission
\* has been deleted.
SizeFits(h) ==
  LET r == req[h] IN
  r.op \in {"file", "queue"} =>
    /\ sub[r.sub].state # "none"
    /\ SubExists(r.sub) => r.total <= SizeLimit[sub[r.sub].phase]

SizesInv == Anchored /\ QueuedFits /\ \A h \in Handlers : SizeFits(h)

LEMMA SizesInit == Init => SizesInv
<1> SUFFICES ASSUME Init PROVE SizesInv
  OBVIOUS
<1>1. \A h \in Handlers : SizeFits(h)
  BY DEF Init, SizeFits, Idle
<1>2. ASSUME NEW s \in Subs, sub[s].state = "queued"
      PROVE  sub[s].total <= SizeLimit[sub[s].phase]
  <2>1. Submitted[s] # None
    BY <1>2 DEF Init, NoSub
  <2>2. sub[s].total = 1 /\ sub[s].phase = Submitted[s][2] /\ Submitted[s][2] \in Phases
    BY <2>1, RegisteredAssumption DEF Init, EarlierSub, NoSub
  <2>3. SizeLimit[Submitted[s][2]] \in Nat /\ SizeLimit[Submitted[s][2]] > 0
    BY <2>1, <2>2, RegisteredAssumption, FilesAssumption
  <2>4. QED
    BY <2>2, <2>3
<1>3. QED
  BY <1>1, <1>2, AnchoredInit DEF SizesInv, QueuedFits

LEMMA SizesStep == SizesInv /\ [Next]_vars => SizesInv'
<1> SUFFICES ASSUME SizesInv, [Next]_vars PROVE SizesInv'
  OBVIOUS
<1>0. Anchored /\ Anchored' /\ TypeOK /\ TypeOK' /\ QueuedFits
  BY AnchoredStep DEF SizesInv, Anchored
<1>1. \A s \in Subs : RowFate(s)
  BY <1>0, RowFates
<1>2. ASSUME NEW s \in Subs, sub'[s].state = "queued"
      PROVE  sub'[s].total <= SizeLimit[sub'[s].phase]
  <2>1. RowKept(s)
    BY <1>1, <1>2 DEF RowFate, RowInserted, SubExists
  <2>2. CASE sub[s].state = "queued" /\ sub'[s].total = sub[s].total
    BY <1>0, <2>1, <2>2 DEF RowKept, QueuedFits
  <2>3. ASSUME NEW h \in Handlers, req[h].op = "queue", req[h].sub = s,
               sub'[s].total = req[h].total
        PROVE  sub'[s].total <= SizeLimit[sub'[s].phase]
    BY <2>1, <2>3 DEF RowKept, SizesInv, SizeFits
  <2>4. QED
    BY <1>2, <2>1, <2>2, <2>3 DEF RowKept
\* A request for the same submission, with the same sum, still fits.
<1>3. ASSUME NEW g \in Handlers, NEW r, r.sub \in Subs, sub[r.sub].state # "none",
             SubExists(r.sub) => r.total <= SizeLimit[sub[r.sub].phase]
      PROVE  /\ sub'[r.sub].state # "none"
             /\ SubExists(r.sub)' => r.total <= SizeLimit[sub'[r.sub].phase]
  <2>1. RowFate(r.sub)
    BY <1>1, <1>3
  <2>2. CASE SubExists(r.sub)'
    BY <1>3, <2>1, <2>2 DEF RowFate, RowKept, RowInserted, SubExists
  <2>3. CASE ~SubExists(r.sub)'
    BY <1>3, <2>1, <2>3 DEF RowFate
  <2>4. QED
    BY <2>2, <2>3
<1>4. ASSUME NEW g \in Handlers, req'[g].op \in {"file", "queue"}
      PROVE  /\ sub'[req'[g].sub].state # "none"
             /\ (sub'[req'[g].sub].state \in {"uploaded", "queued"}) =>
                   req'[g].total <= SizeLimit[sub'[req'[g].sub].phase]
  <2>1. SizeFits(g) /\ req[g] \in Request
    BY <1>0 DEF SizesInv, TypeOK
  <2>2. CASE req'[g] = req[g]
    <3>1. req[g].sub \in Subs
      BY <1>4, <2>1, <2>2 DEF Request
    <3>2. QED
      BY <1>3, <1>4, <2>1, <2>2, <3>1 DEF SizeFits, SubExists
  <2>3. ASSUME Checked(g, req'[g])
        PROVE  /\ sub'[req'[g].sub].state # "none"
               /\ (sub'[req'[g].sub].state \in {"uploaded", "queued"}) =>
                     req'[g].total <= SizeLimit[sub'[req'[g].sub].phase]
    <3>1. CASE /\ req[g].op = "file" /\ req'[g].sub = req[g].sub
               /\ req'[g].total = req[g].total
      <4>1. req[g].sub \in Subs
        BY <2>1, <3>1 DEF Request
      <4>2. QED
        BY <1>3, <2>1, <3>1, <4>1 DEF SizeFits, SubExists
    <3>2. CASE /\ SubExists(req'[g].sub) /\ UNCHANGED sub
               /\ req'[g].total <= SizeLimit[sub[req'[g].sub].phase]
      BY <3>2 DEF SubExists
    <3>3. QED
      BY <1>4, <2>3, <3>1, <3>2 DEF Checked
  <2>4. RequestFate(g)
    BY <1>0, RequestFates
  <2>5. QED
    BY <1>4, <2>2, <2>3, <2>4 DEF RequestFate
<1>5. QED
  BY <1>0, <1>2, <1>4 DEF SizesInv, QueuedFits, SizeFits, SubExists

\* What is queued fits the size limit of its phase: a limit that counts the
\* files one by one bounds their sum, and no other upload of the submission
\* puts its sum in the place of one that was checked.
THEOREM QueuedFitTheLimit == Spec => []QueuedFits
<1>1. SizesInv => QueuedFits
  BY DEF SizesInv
<1>2. QED
  BY <1>1, SizesInit, SizesStep, PTL DEF Spec
-----------------------------------------------------------------------------
(***************************************************************************)
(* Uploads that overlap exceed the submission limit by a bounded number.   *)
(***************************************************************************)
\* The requests that have passed the check and insert next.
Creators(e, p) ==
  {h \in Handlers : req[h].op = "create" /\ req[h].entry = e /\ req[h].phase = p}

LimitInv ==
  /\ Anchored
  /\ \A e \in Entries, p \in Phases :
       Limit[p] # None =>
         Cardinality(SlotOf(e, p)) + Cardinality(Creators(e, p))
           < Limit[p] + Cardinality(Handlers)

\* Both sets are finite, so what is taken from them can be counted.
LEMMA SlotsCounted ==
  ASSUME NEW S \in SUBSET Subs, NEW H \in SUBSET Handlers
  PROVE  /\ IsFiniteSet(S) /\ Cardinality(S) \in Nat
         /\ \A T \in SUBSET S : Cardinality(T) \in Nat /\ Cardinality(T) <= Cardinality(S)
         /\ \A s : Cardinality(S \cup {s}) <= Cardinality(S) + 1
                   /\ Cardinality(S \cup {s}) \in Nat
         /\ IsFiniteSet(H) /\ Cardinality(H) \in Nat
         /\ Cardinality(H) <= Cardinality(Handlers)
         /\ \A G \in SUBSET H : Cardinality(G) \in Nat /\ Cardinality(G) <= Cardinality(H)
         /\ \A h \in H : Cardinality(H \ {h}) = Cardinality(H) - 1
<1>1. IsFiniteSet(S) /\ IsFiniteSet(H) /\ Cardinality(H) <= Cardinality(Handlers)
  BY FiniteAssumption, FS_Subset
<1>2. Cardinality(S) \in Nat /\ Cardinality(H) \in Nat
  BY <1>1, FS_CardinalityType
<1>3. ASSUME NEW T \in SUBSET S
      PROVE  Cardinality(T) \in Nat /\ Cardinality(T) <= Cardinality(S)
  BY <1>1, FS_Subset, FS_CardinalityType
<1>4. ASSUME NEW G \in SUBSET H
      PROVE  Cardinality(G) \in Nat /\ Cardinality(G) <= Cardinality(H)
  BY <1>1, FS_Subset, FS_CardinalityType
<1>5. ASSUME NEW s
      PROVE  Cardinality(S \cup {s}) <= Cardinality(S) + 1 /\ Cardinality(S \cup {s}) \in Nat
  <2>1. Cardinality(S \cup {s}) = IF s \in S THEN Cardinality(S) ELSE Cardinality(S) + 1
    BY <1>1, FS_AddElement
  <2>2. QED
    BY <1>2, <2>1
<1>6. ASSUME NEW h \in H PROVE Cardinality(H \ {h}) = Cardinality(H) - 1
  BY <1>1, FS_RemoveElement
<1>7. QED
  BY <1>1, <1>2, <1>3, <1>4, <1>5, <1>6

LEMMA LimitInit == Init => LimitInv
<1> SUFFICES ASSUME Init, NEW e \in Entries, NEW p \in Phases, Limit[p] # None
             PROVE  Cardinality(SlotOf(e, p)) + Cardinality(Creators(e, p))
                      < Limit[p] + Cardinality(Handlers)
  BY AnchoredInit DEF LimitInv
<1> DEFINE S == {s \in Subs : Submitted[s] = <<e, p>>}
<1>1. Creators(e, p) = {}
  BY DEF Init, Creators, Idle
<1>2. SlotOf(e, p) \subseteq S
  <2>1. ASSUME NEW s \in Subs, SubExists(s), sub[s].entry = e, sub[s].phase = p
        PROVE  Submitted[s] = <<e, p>>
    <3>1. Submitted[s] # None
      BY <2>1 DEF Init, SubExists, NoSub
    <3>2. sub[s].entry = Submitted[s][1] /\ sub[s].phase = Submitted[s][2]
      BY <3>1 DEF Init, EarlierSub, NoSub
    <3>3. Submitted[s] \in Entries \X Phases
      BY <3>1, RegisteredAssumption
    <3>4. QED
      BY <2>1, <3>2, <3>3
  <2>2. QED
    BY <2>1 DEF SlotOf
<1>3. Cardinality(S) <= Limit[p] /\ Limit[p] \in Nat
  BY RegisteredAssumption, TablesAssumption
<1>4. S \in SUBSET Subs /\ SlotOf(e, p) \in SUBSET S
  BY <1>2
<1> HIDE DEF S
<1>5. /\ Cardinality(S) \in Nat /\ Cardinality(SlotOf(e, p)) \in Nat
      /\ Cardinality(SlotOf(e, p)) <= Cardinality(S)
  BY <1>4, SlotsCounted
<1>6. Cardinality(Handlers) \in Nat /\ Cardinality(Handlers) > 0
  <2>1. Cardinality(Handlers) \in Nat /\ Cardinality(Handlers) # 0
    BY FiniteAssumption, FS_CardinalityType, FS_EmptySet
  <2>2. QED
    BY <2>1
<1>7. Cardinality(Creators(e, p)) = 0
  BY <1>1, FS_EmptySet
<1>8. QED
  BY <1>3, <1>5, <1>6, <1>7

LEMMA LimitStep == LimitInv /\ [Next]_vars => LimitInv'
<1> SUFFICES ASSUME LimitInv, [Next]_vars, NEW e \in Entries, NEW p \in Phases,
                    Limit[p] # None
             PROVE  Cardinality(SlotOf(e, p)') + Cardinality(Creators(e, p)')
                      < Limit[p] + Cardinality(Handlers)
  BY AnchoredStep DEF LimitInv
<1> DEFINE S == SlotOf(e, p)
           C == Creators(e, p)
           S1 == SlotOf(e, p)'
           C1 == Creators(e, p)'
<1> SUFFICES Cardinality(S1) + Cardinality(C1) < Limit[p] + Cardinality(Handlers)
  OBVIOUS
<1>0. Anchored /\ TypeOK
  BY DEF LimitInv, Anchored
<1>1. S \in SUBSET Subs /\ S1 \in SUBSET Subs /\ C \in SUBSET Handlers /\ C1 \in SUBSET Handlers
  BY DEF SlotOf, Creators
<1>2. Cardinality(S) + Cardinality(C) < Limit[p] + Cardinality(Handlers)
  BY DEF LimitInv
<1>3. Limit[p] \in Nat
  BY TablesAssumption
<1>4. ASSUME NEW s \in S1, ~ \E h \in Handlers : CreateSubmission(h, s)
      PROVE  s \in S
  <2>1. RowFate(s) /\ SubExists(s)' /\ sub'[s].entry = e /\ sub'[s].phase = p
    BY <1>0, <1>4, RowFates DEF SlotOf
  <2>2. QED
    BY <1>4, <2>1 DEF SlotOf, RowFate, RowKept, RowInserted
<1>5. ASSUME NEW g \in C1, g \notin C PROVE BelowLimit(e, p) /\ UNCHANGED sub
  <2>1. /\ RequestFate(g) /\ req'[g].op = "create"
        /\ req'[g].entry = e /\ req'[g].phase = p
    BY <1>0, RequestFates DEF Creators
  <2>2. QED
    BY <1>5, <2>1 DEF RequestFate, Checked, Creators
<1>6. CASE \E h \in Handlers, s \in Subs : CreateSubmission(h, s)
  <2>1. PICK h \in Handlers, s \in Subs : CreateSubmission(h, s)
    BY <1>6
  <2>2. req[h].op = "create" /\ \A g \in Handlers : req'[g] = IF g = h THEN Idle ELSE req[g]
    BY <1>0, <2>1, AfterDone DEF CreateSubmission
  <2>3. C1 = C \ {h}
    BY <2>2 DEF Creators, Idle
  <2> DEFINE row == [NoSub EXCEPT !.state = "uploaded", !.entry = req[h].entry,
                                  !.by = req[h].user, !.phase = req[h].phase,
                                  !.count = req[h].count]
  <2>4. sub' = sub \/ sub' = [sub EXCEPT ![s] = row]
    BY <2>1 DEF CreateSubmission
  <2>5. row.entry = req[h].entry /\ row.phase = req[h].phase
    BY DEF NoSub
  <2> HIDE DEF row
  <2>6. \A q \in Subs : sub'[q] = sub[q] \/ (q = s /\ sub'[q] = row)
    BY <1>0, <2>4 DEF TypeOK
  <2>7. CASE h \in C
    <3>1. S1 \subseteq S \cup {s}
      BY <2>6 DEF SlotOf, SubExists
    <3> HIDE DEF S, C, S1, C1
    <3>2. /\ Cardinality(C1) = Cardinality(C) - 1 /\ Cardinality(C) \in Nat
          /\ Cardinality(S) \in Nat /\ Cardinality(Handlers) \in Nat
      BY <1>1, <2>3, <2>7, SlotsCounted
    <3>3. Cardinality(S1) \in Nat /\ Cardinality(S1) <= Cardinality(S) + 1
      <4>1. IsFiniteSet(S \cup {s})
        BY <1>1, SlotsCounted, FS_AddElement
      <4>2. Cardinality(S1) <= Cardinality(S \cup {s})
        BY <3>1, <4>1, FS_Subset
      <4>3. Cardinality(S \cup {s}) <= Cardinality(S) + 1 /\ Cardinality(S \cup {s}) \in Nat
        BY <1>1, SlotsCounted
      <4>4. Cardinality(S1) \in Nat
        BY <1>1, SlotsCounted
      <4>5. QED
        BY <3>2, <4>2, <4>3, <4>4
    <3>4. QED
      BY <1>2, <1>3, <3>2, <3>3
  <2>8. CASE h \notin C
    <3>1. S1 \subseteq S
      BY <2>2, <2>5, <2>6, <2>8 DEF SlotOf, SubExists, Creators
    <3>2. C1 \subseteq C
      BY <2>3
    <3> HIDE DEF S, C, S1, C1
    <3>3. /\ Cardinality(C1) \in Nat /\ Cardinality(C) \in Nat
          /\ Cardinality(C1) <= Cardinality(C)
          /\ Cardinality(S1) \in Nat /\ Cardinality(S) \in Nat
          /\ Cardinality(S1) <= Cardinality(S) /\ Cardinality(Handlers) \in Nat
      BY <1>1, <3>1, <3>2, SlotsCounted
    <3>4. QED
      BY <1>2, <1>3, <3>3
  <2>9. QED
    BY <2>7, <2>8
<1>7. CASE C1 \subseteq C /\ S1 \subseteq S
  <2> HIDE DEF S, C, S1, C1
  <2>1. /\ Cardinality(C1) \in Nat /\ Cardinality(C) \in Nat
        /\ Cardinality(C1) <= Cardinality(C)
        /\ Cardinality(S1) \in Nat /\ Cardinality(S) \in Nat
        /\ Cardinality(S1) <= Cardinality(S) /\ Cardinality(Handlers) \in Nat
    BY <1>1, <1>7, SlotsCounted
  <2>2. QED
    BY <1>2, <1>3, <1>7, <2>1
<1>8. CASE ~(C1 \subseteq C)
  <2>1. BelowLimit(e, p) /\ UNCHANGED sub
    BY <1>5, <1>8
  <2>2. S1 = S /\ Cardinality(S) < Limit[p]
    BY <2>1 DEF SlotOf, SubExists, BelowLimit
  <2> HIDE DEF S, C, S1, C1
  <2>3. /\ Cardinality(C1) \in Nat /\ Cardinality(C1) <= Cardinality(Handlers)
        /\ Cardinality(S) \in Nat /\ Cardinality(Handlers) \in Nat
    BY <1>1, SlotsCounted
  <2>4. QED
    BY <1>3, <2>2, <2>3
<1>9. QED
  BY <1>1, <1>4, <1>6, <1>7, <1>8

\* Uploads that overlap exceed the submission limit by fewer than the number
\* of requests served at once: each of them has seen room, and gives up its
\* place among those in progress when it inserts.
THEOREM LimitIsNearlyKept == Spec => []LimitOvershoot
<1>1. LimitInv => LimitOvershoot
  <2> SUFFICES ASSUME LimitInv, NEW e \in Entries, NEW p \in Phases, Limit[p] # None
               PROVE  Cardinality(SlotOf(e, p)) < Limit[p] + Cardinality(Handlers)
    BY DEF LimitOvershoot
  <2>1. SlotOf(e, p) \in SUBSET Subs /\ Creators(e, p) \in SUBSET Handlers
    BY DEF SlotOf, Creators
  <2>2. /\ Cardinality(SlotOf(e, p)) \in Nat /\ Cardinality(Creators(e, p)) \in Nat
        /\ Cardinality(Handlers) \in Nat
    BY <2>1, SlotsCounted
  <2>3. Limit[p] \in Nat
    BY TablesAssumption
  <2>4. Cardinality(SlotOf(e, p)) + Cardinality(Creators(e, p)) < Limit[p] + Cardinality(Handlers)
    BY DEF LimitInv
  <2>5. QED
    BY <2>2, <2>3, <2>4
<1>2. QED
  BY <1>1, LimitInit, LimitStep, PTL DEF Spec
-----------------------------------------------------------------------------
(***************************************************************************)
(* Marks that overlap leave one final submission each.                     *)
(***************************************************************************)
\* The final submissions of a slot and those that a request marks next.
Marked(e, p) ==
  {s \in Subs : /\ SubExists(s) /\ sub[s].entry = e /\ sub[s].phase = p
                /\ sub[s].final \/ \E h \in Handlers : req[h].op = "final" /\ req[h].sub = s}

MarksInv ==
  /\ Anchored
  /\ \A h \in Handlers : req[h].op = "final" => sub[req[h].sub].state # "none"
  /\ \A e, p : Cardinality(Marked(e, p)) <= Cardinality(Handlers)

\* The submissions that the requests in progress are about are no more than
\* the requests.
LEMMA TargetsCounted ==
  ASSUME NEW f, NEW S \in SUBSET {f[h].sub : h \in Handlers}
  PROVE  Cardinality(S) <= Cardinality(Handlers)
<1> DEFINE T == {f[h].sub : h \in Handlers}
           g == [h \in Handlers |-> f[h].sub]
<1>1. g \in Surjection(Handlers, T)
  BY DEF Surjection
<1> HIDE DEF g
<1>2. IsFiniteSet(T) /\ Cardinality(T) <= Cardinality(Handlers)
  BY <1>1, FiniteAssumption, FS_Surjection
<1>3. Cardinality(S) <= Cardinality(T)
  BY <1>2, FS_Subset
<1>4. Cardinality(S) \in Nat /\ Cardinality(T) \in Nat /\ Cardinality(Handlers) \in Nat
  BY <1>2, FiniteAssumption, FS_Subset, FS_CardinalityType
<1>5. QED
  BY <1>2, <1>3, <1>4

LEMMA MarksInit == Init => MarksInv
<1> SUFFICES ASSUME Init PROVE MarksInv
  OBVIOUS
<1>1. \A h \in Handlers : req[h].op = "idle"
  BY DEF Init, Idle
<1>2. \A s \in Subs : ~sub[s].final
  BY DEF Init, EarlierSub, NoSub
<1>3. \A e, p : Marked(e, p) = {}
  BY <1>1, <1>2 DEF Marked
<1>4. Cardinality({}) = 0 /\ Cardinality(Handlers) \in Nat
  BY FiniteAssumption, FS_EmptySet, FS_CardinalityType
<1>5. \A e, p : Cardinality(Marked(e, p)) <= Cardinality(Handlers)
  BY <1>3, <1>4
<1>6. QED
  BY <1>1, <1>5, AnchoredInit DEF MarksInv

LEMMA MarksStep == MarksInv /\ [Next]_vars => MarksInv'
<1> SUFFICES ASSUME MarksInv, [Next]_vars PROVE MarksInv'
  OBVIOUS
<1>0. Anchored /\ Anchored' /\ TypeOK /\ TypeOK'
  BY AnchoredStep DEF MarksInv, Anchored
<1>1. \A s \in Subs : RowFate(s)
  BY <1>0, RowFates
<1>2. \A g \in Handlers : RequestFate(g)
  BY <1>0, RequestFates
<1>3. \A s \in Subs : sub[s].state # "none" => sub'[s].state # "none"
  BY <1>1 DEF RowFate, RowKept, RowInserted, SubExists
<1>4. ASSUME NEW g \in Handlers, req'[g].op = "final"
      PROVE  req'[g].sub \in Subs /\ sub[req'[g].sub].state # "none"
  <2>1. req'[g] \in Request
    BY <1>0 DEF TypeOK
  <2>2. CASE req'[g] = req[g]
    BY <1>4, <2>1, <2>2 DEF MarksInv, Request
  <2>3. CASE MarkFinal(g, req'[g].sub)
    BY <1>4, <2>1, <2>3 DEF MarkFinal, SubExists, Request
  <2>4. QED
    BY <1>2, <1>4, <2>2, <2>3 DEF RequestFate, Checked
<1>5. ASSUME NEW g \in Handlers, req'[g].op = "final" PROVE sub'[req'[g].sub].state # "none"
  BY <1>3, <1>4, <1>5
<1>6. ASSUME NEW e, NEW p PROVE Cardinality(Marked(e, p)') <= Cardinality(Handlers)
  <2> DEFINE M == Marked(e, p)
             M1 == Marked(e, p)'
  <2> SUFFICES Cardinality(M1) <= Cardinality(Handlers)
    OBVIOUS
  <2>1. Cardinality(M) <= Cardinality(Handlers) /\ M \in SUBSET Subs /\ M1 \in SUBSET Subs
    <3>1. Cardinality(Marked(e, p)) <= Cardinality(Handlers)
      BY DEF MarksInv
    <3>2. M \in SUBSET Subs /\ M1 \in SUBSET Subs
      BY DEF Marked
    <3>3. QED
      BY <3>1, <3>2
  \* A row that is marked now and was not is the one of MarkFinal.
  <2>2. ASSUME NEW s \in M1, s \notin M
        PROVE  \E g \in Handlers : MarkFinal(g, s) /\ req'[g].sub = s
    <3>1. /\ RowFate(s) /\ s \in Subs /\ SubExists(s)'
          /\ sub'[s].entry = e /\ sub'[s].phase = p
          /\ sub'[s].final \/ \E g \in Handlers : req'[g].op = "final" /\ req'[g].sub = s
      BY <1>1 DEF Marked
    <3>2. CASE \E g \in Handlers : req'[g].op = "final" /\ req'[g].sub = s /\ req'[g] # req[g]
      BY <1>2, <3>2 DEF RequestFate, Checked
    <3>3. CASE \E g \in Handlers : req'[g].op = "final" /\ req'[g].sub = s /\ req'[g] = req[g]
      <4>1. sub[s].state # "none"
        BY <1>4, <3>3
      <4>2. RowKept(s)
        BY <3>1, <4>1 DEF RowFate, RowInserted
      <4>3. QED
        BY <2>2, <3>1, <3>3, <4>2 DEF Marked, RowKept
    <3>4. CASE sub'[s].final
      <4>1. RowKept(s)
        BY <3>1, <3>4 DEF RowFate, RowInserted
      <4>2. QED
        BY <2>2, <3>1, <3>4, <4>1 DEF Marked, RowKept
    <3>5. QED
      BY <3>1, <3>2, <3>3, <3>4
  <2>3. CASE M1 \subseteq M
    <3> HIDE DEF M, M1
    <3>1. /\ Cardinality(M1) <= Cardinality(M) /\ Cardinality(M1) \in Nat
          /\ Cardinality(M) \in Nat /\ Cardinality(Handlers) \in Nat
      BY <2>1, <2>3, FiniteAssumption, FS_Subset, FS_CardinalityType
    <3>2. QED
      BY <2>1, <3>1
  <2>4. ASSUME NEW s \in M1, s \notin M PROVE Cardinality(M1) <= Cardinality(Handlers)
    <3>1. PICK g \in Handlers : MarkFinal(g, s) /\ req'[g].sub = s
      BY <2>2, <2>4
    <3>2. s \in Subs /\ sub'[s].entry = e /\ sub'[s].phase = p
      BY <2>4 DEF Marked
    <3>3. sub' = ResetOtherFinals(s) /\ SubExists(s)
      BY <3>1 DEF MarkFinal
    <3>4. sub[s].entry = e /\ sub[s].phase = p
      <4>1. RowKept(s)
        BY <1>1, <2>4, <3>3 DEF RowFate, RowInserted, Marked, SubExists
      <4>2. QED
        BY <3>2, <4>1 DEF RowKept
    <3>5. ASSUME NEW q \in M1, q # s PROVE \E h \in Handlers : req'[h].sub = q
      <4>1. q \in Subs /\ sub'[q].entry = e /\ sub'[q].phase = p /\ sub[q] \in SubRow
        BY <1>0 DEF Marked, TypeOK
      <4>2. sub'[q] = [sub[q] EXCEPT !.final = FALSE] \/ (sub'[q] = sub[q] /\ ~SameSlot(s, q))
        BY <3>2, <3>3, <3>5, <4>1 DEF ResetOtherFinals
      <4>3. ~sub'[q].final
        BY <3>4, <4>1, <4>2 DEF SameSlot, SubRow
      <4>4. QED
        BY <3>5, <4>3 DEF Marked
    <3>6. M1 \in SUBSET {req'[h].sub : h \in Handlers}
      BY <3>1, <3>5
    <3> HIDE DEF M, M1
    <3>7. QED
      BY <3>6, TargetsCounted
  <2>5. QED
    BY <2>3, <2>4
<1>7. QED
  BY <1>0, <1>5, <1>6 DEF MarksInv

\* A mark of a final submission clears the others of its slot and then sets
\* its own, in two statements: marks that overlap leave one each, never more
\* than the requests served at once.
THEOREM FinalsAreBounded == Spec => []FinalsBounded
<1>1. MarksInv => FinalsBounded
  <2> SUFFICES ASSUME MarksInv, NEW s \in Subs
               PROVE  Cardinality({r \in Subs : SubExists(r) /\ sub[r].final /\ SameSlot(s, r)})
                        <= Cardinality(Handlers)
    BY DEF FinalsBounded
  <2> DEFINE F == {r \in Subs : SubExists(r) /\ sub[r].final /\ SameSlot(s, r)}
             M == Marked(sub[s].entry, sub[s].phase)
  <2> SUFFICES Cardinality(F) <= Cardinality(Handlers)
    OBVIOUS
  <2>1. F \subseteq M /\ M \subseteq Subs
    BY DEF Marked, SameSlot
  <2>2. Cardinality(M) <= Cardinality(Handlers)
    BY DEF MarksInv
  <2> HIDE DEF F, M
  <2>3. /\ Cardinality(F) <= Cardinality(M) /\ Cardinality(F) \in Nat
        /\ Cardinality(M) \in Nat /\ Cardinality(Handlers) \in Nat
    BY <2>1, FiniteAssumption, FS_Subset, FS_CardinalityType
  <2>4. QED
    BY <2>2, <2>3
<1>2. QED
  BY <1>1, MarksInit, MarksStep, PTL DEF Spec
=============================================================================
