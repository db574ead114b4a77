-------------------------- MODULE LeaderboardBridge --------------------------
(***************************************************************************)
(* From jobs:results to the leaderboards: the goroutine of each API        *)
(* process that consumes results, the sorted set it keeps per phase, the   *)
(* three tables it writes, and the handlers that write them too.           *)
(*                                                                         *)
(* One SQL statement or Redis command is one step, except a recomputation, *)
(* which is two: it reads the snapshot taken when it starts, and its rows  *)
(* become visible when it ends.  The judging itself is one action here;    *)
(* JudgePipeline has it in full.                                           *)
(***************************************************************************)
EXTENDS Boards

CONSTANTS
  Bridges,       \* API processes, each with its bridge
  Handlers,      \* slots for API requests in flight
  BatchSize,     \* messages one XREADGROUP may return (50)
  Requests,      \* the requests that clients make in this instance
  Faults,        \* the failures considered in this instance
  MaxRequests    \* bound: requests that change a table

ASSUME InstanceAssumption ==
  /\ Requests \subseteq {"rejudge", "final", "disqualify",
                         "task", "contest", "global"}
  /\ Faults \subseteq {"incremental", "full", "boards", "read", "crash",
                       "emit"}
  /\ BatchSize \in Nat \ {0} /\ MaxRequests \in Nat

VARIABLES
  announcing,  \* results committed and not yet in the stream
  results,     \* jobs:results, what no bridge has read
  bridge,      \* per process: the statement it executes next, what it read
  zset,        \* the sorted set lb:{phase}: the score of each member
  board,       \* task_phase_leaderboard_entries
  cboard,      \* contest_phase_leaderboard_entries
  ranking,     \* global_phase_rankings
  req,         \* the API requests in flight
  asked        \* counts the requests that change a table

tables == <<board, cboard, ranking>>
world == <<sub, dq, announcing, asked>>
vars == <<sub, dq, announcing, results, bridge, zset, board, cboard, ranking,
          req, asked>>
-----------------------------------------------------------------------------
NoRow == [rank |-> 0, score |-> 0, raw |-> 0, chosen |-> 0, count |-> 0,
          dq |-> FALSE]
NoContestRow == [rank |-> 0, score |-> 0, raw |-> 0, count |-> 0,
                 dq |-> FALSE]
NoUserRow == [rank |-> 0, total |-> 0, count |-> 0]
Absent == -1   \* a score that no member of a sorted set has

IncrementalPC == {"max", "best", "zadd", "zrank", "zcard", "update"}
BoardPC == {"contest", "write_contest", "global", "write_global", "stale"}
BridgePC == {"idle", "stopped", "full", "write_task", "seed_read", "seed"}
            \cup IncrementalPC \cup BoardPC
Fresh == [pc |-> "idle", batch |-> <<>>, max |-> 0, best |-> 0, score |-> 0,
          rank |-> 0, card |-> 0, rows |-> <<>>]
Idle == [pc |-> "idle", id |-> 0, rows |-> <<>>]

SubRow == [status: {"queued", "done", "failed"}, score: Scores \cup {0},
           final: BOOLEAN]
TypeOK ==
  /\ sub \in [Subs -> SubRow] /\ dq \subseteq Entries
  /\ announcing \subseteq Subs /\ results \in Seq(Subs)
  /\ \A b \in Bridges :
       /\ bridge[b].pc \in BridgePC
       /\ bridge[b].batch \in Seq(Subs)
       /\ bridge[b].batch = <<>> <=> bridge[b].pc \in {"idle", "stopped"}
       /\ bridge[b].pc \in {"zadd", "zrank", "zcard", "update"} =>
            bridge[b].best \in Subs
  /\ zset \in [Phases -> [Entries -> Int]]
  /\ \A p \in Phases, e \in Entries :
       DOMAIN board[p][e] = DOMAIN NoRow /\ board[p][e].rank \in Nat
  /\ \A e \in Entries : DOMAIN cboard[e] = DOMAIN NoContestRow
  /\ DOMAIN ranking = Users /\ asked \in 0..MaxRequests

Init ==
  /\ sub = [s \in Subs |-> [status |-> "queued", score |-> 0, final |-> FALSE]]
  /\ dq = {} /\ announcing = {} /\ results = <<>> /\ asked = 0
  /\ bridge = [b \in Bridges |-> Fresh]
  /\ zset = [p \in Phases |-> [e \in Entries |-> Absent]]
  /\ board = [p \in Phases |-> [e \in Entries |-> NoRow]]
  /\ cboard = [e \in Entries |-> NoContestRow]
  /\ ranking = [u \in Users |-> NoUserRow]
  /\ req = [h \in Handlers |-> Idle]
-----------------------------------------------------------------------------
(* The producers of jobs:results.                                          *)

\* MarkSubmissionDone sets the score, MarkSubmissionFailed leaves it.
Judge(s) ==
  /\ sub[s].status = "queued"
  /\ \/ \E x \in Scores :
          sub' = [sub EXCEPT ![s].status = "done", ![s].score = x]
     \/ sub' = [sub EXCEPT ![s].status = "failed"]
  /\ announcing' = announcing \cup {s}
  /\ UNCHANGED <<dq, results, bridge, zset, tables, req, asked>>

EnqueueResult(s) ==
  /\ s \in announcing
  /\ announcing' = announcing \ {s}
  /\ \/ results' = Append(results, s)
     \/ "emit" \in Faults /\ UNCHANGED results
  /\ UNCHANGED <<sub, dq, bridge, zset, tables, req, asked>>

\* A second CompleteUpload: queued again, the old score kept.
Rejudge(s) ==
  /\ "rejudge" \in Requests /\ asked < MaxRequests
  /\ sub[s].status \in {"done", "failed"} /\ s \notin announcing
  /\ sub' = [sub EXCEPT ![s].status = "queued"]
  /\ asked' = asked + 1
  /\ UNCHANGED <<dq, announcing, results, bridge, zset, tables, req>>

Disqualify(e) ==
  /\ "disqualify" \in Requests /\ asked < MaxRequests /\ e \notin dq
  /\ dq' = dq \cup {e}
  /\ asked' = asked + 1
  /\ UNCHANGED <<sub, announcing, results, bridge, zset, tables, req>>

\* MarkFinal: two updates and an announcement, whatever the status.
SameSlot(s) == {t \in Subs : EntryOf[t] = EntryOf[s] /\ PhaseOf[t] = PhaseOf[s]}
ResetOtherFinals(h, s) ==
  /\ "final" \in Requests /\ asked < MaxRequests /\ req[h] = Idle
  /\ sub' = [t \in Subs |-> IF t \in SameSlot(s) \ {s}
                            THEN [sub[t] EXCEPT !.final = FALSE] ELSE sub[t]]
  /\ req' = [req EXCEPT ![h] = [Idle EXCEPT !.pc = "mark", !.id = s]]
  /\ asked' = asked + 1
  /\ UNCHANGED <<dq, announcing, results, bridge, zset, tables>>

MarkFinal(h) ==
  /\ req[h].pc = "mark"
  /\ sub' = [sub EXCEPT ![req[h].id].final = TRUE]
  /\ req' = [req EXCEPT ![h].pc = "emit"]
  /\ UNCHANGED <<dq, announcing, results, bridge, zset, tables, asked>>

EmitFinal(h) ==
  /\ req[h].pc = "emit"
  /\ \/ results' = Append(results, req[h].id)
     \/ "emit" \in Faults /\ UNCHANGED results
  /\ req' = [req EXCEPT ![h] = Idle]
  /\ UNCHANGED <<world, bridge, zset, tables>>
-----------------------------------------------------------------------------
(* The bridge.  The first message of its batch is the one in hand.         *)

Goto(b, pc) == bridge' = [bridge EXCEPT ![b].pc = pc]
Entry(b) == EntryOf[Head(bridge[b].batch)]
Phase(b) == PhaseOf[Head(bridge[b].batch)]

\* XREADGROUP ">": the messages are this consumer's from now on, and no
\* later read returns them.
ReadResults(b) ==
  /\ bridge[b].pc = "idle" /\ results # <<>>
  /\ \E n \in 1..BatchSize :
       /\ n <= Len(results)
       /\ bridge' = [bridge EXCEPT ![b].batch = SubSeq(results, 1, n),
                                   ![b].pc = "max"]
       /\ results' = SubSeq(results, n + 1, Len(results))
  /\ UNCHANGED <<world, zset, tables, req>>

\* incrementalTaskPhase: GetMaxScore, 0 for an empty set.
GetMaxScore(b) ==
  /\ bridge[b].pc = "max"
  /\ LET members == {zset[Phase(b)][e] : e \in Entries} \ {Absent}
     IN  bridge' = [bridge EXCEPT ![b].pc = "best",
                      ![b].max = IF members = {} THEN 0 ELSE Max(members)]
  /\ UNCHANGED <<world, results, zset, tables, req>>

\* No done submission, or one above the maximum: recompute in full.
GetBestSubmission(b) ==
  /\ bridge[b].pc = "best"
  /\ LET all == Candidates(Phase(b), Entry(b))
         s == FirstBy(IncrementalKey, all)
     IN  IF all = {} \/ (sub[s].score > bridge[b].max /\ bridge[b].max > 0)
         THEN Goto(b, "full")
         ELSE bridge' = [bridge EXCEPT ![b].pc = "zadd", ![b].best = s,
                                       ![b].score = sub[s].score]
  /\ UNCHANGED <<world, results, zset, tables, req>>

UpdateScore(b) ==
  /\ bridge[b].pc = "zadd"
  /\ zset' = [zset EXCEPT ![Phase(b)][Entry(b)] = bridge[b].score]
  /\ Goto(b, "zrank")
  /\ UNCHANGED <<world, results, tables, req>>

\* ZREVRANK + 1, the greater score and then the greater member first.
RevRank(b) ==
  /\ bridge[b].pc = "zrank"
  /\ LET z == zset[Phase(b)]
     IN  bridge' = [bridge EXCEPT ![b].pc = "zcard",
           ![b].rank = 1 + Cardinality({e \in Entries :
              Precedes(<<-z[e], -e>>, <<-z[Entry(b)], -Entry(b)>>)})]
  /\ UNCHANGED <<world, results, zset, tables, req>>

ZCard(b) ==
  /\ bridge[b].pc = "zcard"
  /\ bridge' = [bridge EXCEPT ![b].pc = "update", ![b].card =
       Cardinality({e \in Entries : zset[Phase(b)][e] # Absent})]
  /\ UNCHANGED <<world, results, zset, tables, req>>

\* An UPDATE: an entry without a row gets none.
UpdateSingleEntry(b) ==
  /\ bridge[b].pc = "update"
  /\ board' = IF board[Phase(b)][Entry(b)].rank = 0 THEN board
              ELSE [board EXCEPT ![Phase(b)][Entry(b)] =
                     [@ EXCEPT !.rank = bridge[b].rank,
                               !.score = bridge[b].score,
                               !.raw = bridge[b].score,
                               !.chosen = bridge[b].best,
                               !.count = bridge[b].card]]
  /\ Goto(b, "contest")
  /\ UNCHANGED <<world, results, zset, cboard, ranking, req>>

\* A recomputation: its snapshot, then its rows.
Compute(b, pc, rows, next) ==
  /\ bridge[b].pc = pc
  /\ bridge' = [bridge EXCEPT ![b].pc = next, ![b].rows = rows]
  /\ UNCHANGED <<world, results, zset, tables, req>>
Written(b, next) ==
  bridge' = [bridge EXCEPT ![b].pc = next, ![b].rows = <<>>]

FullRecomputeTaskPhase(b) ==
  Compute(b, "full", BridgeTaskRows(Phase(b)), "write_task")
WriteTaskRows(b) ==
  /\ bridge[b].pc = "write_task"
  /\ board' = [board EXCEPT ![Phase(b)] = Upsert(@, bridge[b].rows)]
  /\ Written(b, "seed_read")
  /\ UNCHANGED <<world, results, zset, cboard, ranking, req>>

\* seedZSETFromDB: the rows' scores, scaled or not.
SeedRead(b) ==
  Compute(b, "seed_read", board[Phase(b)], "seed")
SeedPhase(b) ==
  /\ bridge[b].pc = "seed"
  /\ LET rows == bridge[b].rows
     IN  zset' = [zset EXCEPT ![Phase(b)] = [e \in Entries |->
                    IF rows[e].rank = 0 THEN @[e] ELSE rows[e].score]]
  /\ Written(b, "contest")
  /\ UNCHANGED <<world, results, tables, req>>

RecomputeContestPhase(b) ==
  Compute(b, "contest", BridgeContestRows, "write_contest")
\* Mutant of WriteContestRows: ON CONFLICT DO NOTHING.
WriteNewContestRows(b) ==
  /\ bridge[b].pc = "write_contest"
  /\ cboard' = [e \in Entries |-> IF cboard[e].rank = 0 /\ e \in DOMAIN bridge[b].rows
                                 THEN bridge[b].rows[e] ELSE cboard[e]]
  /\ Written(b, "global")
  /\ UNCHANGED <<world, results, zset, board, ranking, req>>
WriteContestRows(b) ==
  /\ bridge[b].pc = "write_contest"
  /\ cboard' = Upsert(cboard, bridge[b].rows)
  /\ Written(b, "global")
  /\ UNCHANGED <<world, results, zset, board, ranking, req>>

RecomputeGlobalPhase(b) == Compute(b, "global", GlobalRows, "write_global")
\* Mutant of WriteGlobalRows: ON CONFLICT DO NOTHING.
WriteNewGlobalRows(b) ==
  /\ bridge[b].pc = "write_global"
  /\ ranking' = [u \in Users |-> IF ranking[u].rank = 0 /\ u \in DOMAIN bridge[b].rows
                                THEN bridge[b].rows[u] ELSE ranking[u]]
  /\ Written(b, "stale")
  /\ UNCHANGED <<world, results, zset, board, cboard, req>>
WriteGlobalRows(b) ==
  /\ bridge[b].pc = "write_global"
  /\ ranking' = Replace(ranking, bridge[b].rows)
  /\ Written(b, "stale")
  /\ UNCHANGED <<world, results, zset, board, cboard, req>>

\* Mutant of NextMessage: the loop never leaves the batch.
NextMessageAlways(b) ==
  bridge' = [bridge EXCEPT ![b] =
               [Fresh EXCEPT !.batch = Tail(bridge[b].batch), !.pc = "max"]]

\* The end of a message: XACK, whatever failed, and the next of the batch.
NextMessage(b) ==
  LET rest == Tail(bridge[b].batch)
  IN  bridge' = [bridge EXCEPT ![b] = [Fresh EXCEPT !.batch = rest,
                   !.pc = IF rest = <<>> THEN "idle" ELSE "max"]]
WithoutStale == [u \in Users |-> IF Ranking(u) THEN ranking[u] ELSE NoUserRow]
DeleteStaleRankings(b) ==
  /\ bridge[b].pc = "stale"
  /\ ranking' = WithoutStale
  /\ NextMessage(b)
  /\ UNCHANGED <<world, results, zset, board, cboard, req>>
-----------------------------------------------------------------------------
(* Failures of the bridge.                                                 *)

\* An error of the incremental path falls back on the full one.
IncrementalFails(b) ==
  /\ "incremental" \in Faults /\ bridge[b].pc \in IncrementalPC
  /\ Goto(b, "full")
  /\ UNCHANGED <<world, results, zset, tables, req>>

\* Mutant of FullFails: the error ends the message.
FullEndsMessage(b) ==
  /\ "full" \in Faults
  /\ bridge[b].pc \in {"full", "write_task", "seed_read", "seed"}
  /\ NextMessage(b)
  /\ UNCHANGED <<world, results, zset, tables, req>>
FullFails(b) ==
  /\ "full" \in Faults
  /\ bridge[b].pc \in {"full", "write_task", "seed_read", "seed"}
  /\ Written(b, "contest")
  /\ UNCHANGED <<world, results, zset, tables, req>>

\* A failed recomputation of one board is logged; the next one follows.
BoardFails(b) ==
  /\ "boards" \in Faults
  /\ \/ bridge[b].pc \in {"contest", "write_contest"} /\ Written(b, "global")
     \/ bridge[b].pc \in {"global", "write_global", "stale"} /\ NextMessage(b)
  /\ UNCHANGED <<world, results, zset, tables, req>>

\* Run returns on an error of XREADGROUP, and main only logs it.
ReadFails(b) ==
  /\ "read" \in Faults /\ bridge[b].pc = "idle"
  /\ Goto(b, "stopped")
  /\ UNCHANGED <<world, results, zset, tables, req>>

\* The process restarts: what its bridge had read stays pending in Redis.
Restart(b) ==
  /\ "crash" \in Faults /\ bridge[b].pc # "idle"
  /\ bridge' = [bridge EXCEPT ![b] = Fresh]
  /\ UNCHANGED <<world, results, zset, tables, req>>
-----------------------------------------------------------------------------
(* The handlers that recompute a board before they read it.                *)

Request(h, kind, pc, id, rows) ==
  /\ kind \in Requests /\ req[h] = Idle
  /\ req' = [req EXCEPT ![h] = [pc |-> pc, id |-> id, rows |-> rows]]
  /\ UNCHANGED <<world, results, bridge, zset, tables>>

TaskPhaseBoard(h, p) ==
  Request(h, "task", "write_task", p, HandlerTaskRows(p))
ContestPhaseBoard(h) ==
  Request(h, "contest", "write_contest", 0, HandlerContestRows)
GlobalPhaseRanking(h) ==
  Request(h, "global", "write_global", 0, GlobalRows)

HandlerWrites(h) ==
  /\ \/ /\ req[h].pc = "write_task"
        /\ board' = [board EXCEPT ![req[h].id] = Upsert(@, req[h].rows)]
        /\ req' = [req EXCEPT ![h] = Idle]
        /\ UNCHANGED <<cboard, ranking>>
     \/ /\ req[h].pc = "write_contest"
        /\ cboard' = Upsert(cboard, req[h].rows)
        /\ req' = [req EXCEPT ![h] = Idle]
        /\ UNCHANGED <<board, ranking>>
     \/ /\ req[h].pc = "write_global"
        /\ ranking' = Replace(ranking, req[h].rows)
        /\ req' = [req EXCEPT ![h].pc = "stale", ![h].rows = <<>>]
        /\ UNCHANGED <<board, cboard>>
     \/ /\ req[h].pc = "stale"
        /\ ranking' = WithoutStale
        /\ req' = [req EXCEPT ![h] = Idle]
        /\ UNCHANGED <<board, cboard>>
  /\ UNCHANGED <<world, results, bridge, zset>>
-----------------------------------------------------------------------------
Incremental(b) ==
  \/ GetMaxScore(b) \/ GetBestSubmission(b) \/ UpdateScore(b) \/ RevRank(b)
  \/ ZCard(b) \/ UpdateSingleEntry(b)
Full(b) ==
  FullRecomputeTaskPhase(b) \/ WriteTaskRows(b) \/ SeedRead(b) \/ SeedPhase(b)
BoardsStep(b) ==
  \/ RecomputeContestPhase(b) \/ WriteContestRows(b)
  \/ RecomputeGlobalPhase(b) \/ WriteGlobalRows(b) \/ DeleteStaleRankings(b)
BridgeStep(b) == ReadResults(b) \/ Incremental(b) \/ Full(b) \/ BoardsStep(b)
BridgeFault(b) ==
  \/ IncrementalFails(b) \/ FullFails(b) \/ BoardFails(b) \/ ReadFails(b)
  \/ Restart(b)

Next ==
  \/ \E s \in Subs : Judge(s) \/ EnqueueResult(s) \/ Rejudge(s)
  \/ \E e \in Entries : Disqualify(e)
  \/ \E b \in Bridges : BridgeStep(b) \/ BridgeFault(b)
  \/ \E h \in Handlers :
       \/ \E s \in Subs : ResetOtherFinals(h, s)
       \/ MarkFinal(h) \/ EmitFinal(h)
       \/ \E p \in Phases : TaskPhaseBoard(h, p)
       \/ ContestPhaseBoard(h) \/ GlobalPhaseRanking(h) \/ HandlerWrites(h)

Spec == Init /\ [][Next]_vars

\* A producer announces what it committed, and a bridge's loop goes on.
FairSpec ==
  /\ Spec
  /\ \A s \in Subs : WF_vars(EnqueueResult(s))
  /\ \A b \in Bridges : WF_vars(BridgeStep(b))
-----------------------------------------------------------------------------
(* Properties.                                                             *)

\* Every committed result has been announced, read and worked through, and
\* no request is in flight.
Settled ==
  /\ announcing = {} /\ results = <<>>
  /\ \A b \in Bridges : bridge[b].pc = "idle"
  /\ \A h \in Handlers : req[h] = Idle

\* When a bridge has caught up, every row of a task board is that of the
\* entry's submission: the final one if there is one, else the best.  The
\* incremental path and the full one must agree on it.
TaskRowsFollow ==
  Settled => \A p \in Phases, e \in Entries :
    (board[p][e].rank # 0 /\ Candidates(p, e) # {}) =>
      LET s == FirstBy(BridgeKey, Candidates(p, e))
      IN  board[p][e].chosen = s /\ board[p][e].raw = sub[s].score

\* When a bridge has caught up, the contest board is the one a recomputation
\* would write, ranks included.
ContestBoardFollows ==
  Settled => \A e \in DOMAIN BridgeContestRows :
               [cboard[e] EXCEPT !.dq = FALSE] =
               [BridgeContestRows[e] EXCEPT !.dq = FALSE]

\* When a bridge has caught up, so has the ranking across contests, and it
\* lists nobody whose results do not count.
RankingFollows ==
  Settled => ranking = Replace([u \in Users |-> NoUserRow], GlobalRows)

\* Whatever fails and whoever writes, the submission a task board names is
\* one of that entry in that phase, and a judge has finished it.
ChosenIsOwn ==
  \A p \in Phases, e \in Entries :
    LET s == board[p][e].chosen
    IN  board[p][e].rank # 0 =>
          /\ s \in Subs /\ EntryOf[s] = e /\ PhaseOf[s] = p
          /\ sub[s].status = "done"

\* A page of the contest board lists the entries by total, the best first,
\* at every step of the bridge's work, also between two results.
PageInOrder ==
  \A page \in Pages(cboard) : \A i, j \in DOMAIN page :
    i < j => cboard[page[i]].score >= cboard[page[j]].score

\* A committed result of an entry brings the entry on the contest board, or
\* the submission is judged anew.
ResultsReachBoard ==
  \A s \in Subs : (sub[s].status = "done") ~>
                  (cboard[EntryOf[s]].rank # 0 \/ sub[s].status # "done")
-----------------------------------------------------------------------------
(* What documents or comments say and the code does not do.                *)

\* "Go leaderboard bridge updates task-phase and contest-phase leaderboards
\* after jobs:results": an entry with a result has a row on its task board.
TaskRowPublished ==
  Settled => \A p \in Phases, e \in Entries :
               Candidates(p, e) # {} => board[p][e].rank # 0
=============================================================================
