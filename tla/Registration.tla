---------------------------- MODULE Registration ----------------------------
(***************************************************************************)
(* Teams, entries and submissions of a contest together: the requests of   *)
(* the participants, interleaved statement by statement, with what an      *)
(* administrator does to the same tables and with statements that fail.    *)
(***************************************************************************)
EXTENDS Teams, Entries, Submissions

CONSTANTS
  Owned,        \* the teams that exist, by their owner
  Registered,   \* the individual entries the contest starts with
  Lineups,      \* the lists of further members that clients send
  Submitted     \* the phases of their submissions, each of one file

ASSUME RegisteredAssumption ==
  /\ Owned \in [Teams -> Users \cup {None}]
  /\ Registered \in [Entries -> Users \cup {None}]
  /\ Lineups \subseteq SUBSET Users
  /\ Submitted \in [Subs -> (Entries \X Phases) \cup {None}]
  /\ \A s \in Subs : Submitted[s] # None => Registered[Submitted[s][1]] # None
  /\ \A e, f \in Entries : Registered[e] # None /\ Registered[e] = Registered[f] => e = f
  /\ \A s \in Subs : Submitted[s] # None => SizeLimit[Submitted[s][2]] > 0
  /\ \A e \in Entries, p \in Phases :
       Limit[p] # None => Cardinality({s \in Subs : Submitted[s] = <<e, p>>}) <= Limit[p]

EarlierSub(e, p) ==
  [NoSub EXCEPT !.state = "queued", !.entry = e, !.by = Registered[e], !.phase = p,
                !.count = 1, !.total = 1]

\* The database of a running contest whose entries were registered by their
\* own users.
Init ==
  /\ team = Owned
  /\ member = [t \in Teams |-> [u \in Users |-> IF Owned[t] = u THEN "accepted" ELSE "absent"]]
  /\ agreed = {}
  /\ entry = Registered
  /\ mode = [e \in Entries |-> IF Registered[e] = None THEN None ELSE "official"]
  /\ lineup = [e \in Entries |-> {Registered[e]} \ {None}]
  /\ contest = "open"
  /\ phase = [p \in Phases |-> TRUE]
  /\ sub = [s \in Subs |-> IF Submitted[s] = None THEN NoSub ELSE EarlierSub(Submitted[s][1], Submitted[s][2])]
  /\ files = [s \in Subs |-> IF Submitted[s] = None THEN 0 ELSE 1]
  /\ jobs = {} /\ results = {}
  /\ req = [h \in Handlers |-> Idle]
  /\ begun = 0

\* A statement of a request fails, or its connection is lost.  Create of an
\* entry goes on with the line-up; every other handler answers 500.
StatementFails(h) ==
  LET r == req[h] IN
  /\ Faults
  /\ r # Idle
  /\ CASE r.op = "leader" -> Goto(h, [r EXCEPT !.op = IF r.on \in Teams THEN "list" ELSE "members"])
       [] r.op = "members" /\ r.users # {} ->
            \E u \in r.users : Goto(h, [r EXCEPT !.users = @ \ {u}])
       [] OTHER -> Done(h)
  /\ UNCHANGED <<teamVars, notTeams>>

ContestEnds ==
  /\ contest = "open"
  /\ contest' = "ended"
  /\ UNCHANGED <<teamVars, entryVars, phase, subVars, req, begun>>

\* fk_sub_phase_task has no ON DELETE clause.
DeletePhase(p) ==
  /\ phase[p]
  /\ \A s \in Subs : SubExists(s) => sub[s].phase # p
  /\ phase' = [phase EXCEPT ![p] = FALSE]
  /\ OneStatement
  /\ UNCHANGED <<teamVars, entryVars, contest, subVars>>

\* Everything of the contest cascades; the teams stay.
DeleteContest ==
  /\ contest # Gone
  /\ contest' = Gone
  /\ phase' = [p \in Phases |-> FALSE]
  /\ entry' = [e \in Entries |-> IF EntryExists(e) THEN Gone ELSE entry[e]]
  /\ lineup' = [e \in Entries |-> {}]
  /\ sub' = [s \in Subs |-> IF SubExists(s) THEN [NoSub EXCEPT !.state = "gone"] ELSE sub[s]]
  /\ files' = [s \in Subs |-> 0]
  /\ OneStatement
  /\ UNCHANGED <<teamVars, mode, jobs, results>>

TeamStep ==
  \/ \E h \in Handlers : AddOwner(h) \/ \E u \in Users, t \in Teams : CreateTeam(h, u, t)
  \/ \E t \in Teams, u \in Users :
       \/ DeleteTeam(u, t)
       \/ AcceptInvitation(u, t)
       \/ DeclineInvitation(u, t)
       \/ \E v \in Users : AddMember(u, t, v) \/ RemoveMember(u, t, v)

EntryStep ==
  \/ \E h \in Handlers :
       \/ \E u \in Users, on \in Users \cup Teams, m \in Modes, extra \in Lineups :
            CreateEntry(h, u, on, m, extra)
       \/ \E e \in Entries : InsertEntry(h, e)
       \/ AddLeader(h)
       \/ ListMembers(h)
       \/ AddLineup(h)
  \/ \E e \in Entries :
       \/ DeleteContestEntry(e)
       \/ \E u \in Users : AddMemberByHand(e, u) \/ RemoveEntryMember(e, u)

SubmissionStep ==
  \E h \in Handlers :
    \/ \E u \in Users, e \in Entries, p \in Phases, list \in FileLists :
         InitiateUpload(h, u, e, p, list)
    \/ \E s \in Subs : \/ CreateSubmission(h, s)
                       \/ MarkFinal(h, s)
                       \/ \E list \in FileLists : CompleteUpload(h, s, list)
    \/ CreateSubmissionFile(h)
    \/ MarkSubmissionQueued(h)
    \/ EnqueueJudge(h)
    \/ MarkSubmissionFinal(h)
    \/ EnqueueResult(h)

AdminStep == (\E p \in Phases : DeletePhase(p)) \/ DeleteContest \/ ContestEnds

Next == TeamStep \/ EntryStep \/ SubmissionStep \/ AdminStep
          \/ \E h \in Handlers : StatementFails(h)

Spec == Init /\ [][Next]_vars
-----------------------------------------------------------------------------
TypeOK ==
  /\ team \in [Teams -> Users \cup {None, Gone}]
  /\ member \in [Teams -> [Users -> {"absent", "pending", "accepted"}]]
  /\ agreed \subseteq Teams \X Users
  /\ entry \in [Entries -> Users \cup Teams \cup {None, Gone}]
  /\ mode \in [Entries -> Modes \cup {None, "official"}]
  /\ lineup \in [Entries -> SUBSET Users]
  /\ contest \in {"open", "ended", Gone}
  /\ phase \in [Phases -> BOOLEAN]
  /\ sub \in [Subs -> SubRow]
  /\ files \in [Subs -> Nat]
  /\ jobs \subseteq Subs /\ results \subseteq Subs
  /\ req \in [Handlers -> Request]
  /\ begun \in 0 .. MaxRequests

\* Every submission has its entry, its phase and its author's row in the
\* line-up: no order of uploads, removals and deletions breaks the link that
\* the leaderboards follow from a score to a participant.
SubmissionsAnchored ==
  \A s \in Subs : SubExists(s) => SubmissionRefs(sub[s].entry, sub[s].by, sub[s].phase)

\* A user counts as a member of a team only if she owns it or has accepted
\* an invitation since she was last removed.
Consented ==
  \A t \in Teams, u \in Users :
    member[t][u] = "accepted" => team[t] = u \/ <<t, u>> \in agreed

\* A participant has one entry per mode, however many requests to create it
\* overlap.
OneEntryPerMode ==
  \A e, f \in Entries :
    EntryExists(e) /\ entry[e] = entry[f] /\ mode[e] = mode[f] => e = f

\* The check of submission_limit and the insert are two statements, so
\* overlapping uploads may pass it together; they exceed it by fewer than the
\* number of requests served at once.
LimitOvershoot ==
  \A e \in Entries, p \in Phases :
    Limit[p] # None =>
      Cardinality(SlotOf(e, p)) < Limit[p] + Cardinality(Handlers)

\* A submission is queued with no more files than have a row, whatever the
\* retries and the failures of CompleteUpload.
FilesCoverCount ==
  \A s \in Subs : sub[s].state = "queued" => sub[s].count <= files[s]

\* What is queued fits the size limit of its phase.
QueuedFits ==
  \A s \in Subs : sub[s].state = "queued" => sub[s].total <= SizeLimit[sub[s].phase]

\* MarkFinal clears the other marks of the slot before it sets its own, in
\* two statements: marks that overlap may leave one each, never more.
FinalsBounded ==
  \A s \in Subs :
    Cardinality({r \in Subs : SubExists(r) /\ sub[r].final /\ SameSlot(s, r)})
      <= Cardinality(Handlers)
=============================================================================
