--------------------------- MODULE ContestTables ---------------------------
(***************************************************************************)
(* The tables of one contest that the participants' handlers share, with   *)
(* the constraints the migrations declare, and the requests in progress.   *)
(* A handler is a sequence of SQL statements and no handler opens a        *)
(* transaction, so a request keeps what it has read in req[h] between two  *)
(* statements.  A row that was deleted stays Gone: identifiers are UUIDs   *)
(* and are never used again.                                               *)
(***************************************************************************)
EXTENDS Integers, Sequences, FiniteSets

CONSTANTS
  Users, Teams, Entries, Subs, Phases,   \* identifiers of the rows
  Handlers,                              \* requests served at the same time
  Modes,                                 \* entry modes in use
  Limit,                                 \* submission_limit of a phase, or None
  None, Gone,                            \* no row yet; a deleted row
  MaxRequests,                           \* bound on the requests served
  Faults                                 \* TRUE: a statement may fail

ASSUME TablesAssumption ==
  /\ MaxRequests \in Nat
  /\ Faults \in BOOLEAN
  /\ Limit \in [Phases -> Nat \cup {None}]
  /\ None \notin Users \cup Teams \cup Nat
  /\ Gone \notin Users \cup Teams \cup {None}
  /\ Users \cap Teams = {}

ASSUME FiniteAssumption == IsFiniteSet(Subs) /\ IsFiniteSet(Handlers) /\ Handlers # {}

VARIABLES
  team,      \* owner of each team
  member,    \* state of each user in each team
  agreed,    \* who accepted the invitation that made them a member
  entry,     \* the user or team of each contest entry
  mode,      \* entry mode of each entry
  lineup,    \* contest_entry_members of each entry
  contest,   \* "open", "ended" once its end time has passed, or Gone
  phase,     \* whether the row of each phase exists
  sub,       \* the submissions
  files,     \* number of submission_files rows of each submission
  jobs,      \* submissions put on the stream jobs:judge
  results,   \* submissions announced on the stream jobs:results
  req,       \* the requests in progress
  begun      \* number of requests begun

teamVars == <<team, member, agreed>>
entryVars == <<entry, mode, lineup>>
setupVars == <<contest, phase>>
subVars == <<sub, files, jobs, results>>
vars == <<teamVars, entryVars, setupVars, subVars, req, begun>>

\* What the handlers of each component leave alone.
notTeams == <<entryVars, setupVars, subVars>>
notEntries == <<teamVars, setupVars, subVars>>
notSubs == <<teamVars, entryVars, setupVars>>

NoSub == [state |-> "none", entry |-> None, by |-> None, phase |-> None,
          final |-> FALSE, count |-> 0, total |-> 0]

Idle == [op |-> "idle", user |-> None, on |-> None, entry |-> None,
         mode |-> None, sub |-> None, phase |-> None, users |-> {},
         left |-> 0, count |-> 0, total |-> 0]

SubRow == [state : {"none", "uploaded", "queued", "gone"}, entry : Entries \cup {None},
           by : Users \cup {None}, phase : Phases \cup {None}, final : BOOLEAN,
           count : Nat, total : Nat]

Ops == {"idle", "owner", "entry", "leader", "list", "members", "create", "file",
        "queue", "enqueue", "final", "result"}

RequestRecord ==
  [op : Ops, user : Users \cup {None}, on : Users \cup Teams \cup {None},
   entry : Entries \cup {None}, mode : Modes \cup {None}, sub : Subs \cup {None},
   phase : Phases \cup {None}, users : SUBSET Users, left : Nat, count : Nat, total : Nat]

\* What a request knows at each of its statements.
Request ==
  {r \in RequestRecord :
     /\ r.op \in {"owner", "entry", "leader", "list", "members", "create"} => r.user \in Users
     /\ r.op \in {"owner", "list"} => r.on \in Teams
     /\ r.op \in {"entry", "leader", "members"} => r.on \in Users \cup Teams
     /\ r.op = "entry" => r.mode \in Modes
     /\ r.op \in {"leader", "list", "members", "create"} => r.entry \in Entries
     /\ r.op = "create" => r.phase \in Phases
     /\ r.op \in {"file", "queue", "enqueue", "final", "result"} => r.sub \in Subs
     /\ r.op = "file" => r.left > 0}

TeamExists(t) == team[t] \in Users
EntryExists(e) == entry[e] \in Users \cup Teams
SubExists(s) == sub[s].state \in {"uploaded", "queued"}

\* The submissions CountSubmissionsByEntryPhase counts.
SlotOf(e, p) == {s \in Subs : SubExists(s) /\ sub[s].entry = e /\ sub[s].phase = p}

\* The foreign keys of submissions: its entry, its author's row in the
\* line-up and its phase.
SubmissionRefs(e, u, p) == EntryExists(e) /\ u \in lineup[e] /\ phase[p]

\* fk_sub_member: a row of the line-up with a submission cannot be deleted.
HasSubmitted(e, u) == \E s \in Subs : SubExists(s) /\ sub[s].entry = e /\ sub[s].by = u

Serve == begun < MaxRequests /\ begun' = begun + 1

\* A request that consists of one statement, and the beginning of one that
\* does not.
OneStatement == Serve /\ UNCHANGED req
Begin(h, r) == Serve /\ req[h] = Idle /\ req' = [req EXCEPT ![h] = r]
Goto(h, r) == req' = [req EXCEPT ![h] = r] /\ UNCHANGED begun
Done(h) == Goto(h, Idle)
=============================================================================
