---------------------------- MODULE Submissions ----------------------------
(***************************************************************************)
(* Submissions of an entry to a phase (handlers/submissions.go): an upload *)
(* is initiated, the files go to the object store, and completing it       *)
(* inserts the rows of its files one by one, queues the submission and     *)
(* announces the job.  A file is its size.  The judging that follows is    *)
(* the subject of JudgePipeline.                                           *)
(***************************************************************************)
EXTENDS ContestTables

CONSTANT
  FileLists,   \* the lists of file sizes that clients send
  SizeLimit    \* submissionSizeLimit of each phase

Total[list \in Seq(Nat)] ==
  IF list = <<>> THEN 0 ELSE Head(list) + Total[Tail(list)]

ASSUME FilesAssumption ==
  /\ \A list \in FileLists : list \in Seq(Nat \ {0}) /\ Len(list) > 0
  /\ SizeLimit \in [Phases -> Nat]

\* Mutant of FitsLimit: every file fits, their sum may not.
EachFileFits(list, limit) == \A i \in DOMAIN list : list[i] <= limit

\* validateSubmissionSize: each file is compared with what is left.
FitsLimit(list, limit) ==
  \A i \in DOMAIN list : list[i] <= limit - Total[SubSeq(list, 1, i - 1)]

\* Mutant of BelowLimit: one submission too many.
UpToLimit(e, p) == Limit[p] # None => Cardinality(SlotOf(e, p)) <= Limit[p]

\* CountSubmissionsByEntryPhase against the limit of the phase.
BelowLimit(e, p) == Limit[p] # None => Cardinality(SlotOf(e, p)) < Limit[p]

\* The checks of InitiateUpload.
InitiateUpload(h, uid, e, p, list) ==
  /\ EntryExists(e) /\ phase[p]
  /\ FitsLimit(list, SizeLimit[p])
  /\ BelowLimit(e, p)
  /\ Begin(h, [Idle EXCEPT !.op = "create", !.user = uid, !.entry = e, !.phase = p,
                           !.count = Len(list)])
  /\ UNCHANGED <<subVars, notSubs>>

\* CreateSubmission; a violated foreign key answers 500.
CreateSubmission(h, s) ==
  LET r == req[h] IN
  /\ r.op = "create"
  /\ sub[s] = NoSub
  /\ IF SubmissionRefs(r.entry, r.user, r.phase)
       THEN sub' = [sub EXCEPT ![s] =
              [NoSub EXCEPT !.state = "uploaded", !.entry = r.entry, !.by = r.user,
                            !.phase = r.phase, !.count = r.count]]
       ELSE UNCHANGED sub
  /\ Done(h)
  /\ UNCHANGED <<files, jobs, results, notSubs>>

\* The checks of CompleteUpload; it asks neither for the status nor whether
\* the submission has files already.
CompleteUpload(h, s, list) ==
  /\ SubExists(s) /\ phase[sub[s].phase]
  /\ FitsLimit(list, SizeLimit[sub[s].phase])
  /\ Begin(h, [Idle EXCEPT !.op = "file", !.sub = s, !.left = Len(list),
                           !.count = Len(list), !.total = Total[list]])
  /\ UNCHANGED <<subVars, notSubs>>

\* Mutant of CreateSubmissionFile: the submission is queued before its last
\* file has a row.
QueueBeforeLastFile(h) ==
  LET r == req[h] IN
  /\ r.op = "file"
  /\ IF SubExists(r.sub)
       THEN /\ files' = [files EXCEPT ![r.sub] = @ + (IF r.left > 1 THEN 1 ELSE 0)]
            /\ Goto(h, [r EXCEPT !.left = @ - 1, !.op = IF r.left = 1 THEN "queue" ELSE @])
       ELSE Done(h) /\ UNCHANGED files
  /\ UNCHANGED <<sub, jobs, results, notSubs>>

\* Mutant of CreateSubmissionFile: one file too many.
OneFileMore(h) ==
  LET r == req[h] IN
  /\ r.op = "file"
  /\ SubExists(r.sub)
  /\ files' = [files EXCEPT ![r.sub] = @ + 1]
  /\ Goto(h, [r EXCEPT !.left = @ - 1, !.op = IF r.left = 0 THEN "queue" ELSE @])
  /\ UNCHANGED <<sub, jobs, results, notSubs>>

CreateSubmissionFile(h) ==
  LET r == req[h] IN
  /\ r.op = "file"
  /\ IF SubExists(r.sub)
       THEN /\ files' = [files EXCEPT ![r.sub] = @ + 1]
            /\ Goto(h, [r EXCEPT !.left = @ - 1, !.op = IF r.left = 1 THEN "queue" ELSE @])
       ELSE Done(h) /\ UNCHANGED files
  /\ UNCHANGED <<sub, jobs, results, notSubs>>

MarkSubmissionQueued(h) ==
  LET r == req[h] IN
  /\ r.op = "queue"
  /\ IF SubExists(r.sub)
       THEN /\ sub' = [sub EXCEPT ![r.sub].state = "queued", ![r.sub].count = r.count,
                                  ![r.sub].total = r.total]
            /\ Goto(h, [r EXCEPT !.op = "enqueue"])
       ELSE Done(h) /\ UNCHANGED sub
  /\ UNCHANGED <<files, jobs, results, notSubs>>

EnqueueJudge(h) ==
  /\ req[h].op = "enqueue"
  /\ jobs' = jobs \cup {req[h].sub}
  /\ Done(h)
  /\ UNCHANGED <<sub, files, results, notSubs>>

SameSlot(s, r) == sub[r].entry = sub[s].entry /\ sub[r].phase = sub[s].phase

\* Mutant of ResetOtherFinals: id = $4 instead of id != $4.
ResetThisFinal(s) ==
  [r \in Subs |-> IF r = s THEN [sub[r] EXCEPT !.final = FALSE] ELSE sub[r]]

ResetOtherFinals(s) ==
  [r \in Subs |-> IF r # s /\ SameSlot(s, r)
                    THEN [sub[r] EXCEPT !.final = FALSE] ELSE sub[r]]

\* GetSubmissionByID and ResetOtherFinalSubmissions of MarkFinal.
MarkFinal(h, s) ==
  /\ SubExists(s)
  /\ sub' = ResetOtherFinals(s)
  /\ Begin(h, [Idle EXCEPT !.op = "final", !.sub = s])
  /\ UNCHANGED <<files, jobs, results, notSubs>>

MarkSubmissionFinal(h) ==
  LET r == req[h] IN
  /\ r.op = "final"
  /\ IF SubExists(r.sub)
       THEN sub' = [sub EXCEPT ![r.sub].final = TRUE] /\ Goto(h, [r EXCEPT !.op = "result"])
       ELSE Done(h) /\ UNCHANGED sub
  /\ UNCHANGED <<files, jobs, results, notSubs>>

EnqueueResult(h) ==
  /\ req[h].op = "result"
  /\ results' = results \cup {req[h].sub}
  /\ Done(h)
  /\ UNCHANGED <<sub, files, jobs, notSubs>>
=============================================================================
