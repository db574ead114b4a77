-------------------------- MODULE OfficialWorker --------------------------
(***************************************************************************)
(* The official judge worker, backend/workers/app, beside the volunteers:  *)
(* the service worker-judge of docker-compose.yml reads jobs:judge in the  *)
(* consumer group that DequeueOne uses as well, and writes submissions by  *)
(* their id alone.  Its acknowledgement deletes nothing from the stream.   *)
(***************************************************************************)
EXTENDS JudgePipeline

CONSTANT Batch      \* the count of XREADGROUP

VARIABLE official   \* the one process: where it is and the entries it read

allVars == <<vars, official>>

\* again: an error went through __call__, and consume_forever marks as well.
Waits == [pc |-> "read", batch |-> <<>>, again |-> FALSE]

OfficialInit == Init /\ official = Waits

Unread == {i \in DOMAIN stream : ~stream[i].delivered}
Current == Head(official.batch)
At(pc) == official.pc = pc
Go(pc) == official' = [official EXCEPT !.pc = pc]

Untouched == UNCHANGED <<uploads, claim, nextAttempt, req, watch, jobs, wstatus>>
NoTable == UNCHANGED <<status, resultBy, results>> /\ Untouched
-----------------------------------------------------------------------------
\* XREADGROUP with ">": the next entries that the group has not delivered.
Read ==
  LET first == {i \in Unread : Cardinality({k \in Unread : k < i}) < Batch}
      entries == SetToSortSeq(first, <)
  IN  /\ At("read") /\ Unread # {}
      /\ stream' = [i \in DOMAIN stream |->
           IF i \in first THEN [stream[i] EXCEPT !.delivered = TRUE]
           ELSE stream[i]]
      /\ official' = [Waits EXCEPT !.pc = "start",
           !.batch = [k \in DOMAIN entries |-> stream[entries[k]].sub]]
      /\ NoTable

\* mark_running, whatever the status is and whoever holds a claim.
Start ==
  /\ At("start")
  /\ status' = [status EXCEPT ![Current] = "running"]
  /\ Go("judge")
  /\ UNCHANGED <<resultBy, results, stream>> /\ Untouched

\* A lookup failed: only consume_forever marks the submission.
StartFails ==
  /\ At("start") /\ Go("fail")
  /\ UNCHANGED stream /\ NoTable

\* mark_done replaces the result of any volunteer.
MarkDone ==
  /\ At("judge")
  /\ status' = [status EXCEPT ![Current] = "done"]
  /\ resultBy' = [resultBy EXCEPT ![Current] = 0]
  /\ Go("announce")
  /\ UNCHANGED <<results, stream>> /\ Untouched

Announce ==
  /\ At("announce")
  /\ results' = results \cup {[sub |-> Current, attempt |-> 0]}
  /\ Go("ack")
  /\ UNCHANGED <<status, resultBy, stream>> /\ Untouched

\* The judge failed, or the announcement of a committed result.
RunFails ==
  /\ At("judge") \/ At("announce")
  /\ official' = [official EXCEPT !.pc = "fail", !.again = TRUE]
  /\ UNCHANGED stream /\ NoTable

MarkFailed ==
  /\ At("fail")
  /\ status' = [status EXCEPT ![Current] = "failed"]
  /\ Go("announce_failed")
  /\ UNCHANGED <<resultBy, results, stream>> /\ Untouched

\* mark_failed ends, also by an error; __call__ raises the first one again.
MarkFailedEnds ==
  official' = IF official.again
              THEN [official EXCEPT !.pc = "fail", !.again = FALSE]
              ELSE [official EXCEPT !.pc = "ack"]

AnnounceFailed ==
  /\ At("announce_failed")
  /\ results' = results \cup {[sub |-> Current, attempt |-> 0]}
  /\ MarkFailedEnds
  /\ UNCHANGED <<status, resultBy, stream>> /\ Untouched

MarkFailedFails ==
  /\ At("fail") \/ At("announce_failed")
  /\ MarkFailedEnds
  /\ UNCHANGED stream /\ NoTable

\* XACK; the next entry of the batch, or the next read.
AckEntry ==
  /\ At("ack")
  /\ official' = IF Len(official.batch) = 1 THEN Waits
                 ELSE [official EXCEPT !.pc = "start", !.batch = Tail(@)]
  /\ UNCHANGED stream /\ NoTable

\* A restarted process reads new entries only: the rest of the batch is lost.
OfficialCrash ==
  /\ official # Waits
  /\ official' = Waits
  /\ UNCHANGED stream /\ NoTable
-----------------------------------------------------------------------------
OfficialStep ==
  \/ Read \/ Start \/ StartFails \/ MarkDone \/ Announce \/ RunFails
  \/ MarkFailed \/ AnnounceFailed \/ MarkFailedFails \/ AckEntry
  \/ OfficialCrash

OfficialNext == OfficialStep \/ (Next /\ UNCHANGED official)

OfficialSpec == OfficialInit /\ [][OfficialNext]_allVars
-----------------------------------------------------------------------------
\* What the pages of the client rely on when they poll until a submission is
\* done or failed: a finished submission is not judged once more.
FinishedNotJudgedAgain ==
  [][\A s \in Submissions :
       status[s] \in Terminal => status'[s] # "running"]_allVars

=============================================================================
