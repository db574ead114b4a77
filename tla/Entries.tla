------------------------------ MODULE Entries ------------------------------
(***************************************************************************)
(* Contest entries and their line-ups (handlers/entries.go and             *)
(* entry-members.go).  Create reads the contest, inserts the entry, then   *)
(* fills the line-up one row at a time and ignores what fails there.  The  *)
(* status of an entry is left out: see LeaderboardBridge.                  *)
(***************************************************************************)
EXTENDS ContestTables

\* Practice entries wait for the end of the contest, official ones precede it.
ModeOpen(m) == CASE m = "practice" -> contest = "ended"
                 [] m = "official" -> contest = "open"
                 [] OTHER -> contest # Gone

\* Mutant of SlotFree: the index on users is missing.
SlotFreeOfTeam(on, m) == on \in Users \/ \A f \in Entries : entry[f] # on \/ mode[f] # m

\* The partial unique indexes uq_entries_user_per_mode and _team_per_mode.
SlotFree(on, m) == \A f \in Entries : entry[f] # on \/ mode[f] # m

\* The checks of Create: extra is LineupUserIDs, read for individuals only.
CreateEntry(h, uid, on, m, extra) ==
  /\ ModeOpen(m)
  /\ Begin(h, [Idle EXCEPT !.op = "entry", !.user = uid, !.on = on, !.mode = m,
                           !.users = IF on \in Teams THEN {} ELSE extra \ {uid}])
  /\ UNCHANGED <<entryVars, notEntries>>

\* CreateContestEntry; a violated constraint answers 500.
InsertEntry(h, e) ==
  LET r == req[h] IN
  /\ r.op = "entry"
  /\ entry[e] = None
  /\ IF /\ SlotFree(r.on, r.mode)
        /\ contest # Gone /\ (r.on \in Teams => TeamExists(r.on))
       THEN /\ entry' = [entry EXCEPT ![e] = r.on]
            /\ mode' = [mode EXCEPT ![e] = r.mode]
            /\ Goto(h, [r EXCEPT !.op = "leader", !.entry = e])
       ELSE Done(h) /\ UNCHANGED <<entry, mode>>
  /\ UNCHANGED <<lineup, notEntries>>

\* AddEntryMember needs the entry's row and does nothing when it is gone.
AddEntryMember(e, u) ==
  lineup' = IF EntryExists(e) THEN [lineup EXCEPT ![e] = @ \cup {u}] ELSE lineup

\* The registering user leads the line-up; the members follow.
AddLeader(h) ==
  LET r == req[h] IN
  /\ r.op = "leader"
  /\ AddEntryMember(r.entry, r.user)
  /\ Goto(h, [r EXCEPT !.op = IF r.on \in Teams THEN "list" ELSE "members"])
  /\ UNCHANGED <<entry, mode, notEntries>>

\* ListTeamMembers, of which the accepted ones enter.
ListMembers(h) ==
  LET r == req[h] IN
  /\ r.op = "list"
  /\ Goto(h, [r EXCEPT !.op = "members",
                       !.users = {u \in Users \ {r.user} : member[r.on][u] = "accepted"}])
  /\ UNCHANGED <<entryVars, notEntries>>

AddLineup(h) ==
  LET r == req[h] IN
  /\ r.op = "members"
  /\ \/ \E u \in r.users : /\ AddEntryMember(r.entry, u)
                           /\ Goto(h, [r EXCEPT !.users = @ \ {u}])
     \/ r.users = {} /\ Done(h) /\ UNCHANGED lineup
  /\ UNCHANGED <<entry, mode, notEntries>>

\* POST and DELETE /entries/:id/members.
AddMemberByHand(e, u) ==
  /\ EntryExists(e)
  /\ AddEntryMember(e, u)
  /\ OneStatement
  /\ UNCHANGED <<entry, mode, notEntries>>

\* Mutant of RemoveEntryMember: a line-up that submissions do not reference.
RemoveAnyMember(e, u) ==
  /\ lineup' = [lineup EXCEPT ![e] = @ \ {u}]
  /\ OneStatement
  /\ UNCHANGED <<entry, mode, notEntries>>

\* The foreign key of submissions keeps an author in the line-up.
RemoveEntryMember(e, u) ==
  /\ ~HasSubmitted(e, u)
  /\ lineup' = [lineup EXCEPT ![e] = @ \ {u}]
  /\ OneStatement
  /\ UNCHANGED <<entry, mode, notEntries>>

\* The line-up cascades; submissions keep their entry.
DeleteContestEntry(e) ==
  /\ EntryExists(e)
  /\ \A u \in Users : ~HasSubmitted(e, u)
  /\ entry' = [entry EXCEPT ![e] = Gone]
  /\ lineup' = [lineup EXCEPT ![e] = {}]
  /\ OneStatement
  /\ UNCHANGED <<mode, notEntries>>
=============================================================================
