------------------------------- MODULE Teams -------------------------------
(***************************************************************************)
(* Teams and their members (handlers/teams.go).  A user becomes a member   *)
(* by an invitation of the owner and an answer of her own; the owner is    *)
(* inserted by the second statement of Create.  Names and roles are left   *)
(* out.                                                                    *)
(***************************************************************************)
EXTENDS ContestTables

SetStatus(t, u, status) == member' = [member EXCEPT ![t][u] = status]

\* First statement of Create; a slug that is taken answers 409.
CreateTeam(h, uid, t) ==
  /\ team[t] = None
  /\ team' = [team EXCEPT ![t] = uid]
  /\ Begin(h, [Idle EXCEPT !.op = "owner", !.user = uid, !.on = t])
  /\ UNCHANGED <<member, agreed, notTeams>>

\* AddTeamMember upserts an accepted row; the team may be gone by now.
AddOwner(h) ==
  LET r == req[h] IN
  /\ r.op = "owner"
  /\ IF TeamExists(r.on) THEN SetStatus(r.on, r.user, "accepted") ELSE UNCHANGED member
  /\ Done(h)
  /\ UNCHANGED <<team, agreed, notTeams>>

\* team_id of contest_entries is ON DELETE RESTRICT, the members cascade.
DeleteTeam(uid, t) ==
  /\ team[t] = uid
  /\ \A e \in Entries : entry[e] # t
  /\ team' = [team EXCEPT ![t] = Gone]
  /\ member' = [member EXCEPT ![t] = [u \in Users |-> "absent"]]
  /\ agreed' = {a \in agreed : a[1] # t}
  /\ OneStatement
  /\ UNCHANGED notTeams

\* Mutant of InviteTeamMember: the statement of AddTeamMember.
InviteAccepts(t, u) == member' = [member EXCEPT ![t][u] = "accepted"]

\* InviteTeamMember: ON CONFLICT DO NOTHING.
InviteTeamMember(t, u) ==
  member' = IF member[t][u] = "absent" THEN [member EXCEPT ![t][u] = "pending"]
                                       ELSE member

AddMember(uid, t, u) ==
  /\ team[t] = uid
  /\ u # uid
  /\ InviteTeamMember(t, u)
  /\ OneStatement
  /\ UNCHANGED <<team, agreed, notTeams>>

AcceptInvitation(uid, t) ==
  /\ member[t][uid] = "pending"
  /\ SetStatus(t, uid, "accepted")
  /\ agreed' = agreed \cup {<<t, uid>>}
  /\ OneStatement
  /\ UNCHANGED <<team, notTeams>>

DeclineInvitation(uid, t) ==
  /\ member[t][uid] = "pending"
  /\ SetStatus(t, uid, "absent")
  /\ OneStatement
  /\ UNCHANGED <<team, agreed, notTeams>>

\* The owner may remove any member, herself included; a removed member needs
\* a new invitation.
RemoveMember(uid, t, u) ==
  /\ team[t] = uid
  /\ SetStatus(t, u, "absent")
  /\ agreed' = agreed \ {<<t, u>>}
  /\ OneStatement
  /\ UNCHANGED <<team, notTeams>>
=============================================================================
