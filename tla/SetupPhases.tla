---------------------------- MODULE SetupPhases ----------------------------
(***************************************************************************)
(* Phase definitions and phases (handlers/phase-defs.go,                   *)
(* handlers/phases.go).  Whoever lists the definitions of a contest first  *)
(* inserts the standard ones that are missing, one statement each.         *)
(***************************************************************************)
EXTENDS SetupTables

InsertDef(c, k) == defs' = [defs EXCEPT ![c] = @ \cup {k}]

CreatePhaseDef(c, k) ==
  /\ ContestExists(c) /\ k \notin defs[c]
  /\ InsertDef(c, k)
  /\ OneStatement
  /\ UNCHANGED <<contest, taskVars, phase, used, dropped>>

\* List reads the definitions and inserts the standard keys it has not seen;
\* when there is none it answers at once.
ListPhaseDefs(h, c) ==
  /\ contest[c] # "none"
  /\ ~(Keys \subseteq defs[c])
  /\ Begin(h, [Idle EXCEPT !.op = "seed", !.contest = c, !.keys = Keys \ defs[c]])
  /\ UNCHANGED <<contest, taskVars, phaseVars>>

\* The standard keys are gone through in their order.
IsFirst(k, keys) ==
  \E i \in DOMAIN StandardKeys :
    StandardKeys[i] = k /\ k \in keys /\ \A j \in 1 .. i - 1 : StandardKeys[j] \notin keys

\* The insert fails for a contest that is gone, and the request with it.
SeedPhaseDef(h) ==
  LET r == req[h] IN
  /\ r.op = "seed"
  /\ \E k \in Keys \ defs[r.contest] :
       /\ IsFirst(k, r.keys)
       /\ IF ContestExists(r.contest)
          THEN InsertDef(r.contest, k) /\ Goto(h, [r EXCEPT !.keys = @ \ {k}, !.seeded = TRUE])
          ELSE Done(h) /\ UNCHANGED defs
  /\ UNCHANGED <<contest, taskVars, phase, used, dropped, verified>>

\* Mutant of SeedConflict: whoever was first is left to insert the rest.
SeedConflictStops(h) ==
  LET r == req[h] IN
  /\ r.op = "seed"
  /\ \E k \in defs[r.contest] : IsFirst(k, r.keys) /\ Goto(h, [r EXCEPT !.keys = {}])
  /\ UNCHANGED <<contest, taskVars, phaseVars, verified>>

\* Another request has inserted the key in the meantime.
SeedConflict(h) ==
  LET r == req[h] IN
  /\ r.op = "seed"
  /\ \E k \in defs[r.contest] : IsFirst(k, r.keys) /\ Goto(h, [r EXCEPT !.keys = @ \ {k}])
  /\ UNCHANGED <<contest, taskVars, phaseVars, verified>>

\* The list is read again only by a request that has inserted a key; one
\* whose inserts all met a conflict answers with what it read at first.
SeedingEnds(h) ==
  LET r == req[h] IN
  /\ r.op = "seed" /\ r.keys = {}
  /\ IF r.seeded THEN Goto(h, [r EXCEPT !.op = "relist"]) ELSE Done(h)
  /\ UNCHANGED <<contest, taskVars, phaseVars, verified>>

Relist(h) ==
  /\ req[h].op = "relist"
  /\ Done(h)
  /\ UNCHANGED <<contest, taskVars, phaseVars, verified>>

\* Since the migration 20260616120000 the phases of a definition cascade.
DeletePhaseDef(c, k) ==
  /\ k \in defs[c]
  /\ Unused(PhasesBy(<<c, k>>))
  /\ defs' = [defs EXCEPT ![c] = @ \ {k}]
  /\ dropped' = dropped \cup {<<c, k>>}
  /\ phase' = [p \in Phases |-> IF p \in PhasesBy(<<c, k>>) THEN Gone ELSE phase[p]]
  /\ OneStatement
  /\ UNCHANGED <<contest, taskVars, used>>

\* Mutant of PhaseRefs: the foreign key on the set names its id only.
PhaseRefsOfAnyTask(t, d, k) ==
  TaskExists(t) /\ d[2] \in defs[d[1]] /\ \E u \in Tasks : k \in sets[u]
\* The foreign keys of phases: the set is one of the task, the definition
\* may be that of any contest.
PhaseRefs(t, d, k) == TaskExists(t) /\ d[2] \in defs[d[1]] /\ k \in sets[t]

NewPhase(t, d, k, limit) ==
  [task |-> t, def |-> d, set |-> k, limit |-> limit, frozen |-> FALSE]

CreatePhase(p, t, d, k, limit) ==
  /\ phase[p] = None
  /\ PhaseRefs(t, d, k)
  /\ \A q \in PhasesOf(t) : phase[q].def # d
  /\ phase' = [phase EXCEPT ![p] = NewPhase(t, d, k, limit)]
  /\ OneStatement
  /\ UNCHANGED <<contest, taskVars, defs, used, dropped>>

\* What UpdatePhase leaves out of its request stays.
UpdatedPhase(row, limit, frozen) ==
  [row EXCEPT !.limit = Coalesce(limit, @), !.frozen = Coalesce(frozen, @)]
UpdatePhase(p, limit, frozen) ==
  /\ PhaseExists(p)
  /\ phase' = [phase EXCEPT ![p] = UpdatedPhase(@, limit, frozen)]
  /\ OneStatement
  /\ UNCHANGED <<contest, taskVars, defs, used, dropped>>

SetPhaseFrozen(p, frozen) ==
  /\ PhaseExists(p)
  /\ phase' = [phase EXCEPT ![p].frozen = frozen]
  /\ OneStatement
  /\ UNCHANGED <<contest, taskVars, defs, used, dropped>>

DeletePhase(p) ==
  /\ PhaseExists(p) /\ Unused({p})
  /\ phase' = [phase EXCEPT ![p] = Gone]
  /\ OneStatement
  /\ UNCHANGED <<contest, taskVars, defs, used, dropped>>

\* A participant's first submission to a phase; Registration has it in full.
Submit(p) ==
  /\ PhaseExists(p)
  /\ used' = used \cup {p}
  /\ UNCHANGED <<contest, taskVars, defs, phase, dropped, req, begun, verified>>
=============================================================================
