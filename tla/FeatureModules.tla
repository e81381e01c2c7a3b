--------------------------- MODULE FeatureModules ---------------------------
(***************************************************************************)
(* The feature modules of a company (feature-modules.service.ts): switched *)
(* on by its plan, by an add-on, or by the owner.  Every call reads rows   *)
(* of company_modules and writes them one by one, without a transaction.   *)
(* A second row of a module is refused by the unique constraint, and the   *)
(* call ends there.                                                        *)
(***************************************************************************)
EXTENDS Naturals, FiniteSets, Awaits

CONSTANTS
  ModuleIds,
  Plans,     \* subscription plans
  ModulesOf, \* the modules of each plan
  Presets    \* the modules recommended to each kind of business

ModulesAssumption ==
  /\ ModulesOf \in [Plans -> (SUBSET ModuleIds) \ {{}}]
  /\ None \notin ModuleIds \cup Plans

VARIABLES
  modules, \* rows of company_modules
  inStep   \* the plan of the last complete synchronisation, if nothing since
           \* then was about another plan (history)

vars == <<modules, inStep, pc, local, overlapped>>

Rows == [source : {"none", "plan", "addon", "manual"}, active : BOOLEAN]
NoRow == [source |-> "none", active |-> FALSE]
On(source) == [source |-> source, active |-> TRUE]
Present(m) == modules[m] # NoRow
FromPlan == {m \in ModuleIds : modules[m].source = "plan"}

Steps == {"idle", "deactivating", "enabling", "writing", "choosing", "presetting"}
\* existing: the rows that were found; todo: the modules still to be written;
\* one: the module that was looked for last.
Locals == [plan : OrNone(Plans), existing : SUBSET ModuleIds, todo : SUBSET ModuleIds,
           one : OrNone(ModuleIds), row : Rows]
NoLocal == [plan |-> None, existing |-> {}, todo |-> {}, one |-> None, row |-> NoRow]

Init ==
  /\ modules = [m \in ModuleIds |-> NoRow]
  /\ inStep = None
  /\ AllIdle(NoLocal)

Return(h) == Goto(h, "idle") /\ Hold(h, NoLocal)
Write(m, row) == modules' = [modules EXCEPT ![m] = row]
\* Rows are never deleted: only the INSERT of one that has come meanwhile fails.
Written(h, m) == m \in local[h].existing \/ ~Present(m)

-----------------------------------------------------------------------------
\* syncModulesForPlan, after a plan was chosen or taken away.
\* Mutant: rows of every source are looked for.
SyncAll(h, p) ==
  /\ pc[h] = "idle"
  /\ Goto(h, "deactivating")
  /\ Hold(h, [NoLocal EXCEPT !.plan = p, !.existing = {m \in ModuleIds : Present(m)}, !.todo = ModulesOf[p]])
  /\ inStep' = None
  /\ UNCHANGED modules
Sync(h, p) ==
  /\ pc[h] = "idle"
  /\ Goto(h, "deactivating")
  /\ Hold(h, [NoLocal EXCEPT !.plan = p, !.existing = FromPlan, !.todo = ModulesOf[p]])
  /\ inStep' = None
  /\ UNCHANGED modules

\* What came with a plan and is not in this one; the statement looks at the
\* source again.
Deactivate(h) ==
  /\ pc[h] = "deactivating"
  /\ modules' = [m \in ModuleIds |->
       IF m \in FromPlan \cap (local[h].existing \ ModulesOf[local[h].plan])
         THEN [modules[m] EXCEPT !.active = FALSE] ELSE modules[m]]
  /\ Goto(h, "enabling")
  /\ UNCHANGED <<inStep, local>>

\* One module of the plan after the other: UPDATE of a row that was found,
\* whatever has become of it, INSERT of another.
Enable(h, m) ==
  LET left == local[h].todo \ {m} IN
  /\ pc[h] = "enabling"
  /\ m \in local[h].todo
  /\ IF Written(h, m) THEN Write(m, On("plan")) ELSE UNCHANGED modules
  /\ IF Written(h, m) /\ left # {}
       THEN Hold(h, [local[h] EXCEPT !.todo = left]) /\ UNCHANGED pc
       ELSE Return(h)
  /\ inStep' = IF Written(h, m) /\ left = {} THEN local[h].plan ELSE inStep

-----------------------------------------------------------------------------
\* activateFromAddon and toggleModule: find, then UPDATE or INSERT.
Find(h, m, row) ==
  /\ pc[h] = "idle"
  /\ Goto(h, "writing")
  /\ Hold(h, [NoLocal EXCEPT !.existing = {m} \cap {n \in ModuleIds : Present(n)}, !.one = m, !.row = row])
  /\ UNCHANGED <<modules, inStep>>
ActivateFromAddon(h, m) == Find(h, m, On("addon"))
\* A module without a row is not switched off.
Toggle(h, m) ==
  \E active \in BOOLEAN :
    (active \/ Present(m)) /\ Find(h, m, [source |-> "manual", active |-> active])
WriteFound(h) ==
  LET m == local[h].one IN
  /\ pc[h] = "writing"
  /\ IF Written(h, m) THEN Write(m, local[h].row) ELSE UNCHANGED modules
  /\ Return(h)
  /\ UNCHANGED inStep

\* applyIndustryPreset: what is recommended and in the plan, as the client names
\* it; one module after the other is looked for, then written.
ApplyPreset(h, preset, p) ==
  /\ pc[h] = "idle"
  /\ preset \cap ModulesOf[p] # {}
  /\ Goto(h, "choosing")
  /\ Hold(h, [NoLocal EXCEPT !.todo = preset \cap ModulesOf[p]])
  /\ inStep' = IF inStep = p THEN inStep ELSE None
  /\ UNCHANGED modules
Choose(h, m) ==
  /\ pc[h] = "choosing"
  /\ m \in local[h].todo
  /\ Hold(h, [local[h] EXCEPT !.existing = {m} \cap {n \in ModuleIds : Present(n)}, !.one = m])
  /\ Goto(h, "presetting")
  /\ UNCHANGED <<modules, inStep>>
\* A row that is there keeps its source.
WriteChosen(h) ==
  LET m == local[h].one
      left == local[h].todo \ {m} IN
  /\ pc[h] = "presetting"
  /\ IF Written(h, m) THEN Write(m, On(IF Present(m) THEN modules[m].source ELSE "manual"))
                      ELSE UNCHANGED modules
  /\ IF Written(h, m) /\ left # {}
       THEN Hold(h, [NoLocal EXCEPT !.todo = left]) /\ Goto(h, "choosing")
       ELSE Return(h)
  /\ UNCHANGED inStep

-----------------------------------------------------------------------------
HandlerStep(h) ==
  \/ \E p \in Plans : Sync(h, p) \/ \E preset \in Presets : ApplyPreset(h, preset, p)
  \/ Deactivate(h) \/ WriteFound(h) \/ WriteChosen(h)
  \/ \E m \in ModuleIds :
       Enable(h, m) \/ ActivateFromAddon(h, m) \/ Toggle(h, m) \/ Choose(h, m)

Next == \E h \in Handlers : HandlerStep(h) /\ Overlap(h)

Spec == Init /\ [][Next]_vars

-----------------------------------------------------------------------------
\* Types; and what calls the rows of a plan by it, as long as no others overlapped:
\* after a complete synchronisation, no module is on because of another plan.
TypeOK ==
  /\ modules \in [ModuleIds -> Rows]
  /\ inStep \in OrNone(Plans)
  /\ pc \in [Handlers -> Steps]
  /\ local \in [Handlers -> Locals]
  /\ overlapped \in BOOLEAN
  /\ ~overlapped /\ inStep # None =>
       \A m \in FromPlan : modules[m].active => m \in ModulesOf[inStep]

\* As long as calls do not overlap: a synchronisation leaves alone what an add-on
\* or the owner has switched, and when it is complete all of the plan is on.
OthersKept == ~overlapped' =>
  /\ (\E h \in Handlers : pc[h] \in {"deactivating", "enabling"}) =>
       \A m \in ModuleIds : Present(m) /\ m \notin FromPlan => modules'[m] = modules[m]
  /\ inStep = None /\ inStep' # None => \A m \in ModulesOf[inStep'] : modules'[m].active
=============================================================================
