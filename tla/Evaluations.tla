---------------------------- MODULE Evaluations ----------------------------
(***************************************************************************)
(* A cycle of personnel evaluations and one evaluation of it               *)
(* (evaluations.service.ts): managers open the cycle and publish it, the   *)
(* evaluator saves answers, one category after the other, and submits      *)
(* them for a score.  Others of the cycle share only its row.              *)
(*                                                                         *)
(* No handler opens a transaction.  saveAnswers and the handlers of the    *)
(* cycle save the entity as they read it; what is said of overlapping      *)
(* handlers is about the row of the evaluation, whose saves are modelled   *)
(* in two statements.                                                      *)
(***************************************************************************)
EXTENDS Naturals, FiniteSetsExt, Awaits

CONSTANTS
  Categories, \* those that are scored; a remark alone is an answer without score
  Scores

ScoresAssumption == Scores \subseteq Nat /\ IsFiniteSet(Categories) /\ None \notin Nat

VARIABLES
  cycle,      \* the row of evaluation_cycles
  evaluation, \* the row of evaluations
  answers,    \* the score in each row of evaluation_answers, by category
  torn        \* the evaluation changed between the SELECT and the UPDATE of a save (history)

vars == <<cycle, evaluation, answers, pc, local, overlapped, torn>>

CycleStatuses == {"draft", "active", "closed"}
Cycles == [status : CycleStatuses, published : BOOLEAN]

\* total is total_score in hundredths, submitted_at goes with it.
Statuses == {"none", "pending", "in_progress", "submitted"}
Rows == [status : Statuses, total : OrNone(Nat)]
NoRow == [status |-> "none", total |-> None]
Answers == [Categories -> OrNone(Scores)]
NoAnswers == [k \in Categories |-> None]

Steps == {"idle", "adding", "changing", "answering", "storing", "scoring", "saving", "updating"}

\* items: the categories still to be saved, with scores; found: what is stored
\* of the next one.
Draft == [status |-> "draft", published |-> FALSE]
NoLocal == [cycle |-> Draft, row |-> NoRow, cols |-> {}, items |-> {}, scores |-> NoAnswers,
            next |-> None, found |-> None]

\* createCycle has saved the row; its addParticipants is the one below.
Init ==
  /\ cycle = Draft
  /\ evaluation = NoRow
  /\ answers = NoAnswers
  /\ torn = FALSE
  /\ AllIdle(NoLocal)

Return(h) == Goto(h, "idle") /\ Hold(h, NoLocal)

-----------------------------------------------------------------------------
(***************************************************************************)
(* The cycle.                                                              *)
(***************************************************************************)
\* addParticipants looks for the evaluation and inserts it later; the unique
\* index refuses a second one.
Add(h) ==
  /\ pc[h] = "idle"
  /\ evaluation.status = "none"
  /\ Goto(h, "adding")
  /\ UNCHANGED <<cycle, evaluation, answers, local>>
AddSave(h) ==
  /\ pc[h] = "adding"
  /\ evaluation' = IF evaluation.status = "none" THEN [NoRow EXCEPT !.status = "pending"]
                                                 ELSE evaluation
  /\ Return(h)
  /\ UNCHANGED <<cycle, answers>>

ChangeCycle(h, row) ==
  /\ pc[h] = "idle"
  /\ Goto(h, "changing")
  /\ Hold(h, [NoLocal EXCEPT !.cycle = row])
  /\ UNCHANGED <<cycle, evaluation, answers>>

\* updateCycle changes names, dates and who may see what; the rest of the row is
\* written with it.
UpdateCycle(h) == cycle.status # "closed" /\ ChangeCycle(h, cycle)
ActivateCycle(h) == cycle.status = "draft" /\ ChangeCycle(h, [cycle EXCEPT !.status = "active"])
PublishCycle(h) ==
  ChangeCycle(h, [status |-> IF cycle.status = "active" THEN "closed" ELSE cycle.status,
                  published |-> TRUE])

SaveCycle(h) ==
  /\ pc[h] = "changing"
  /\ cycle' = local[h].cycle
  /\ Return(h)
  /\ UNCHANGED <<evaluation, answers>>

-----------------------------------------------------------------------------
(***************************************************************************)
(* The evaluator.                                                          *)
(***************************************************************************)
\* Mutant: answers are also taken after the evaluation was submitted.
AnswerAny(h, items, scores) ==
  /\ pc[h] = "idle"
  /\ evaluation.status # "none"
  /\ cycle.status = "active"
  /\ Goto(h, "answering")
  /\ Hold(h, [NoLocal EXCEPT !.row = evaluation, !.items = items, !.scores = scores])
  /\ UNCHANGED <<cycle, evaluation, answers>>
\* saveAnswers: the checks.
Answer(h, items, scores) ==
  /\ pc[h] = "idle"
  /\ evaluation.status \in {"pending", "in_progress"}
  /\ cycle.status = "active"
  /\ Goto(h, "answering")
  /\ Hold(h, [NoLocal EXCEPT !.row = evaluation, !.items = items, !.scores = scores])
  /\ UNCHANGED <<cycle, evaluation, answers>>

\* The stored answer of the next item.
AnswerFind(h, k) ==
  /\ pc[h] = "answering"
  /\ k \in local[h].items
  /\ Goto(h, "storing")
  /\ Hold(h, [local[h] EXCEPT !.items = @ \ {k}, !.next = k, !.found = answers[k]])
  /\ UNCHANGED <<cycle, evaluation, answers>>
\* An item without score keeps the score that was read.
AnswerSave(h) ==
  LET read == local[h] k == local[h].next IN
  /\ pc[h] = "storing"
  /\ answers' = [answers EXCEPT ![k] = IF read.scores[k] = None THEN read.found ELSE read.scores[k]]
  /\ Goto(h, "answering")
  /\ Hold(h, [read EXCEPT !.next = None, !.found = None])
  /\ UNCHANGED <<cycle, evaluation>>

\* A pending evaluation is saved as it was read, but begun.
AnswersSaved(h) ==
  /\ pc[h] = "answering"
  /\ local[h].items = {}
  /\ IF local[h].row.status = "pending"
     THEN Goto(h, "saving") /\ Hold(h, [local[h] EXCEPT !.row.status = "in_progress"])
     ELSE Return(h)
  /\ UNCHANGED <<cycle, evaluation, answers>>

\* The average of what is scored, in hundredths, rounded.
Scored(scores) == {k \in Categories : scores[k] # None}
Total(scores) ==
  LET n == Cardinality(Scored(scores)) IN
  (200 * MapThenSumSet(LAMBDA k : scores[k], Scored(scores)) + n) \div (2 * n)

\* submitEvaluation asks for the status of the evaluation, not of the cycle.
Submit(h) ==
  /\ pc[h] = "idle"
  /\ evaluation.status \in {"pending", "in_progress"}
  /\ Goto(h, "scoring")
  /\ Hold(h, [NoLocal EXCEPT !.row = evaluation])
  /\ UNCHANGED <<cycle, evaluation, answers>>
SubmitScore(h) ==
  /\ pc[h] = "scoring"
  /\ IF Scored(answers) = {} THEN Return(h)
     ELSE /\ Goto(h, "saving")
          /\ Hold(h, [local[h] EXCEPT !.row = [status |-> "submitted", total |-> Total(answers)],
                                      !.cols = {"total"}])
  /\ UNCHANGED <<cycle, evaluation, answers>>

\* evalRepo.save, of saveAnswers and of submitEvaluation.
SaveSelect(h) == Compare(h, evaluation) /\ UNCHANGED <<cycle, evaluation, answers>>
Save(h) ==
  /\ pc[h] = "updating"
  /\ evaluation' = Merged(evaluation, local[h].row, local[h].cols)
  /\ Return(h)
  /\ UNCHANGED <<cycle, answers>>

-----------------------------------------------------------------------------
HandlerStep(h) ==
  \/ Add(h) \/ AddSave(h) \/ UpdateCycle(h) \/ ActivateCycle(h) \/ PublishCycle(h) \/ SaveCycle(h)
  \/ \E items \in SUBSET Categories : \E scores \in Answers :
       /\ Scored(scores) \subseteq items
       /\ Answer(h, items, scores)
  \/ (\E k \in Categories : AnswerFind(h, k)) \/ AnswerSave(h) \/ AnswersSaved(h)
  \/ Submit(h) \/ SubmitScore(h) \/ SaveSelect(h) \/ Save(h)

Tear(h) ==
  torn' = (torn \/ (evaluation' # evaluation /\ \E g \in Handlers \ {h} : pc[g] = "updating"))

Next == \E h \in Handlers : HandlerStep(h) /\ Overlap(h) /\ Tear(h)

Spec == Init /\ [][Next]_vars

-----------------------------------------------------------------------------
TypeOK ==
  /\ cycle \in Cycles
  /\ evaluation \in Rows
  /\ answers \in Answers
  /\ pc \in [Handlers -> Steps]
  /\ local \in [Handlers -> [cycle : Cycles, row : Rows, cols : SUBSET DOMAIN NoRow,
                             items : SUBSET Categories, scores : Answers,
                             next : OrNone(Categories), found : OrNone(Scores)]]
  /\ overlapped \in BOOLEAN /\ torn \in BOOLEAN

\* However handlers interleave, unless an UPDATE fell between the two statements of
\* another save, an evaluation has a score exactly when it is submitted; and as long
\* as they do not overlap it is that of its answers.
ScoreOfAnswers ==
  /\ ~torn => (evaluation.status = "submitted" <=> evaluation.total # None)
  /\ ~overlapped /\ evaluation.status = "submitted" =>
       Scored(answers) # {} /\ evaluation.total = Total(answers)

\* As long as handlers do not overlap: what is submitted stays, and a published
\* cycle that was closed stays closed and collects no more answers.
ScoreStands ==
  ~overlapped' =>
    /\ evaluation.status = "submitted" => UNCHANGED <<evaluation, answers>>
    /\ cycle.status = "closed" => UNCHANGED <<cycle, answers>>
    /\ cycle.published => cycle'.published
=============================================================================
