------------------------ MODULE ChangeLifecycleProofs ------------------------
(***************************************************************************)
(* What ChangeLifecycle promises for every set of runs and every number of *)
(* drafts.  The properties are about runs and drafts; what makes them      *)
(* inductive is what a command may count on at each of its steps: which    *)
(* steps belong to a preparation, which to the start of a run, which to a  *)
(* run that is listed.                                                     *)
(***************************************************************************)
EXTENDS ChangeLifecycle, AnalysisCache, Cleaning, TLAPS

\* Steps between the check that no run is unfinished and the run's own listing.
StartLabels == {"implement", "executing", "createRun", "addRun", "listRun"}

\* Steps that write state-index.json in place.
StampLabels == {"validIndex", "reviewIndex", "approveIndex", "draftIndex",
                "doneIndex"}

\* A preparation and a start have no listed run beside them; later steps work on a
\* listed one; an abandonment has the rest of the list before it.
ControlOK ==
    /\ pc \in PrepareLabels \cup StartLabels => index.list = {}
    /\ pc \in RunLabels \cup AbandonLabels => cur \in Run
    /\ pc \in RunLabels \ {"addRun", "listRun"} => cur \in index.list
    /\ pc = "abandonNext" => index.list \subseteq left
    /\ pc \in AbandonLabels => index.list \subseteq left \cup {cur}
    /\ ~index.readable => pc = "idle" \/ pc \in StampLabels
    /\ pc = "listRun" => cur \in index.entries

\* The record of the change lists one run, with an entry.
ListOK ==
    /\ ListedHaveEntries
    /\ \A r, s \in index.list : r = s
    /\ ~index.known => index.list = {}

\* Drafts: what is approved, what a listed run was given.
DraftsOK ==
    /\ plan.approved => content \in approved
    /\ pc \in {"addPlan", "source", "notePlan", "planner"} => ~plan.approved
    /\ pc \in StartLabels \ {"implement"} => plan.approved
    /\ index.list # {} => content \in approved
    /\ \A r \in index.list : ranOn[r] \subseteq {content}
    /\ \A r \in Run : runs[r] = "unused" => ranOn[r] = {}
    /\ \A r \in index.list : runs[r] # "unused"
    /\ pc \in {"addRun", "listRun"} => runs[cur] # "unused" /\ ranOn[cur] = {}
    /\ PlanPinned
    /\ OnlyApprovedRuns

\* Runs are delisted only when they are abandoned or completed.
UnfinishedOK ==
    /\ UnfinishedAreListed
    /\ pc = "abandonList" => cur \in abandoned
    /\ pc \in {"doneIndex", "delist"} => runs[cur] = "completed"

IInv == TypeOK /\ ControlOK /\ ListOK /\ DraftsOK /\ UnfinishedOK

-----------------------------------------------------------------------------

\* The initial state has the invariant.
LEMMA InitInv == Init => IInv
  <1> SUFFICES ASSUME Init PROVE IInv
    OBVIOUS
  <1>0. /\ plan \in Plan /\ index \in Index
        /\ content \in Drafts /\ pc \in Labels
    BY LifecycleAssumption
    DEF LifecycleAssumption, Init, Plan, Index, EmptyIndex, Drafts, Labels
  <1>1. TypeOK
    BY <1>0 DEF Init, TypeOK, Phases
  <1>2. pc \notin PrepareLabels \cup RunLabels \cup AbandonLabels \cup StartLabels
    BY DEF Init, PrepareLabels, RunLabels, AbandonLabels, StartLabels
  <1>3. ControlOK /\ ListOK
    BY <1>2 DEF Init, ControlOK, ListOK, ListedHaveEntries, EmptyIndex
  <1>4. DraftsOK
    BY <1>2 DEF Init, DraftsOK, PlanPinned, OnlyApprovedRuns, EmptyIndex, StartLabels
  <1>5. UnfinishedOK
    BY DEF Init, UnfinishedOK, UnfinishedAreListed, Unfinished
  <1> QED
    BY <1>1, <1>3, <1>4, <1>5 DEF IInv

\* Every action goes to a label.
LEMMA PcType == pc \in Labels /\ [Next]_vars => pc' \in Labels
  <1> SUFFICES ASSUME pc \in Labels, [Next]_vars PROVE pc' \in Labels
    OBVIOUS
  <1> USE DEF Labels, PrepareLabels, RunLabels, AbandonLabels,
          Step, PutPlan, TouchPlan, StampIndex, AddEntry, HasEntry, MarkEntry,
          SetList, Go, GiveWorkers, SetPhase
  <1>1. CASE Prepare
    BY <1>1 DEF Prepare
  <1>2. CASE ResetPlan
    BY <1>2 DEF ResetPlan
  <1>3. CASE AddPlan
    BY <1>3 DEF AddPlan
  <1>4. CASE WriteArtifacts
    BY <1>4 DEF WriteArtifacts
  <1>5. CASE NoteMetadata
    BY <1>5 DEF NoteMetadata
  <1>6. CASE Validate
    BY <1>6 DEF Validate
  <1>7. CASE Review
    BY <1>7 DEF Review
  <1>8. CASE Decide
    BY <1>8 DEF Decide
  <1>9. CASE Approve
    BY <1>9 DEF Approve
  <1>10. CASE Revise
    BY <1>10 DEF Revise
  <1>11. CASE Cancel
    BY <1>11 DEF Cancel
  <1>12. CASE Implement
    BY <1>12 DEF Implement
  <1>13. CASE AbandonNext
    BY <1>13 DEF AbandonNext
  <1>14. CASE Abandon
    BY <1>14 DEF Abandon
  <1>15. CASE StartRun
    BY <1>15 DEF StartRun
  <1>16. CASE MarkExecuting
    BY <1>16 DEF MarkExecuting
  <1>17. CASE CreateRun
    BY <1>17 DEF CreateRun
  <1>18. CASE ListRun
    BY <1>18 DEF ListRun
  <1>19. CASE Dispatch
    BY <1>19 DEF Dispatch
  <1>20. CASE Outcome
    BY <1>20 DEF Outcome
  <1>21. CASE Resume
    BY <1>21 DEF Resume
  <1>22. CASE Reactivate
    BY <1>22 DEF Reactivate
  <1>23. CASE Redispatch
    BY <1>23 DEF Redispatch
  <1>24. CASE ApplyPatches
    BY <1>24 DEF ApplyPatches
  <1>25. CASE PostStart
    BY <1>25 DEF PostStart
  <1>26. CASE TransitionToCompleted
    BY <1>26 DEF TransitionToCompleted
  <1>27. CASE CompleteWorkflow
    BY <1>27 DEF CompleteWorkflow
  <1>28. CASE Stop
    BY <1>28 DEF Stop
  <1>29. CASE RemoveIndex
    BY <1>29 DEF RemoveIndex
  <1>30. CASE UNCHANGED vars
    BY <1>30 DEF vars
  <1> QED
    BY <1>1, <1>2, <1>3, <1>4, <1>5, <1>6, <1>7, <1>8, <1>9, <1>10, <1>11,
       <1>12, <1>13, <1>14, <1>15, <1>16, <1>17, <1>18, <1>19, <1>20, <1>21,
       <1>22, <1>23, <1>24, <1>25, <1>26, <1>27, <1>28, <1>29, <1>30 DEF Next

-----------------------------------------------------------------------------
(* What each way of writing the files does, whatever the labels            *)

\* TypeOK but for the program counter and the approved drafts.
DataOK ==
    /\ plan \in Plan /\ content \in Drafts /\ index \in Index
    /\ runs \in [Run -> Phases]
    /\ open \in BOOLEAN
    /\ cur \in Run \cup {NoRun}
    /\ left \subseteq Run
    /\ ranOn \in [Run -> SUBSET Drafts]
    /\ abandoned \subseteq Run

\* Both plan states that preparations write anew are plan states.
LEMMA PlansTyped == DraftPlan \in Plan /\ ApprovedPlan \in Plan
  BY DEF DraftPlan, ApprovedPlan, Plan

\* A write in place of the plan state: begun and unreadable, or over.
LEMMA PutPlanFacts ==
  ASSUME DataOK, NEW l, NEW m, NEW new \in Plan, PutPlan(l, m, new)
  PROVE  /\ DataOK'
         /\ pc = l /\ pc' \in {l, m}
         /\ \/ pc' = l /\ ~open /\ plan'.approved = plan.approved
            \/ pc' = m /\ open /\ plan' = new
         /\ UNCHANGED <<content, indexVars, runVars, cur, left>>
  <1>1. CASE ~open
    BY <1>1 DEF DataOK, PutPlan, Step, Plan, indexVars, runVars
  <1>2. CASE open
    BY <1>2 DEF DataOK, PutPlan, Step, indexVars, runVars
  <1> QED
    BY <1>1, <1>2

\* The same of what was read: the approval stays.
LEMMA TouchPlanFacts ==
  ASSUME DataOK, NEW l, NEW m, TouchPlan(l, m)
  PROVE  /\ DataOK'
         /\ pc = l /\ pc' \in {l, m}
         /\ plan'.approved = plan.approved
         /\ UNCHANGED <<content, approved, indexVars, runVars, cur, left>>
  <1>1. /\ [plan EXCEPT !.readable = TRUE] \in Plan
        /\ [plan EXCEPT !.readable = TRUE].approved = plan.approved
    BY DEF DataOK, Plan
  <1> QED
    BY <1>1, PutPlanFacts DEF TouchPlan

\* A write in place of the index changes neither list nor entries.
LEMMA StampIndexFacts ==
  ASSUME DataOK, NEW l, NEW m, StampIndex(l, m)
  PROVE  /\ DataOK'
         /\ pc = l /\ pc' \in {l, m}
         /\ index'.readable \/ pc' = l
         /\ index'.known = index.known /\ index'.list = index.list
         /\ index'.entries = index.entries
         /\ UNCHANGED <<planVars, abandoned, runVars, cur, left>>
  BY DEF DataOK, StampIndex, Step, Index, planVars, runVars

\* An entry is added to an index that can be read.
LEMMA AddEntryFacts ==
  ASSUME DataOK, NEW l, NEW m, NEW id, AddEntry(l, m, id)
  PROVE  /\ id \in Run \cup {PlanEntry} => DataOK'
         /\ pc = l /\ pc' = m
         /\ index.readable /\ index'.readable
         /\ index'.known = index.known /\ index'.list = index.list
         /\ index'.entries = index.entries \cup {id}
         /\ UNCHANGED <<planVars, abandoned, runVars, cur, left>>
  BY DEF DataOK, AddEntry, Step, Index, planVars, runVars

\* An entry's status tells abandoned runs from others.
LEMMA MarkEntryFacts ==
  ASSUME DataOK, NEW l, NEW m, NEW now, MarkEntry(l, m, now)
  PROVE  /\ now \subseteq Run => DataOK'
         /\ pc = l /\ pc' = m
         /\ abandoned' = IF HasEntry(cur) THEN now ELSE abandoned
         /\ UNCHANGED <<planVars, index, runVars, cur, left>>
  BY DEF DataOK, MarkEntry, Step, planVars, runVars

\* The list of unfinished runs is replaced where the change has a record.
LEMMA SetListFacts ==
  ASSUME DataOK, NEW l, NEW m, NEW list, SetList(l, m, list)
  PROVE  /\ list \subseteq Run => DataOK'
         /\ pc = l /\ pc' = m
         /\ index.readable /\ index'.readable
         /\ index'.entries = index.entries
         /\ \/ index'.list = list /\ index'.known
            \/ index' = index /\ ~index.known /\ l # "listRun"
         /\ UNCHANGED <<planVars, abandoned, runVars, cur, left>>
  BY DEF DataOK, SetList, Step, Index, planVars, runVars

\* Nothing but the program counter.
LEMMA GoFacts ==
  ASSUME DataOK, NEW l, NEW m, Go(l, m)
  PROVE  /\ DataOK'
         /\ pc = l /\ pc' = m
         /\ UNCHANGED <<planVars, indexVars, runVars, cur, left>>
  BY DEF DataOK, Go, Step, planVars, indexVars, runVars

\* Workers of the run at hand are given the draft of the moment.
LEMMA GiveWorkersFacts ==
  ASSUME DataOK, NEW l, NEW m, GiveWorkers(l, m)
  PROVE  /\ cur \in Run => DataOK'
         /\ pc = l /\ pc' = m
         /\ ranOn' = [ranOn EXCEPT ![cur] = ranOn[cur] \cup {content}]
         /\ UNCHANGED <<planVars, indexVars, runs, cur, left>>
  BY DEF DataOK, GiveWorkers, Step, planVars, indexVars

\* The phase of the run at hand changes, and of no other.
LEMMA SetPhaseFacts ==
  ASSUME DataOK, NEW l, NEW m, NEW ph \in {"started", "applied", "completed"},
         SetPhase(l, m, ph)
  PROVE  /\ cur \in Run => DataOK'
         /\ pc = l /\ pc' = m
         /\ runs' = [runs EXCEPT ![cur] = ph]
         /\ UNCHANGED <<planVars, indexVars, ranOn, cur, left>>
  BY DEF DataOK, SetPhase, Step, planVars, indexVars, Phases

\* The types of all but the program counter and the ghost approvals.
LEMMA DataStep == DataOK /\ ControlOK /\ [Next]_vars => DataOK'
  <1> SUFFICES ASSUME DataOK, ControlOK, [Next]_vars PROVE DataOK'
    OBVIOUS
  <1>c. pc \in RunLabels \cup AbandonLabels => cur \in Run
    BY DEF ControlOK
  <1>l. index.list \subseteq Run
    BY DEF DataOK, Index
  <1>a. /\ abandoned \ {cur} \subseteq Run
        /\ cur \in Run => abandoned \cup {cur} \subseteq Run
    BY DEF DataOK
  <1>1. CASE Prepare
    BY <1>1, GoFacts
    DEF Prepare
  <1>2. CASE ResetPlan
    BY <1>2, PutPlanFacts, PlansTyped
    DEF ResetPlan
  <1>3. CASE AddPlan
    BY <1>3, AddEntryFacts
    DEF AddPlan
  <1>4. CASE WriteArtifacts
    BY <1>4, LifecycleAssumption
    DEF WriteArtifacts, DataOK, planVars, indexVars, runVars, Drafts,
        LifecycleAssumption, Step
  <1>5. CASE NoteMetadata
    BY <1>5, GoFacts, TouchPlanFacts
    DEF NoteMetadata
  <1>6. CASE Validate
    BY <1>6, GoFacts, TouchPlanFacts, StampIndexFacts
    DEF Validate
  <1>7. CASE Review
    BY <1>7, GoFacts, TouchPlanFacts, StampIndexFacts
    DEF Review
  <1>8. CASE Decide
    BY <1>8, GoFacts
    DEF Decide
  <1>9. CASE Approve
    BY <1>9, PutPlanFacts, StampIndexFacts, PlansTyped
    DEF Approve
  <1>10. CASE Revise
    BY <1>10, TouchPlanFacts, StampIndexFacts
    DEF Revise
  <1>11. CASE Cancel
    BY <1>11, TouchPlanFacts
    DEF Cancel
  <1>12. CASE Implement
    BY <1>12, <1>l
    DEF Implement, DataOK, planVars, indexVars, runVars, Step
  <1>13. CASE AbandonNext
    BY <1>13
    DEF AbandonNext, DataOK, planVars, indexVars, runVars, Step
  <1>14. CASE Abandon
    BY <1>14, MarkEntryFacts, SetListFacts, <1>c, <1>l, <1>a
    DEF Abandon, AbandonLabels
  <1>15. CASE StartRun
    BY <1>15, GoFacts
    DEF StartRun
  <1>16. CASE MarkExecuting
    BY <1>16, TouchPlanFacts
    DEF MarkExecuting
  <1>17. CASE CreateRun
    BY <1>17
    DEF CreateRun, DataOK, planVars, indexVars, runVars, Phases, Step
  <1>18. CASE ListRun
    BY <1>18, AddEntryFacts, SetListFacts, <1>c, <1>l
    DEF ListRun, RunLabels
  <1>19. CASE Dispatch
    BY <1>19, GiveWorkersFacts, GoFacts, <1>c
    DEF Dispatch, RunLabels
  <1>20. CASE Outcome
    BY <1>20, GoFacts, MarkEntryFacts, SetListFacts, <1>c, <1>l, <1>a
    DEF Outcome, RunLabels
  <1>21. CASE Resume
    BY <1>21, <1>l
    DEF Resume, DataOK, planVars, indexVars, runVars, Step
  <1>22. CASE Reactivate
    BY <1>22, <1>c
    DEF Reactivate, RunLabels, DataOK, planVars, indexVars, runVars, Phases,
        Step
  <1>23. CASE Redispatch
    BY <1>23, GiveWorkersFacts, MarkEntryFacts, <1>c, <1>a
    DEF Redispatch, RunLabels
  <1>24. CASE ApplyPatches
    BY <1>24, SetPhaseFacts, <1>c
    DEF ApplyPatches, RunLabels
  <1>25. CASE PostStart
    BY <1>25, MarkEntryFacts, SetPhaseFacts, GoFacts, <1>c, <1>a
    DEF PostStart, RunLabels
  <1>26. CASE TransitionToCompleted
    BY <1>26, SetPhaseFacts, MarkEntryFacts, <1>c, <1>a
    DEF TransitionToCompleted, RunLabels
  <1>27. CASE CompleteWorkflow
    BY <1>27, TouchPlanFacts, SetPhaseFacts, StampIndexFacts, SetListFacts,
       <1>c, <1>l
    DEF CompleteWorkflow, RunLabels
  <1>28. CASE Stop
    BY <1>28
    DEF Stop, DataOK, planVars, indexVars, runVars, Step
  <1>29. CASE RemoveIndex
    BY <1>29
    DEF RemoveIndex, DataOK, planVars, indexVars, runVars, EmptyIndex, Index,
        Step
  <1>30. CASE UNCHANGED vars
    BY <1>30 DEF vars, planVars, indexVars, runVars, DataOK
  <1> QED
    BY <1>1, <1>2, <1>3, <1>4, <1>5, <1>6, <1>7, <1>8, <1>9, <1>10, <1>11,
       <1>12, <1>13, <1>14, <1>15, <1>16, <1>17, <1>18, <1>19, <1>20, <1>21,
       <1>22, <1>23, <1>24, <1>25, <1>26, <1>27, <1>28, <1>29, <1>30 DEF Next

\* What a command may count on at its program counter, every action keeps.
LEMMA ControlStep ==
  DataOK /\ ControlOK /\ ListOK /\ [Next]_vars => ControlOK'
  <1> SUFFICES ASSUME DataOK, ControlOK, ListOK, [Next]_vars PROVE ControlOK'
    OBVIOUS
  <1> USE DEF ControlOK, PrepareLabels, StartLabels, RunLabels, AbandonLabels,
              StampLabels
  <1>1. CASE Prepare
    BY <1>1, GoFacts
    DEF Prepare, planVars, indexVars, runVars
  <1>2. CASE ResetPlan
    <2>1. CASE PutPlan("reset", "addPlan", DraftPlan)
      BY <2>1, PutPlanFacts, PlansTyped
      DEF planVars, indexVars, runVars
    <2> QED
      BY <1>2, <2>1 DEF ResetPlan
  <1>3. CASE AddPlan
    BY <1>3, AddEntryFacts
    DEF AddPlan, planVars, indexVars, runVars
  <1>4. CASE WriteArtifacts
    BY <1>4
    DEF WriteArtifacts, planVars, indexVars, runVars, Step
  <1>5. CASE NoteMetadata
    BY <1>5, GoFacts, TouchPlanFacts
    DEF NoteMetadata, planVars, indexVars, runVars
  <1>6. CASE Validate
    BY <1>6, GoFacts, TouchPlanFacts, StampIndexFacts
    DEF Validate, planVars, indexVars, runVars
  <1>7. CASE Review
    BY <1>7, GoFacts, TouchPlanFacts, StampIndexFacts
    DEF Review, planVars, indexVars, runVars
  <1>8. CASE Decide
    BY <1>8, GoFacts
    DEF Decide, planVars, indexVars, runVars
  <1>9. CASE Approve
    <2>1. CASE PutPlan("approvePlan", "approveIndex", ApprovedPlan)
      BY <2>1, PutPlanFacts, PlansTyped
      DEF planVars, indexVars, runVars
    <2>2. CASE StampIndex("approveIndex", "idle")
      BY <2>2, StampIndexFacts, PlansTyped
      DEF planVars, indexVars, runVars
    <2> QED
      BY <1>9, <2>1, <2>2 DEF Approve
  <1>10. CASE Revise
    BY <1>10, TouchPlanFacts, StampIndexFacts
    DEF Revise, planVars, indexVars, runVars
  <1>11. CASE Cancel
    BY <1>11, TouchPlanFacts
    DEF Cancel, planVars, indexVars, runVars
  <1>12. CASE Implement
    BY <1>12
    DEF Implement, planVars, indexVars, runVars, DataOK, Index, Step
  <1>13. CASE AbandonNext
    <2>1. left \subseteq Run /\ pc = "abandonNext" /\ UNCHANGED index
      BY <1>13 DEF AbandonNext, Step, DataOK, indexVars
    <2>2. index.readable /\ index.list \subseteq left
      BY <2>1
    <2>3. CASE \E r \in left : /\ cur' = r /\ left' = left \ {r}
                                /\ pc' = "abandonMark"
      <3>1. PICK r \in left : cur' = r /\ left' = left \ {r} /\ pc' = "abandonMark"
        BY <2>3
      <3>2. cur' \in Run /\ index'.list \subseteq left' \cup {cur'}
        BY <2>1, <2>2, <3>1
      <3> QED
        BY <2>1, <2>2, <3>1, <3>2
    <2>4. CASE left = {} /\ pc' = "implement"
      <3>1. index'.list = {}
        BY <2>1, <2>2, <2>4
      <3> QED
        BY <2>1, <2>2, <2>4, <3>1
    <2> QED
      BY <1>13, <2>3, <2>4 DEF AbandonNext, Step
  <1>14. CASE Abandon
    <2>1. CASE MarkEntry("abandonMark",
                         IF HasEntry(cur) THEN "abandonList" ELSE "abandonNext",
                         abandoned \cup {cur})
      BY <2>1, MarkEntryFacts
      DEF planVars, indexVars, runVars, ListOK, ListedHaveEntries, HasEntry
    <2>2. CASE SetList("abandonList", "abandonNext", index.list \ {cur})
      BY <2>2, SetListFacts
      DEF planVars, indexVars, runVars, ListOK, ListedHaveEntries, HasEntry
    <2> QED
      BY <1>14, <2>1, <2>2 DEF Abandon
  <1>15. CASE StartRun
    BY <1>15, GoFacts
    DEF StartRun, planVars, indexVars, runVars
  <1>16. CASE MarkExecuting
    BY <1>16, TouchPlanFacts
    DEF MarkExecuting, planVars, indexVars, runVars
  <1>17. CASE CreateRun
    BY <1>17
    DEF CreateRun, planVars, indexVars, runVars, Step
  <1>18. CASE ListRun
    BY <1>18, AddEntryFacts, SetListFacts
    DEF ListRun, planVars, indexVars, runVars, ListOK, ListedHaveEntries
  <1>19. CASE Dispatch
    BY <1>19, GiveWorkersFacts, GoFacts
    DEF Dispatch, planVars, indexVars, runVars
  <1>20. CASE Outcome
    <2>1. CASE Go("outcome", "partialMark")
      BY <2>1, GoFacts
      DEF planVars, indexVars, runVars, ListOK, ListedHaveEntries
    <2>2. CASE Go("outcome", "applyBack")
      BY <2>2, GoFacts
      DEF planVars, indexVars, runVars, ListOK, ListedHaveEntries
    <2>3. CASE MarkEntry("partialMark", "partialList", abandoned \ {cur})
      BY <2>3, MarkEntryFacts
      DEF planVars, indexVars, runVars, ListOK, ListedHaveEntries
    <2>4. CASE SetList("partialList", "idle", {cur})
      BY <2>4, SetListFacts
      DEF planVars, indexVars, runVars, ListOK, ListedHaveEntries
    <2> QED
      BY <1>20, <2>1, <2>2, <2>3, <2>4 DEF Outcome
  <1>21. CASE Resume
    BY <1>21
    DEF Resume, planVars, indexVars, runVars, DataOK, Index, Step
  <1>22. CASE Reactivate
    BY <1>22
    DEF Reactivate, planVars, indexVars, runVars, Step
  <1>23. CASE Redispatch
    <2>1. CASE GiveWorkers("redispatch", "stillMark")
      BY <2>1, GiveWorkersFacts
      DEF planVars, indexVars, runVars
    <2>2. CASE GiveWorkers("redispatch", "applyBack")
      BY <2>2, GiveWorkersFacts
      DEF planVars, indexVars, runVars
    <2>3. CASE GiveWorkers("redispatch", "dispatch")
      BY <2>3, GiveWorkersFacts
      DEF planVars, indexVars, runVars
    <2>4. CASE MarkEntry("stillMark", "idle", abandoned \ {cur})
      BY <2>4, MarkEntryFacts
      DEF planVars, indexVars, runVars
    <2> QED
      BY <1>23, <2>1, <2>2, <2>3, <2>4 DEF Redispatch
  <1>24. CASE ApplyPatches
    <2>1. CASE SetPhase("applyBack", "applied", "started")
      BY <2>1, SetPhaseFacts
      DEF planVars, indexVars, runVars
    <2>2. CASE SetPhase("applied", "finalMark", "applied")
      BY <2>2, SetPhaseFacts
      DEF planVars, indexVars, runVars
    <2>3. CASE SetPhase("applied", "postPhase", "applied")
      BY <2>3, SetPhaseFacts
      DEF planVars, indexVars, runVars
    <2> QED
      BY <1>24, <2>1, <2>2, <2>3 DEF ApplyPatches
  <1>25. CASE PostStart
    <2>1. CASE MarkEntry("finalMark", "postPhase", abandoned \ {cur})
      BY <2>1, MarkEntryFacts
      DEF planVars, indexVars, runVars
    <2>2. CASE SetPhase("postPhase", "postMark", "started")
      BY <2>2, SetPhaseFacts
      DEF planVars, indexVars, runVars
    <2>3. CASE MarkEntry("postMark", "verdict", abandoned \ {cur})
      BY <2>3, MarkEntryFacts
      DEF planVars, indexVars, runVars
    <2>4. CASE Go("verdict", "donePhase")
      BY <2>4, GoFacts
      DEF planVars, indexVars, runVars
    <2>5. CASE Go("verdict", "donePlan")
      BY <2>5, GoFacts
      DEF planVars, indexVars, runVars
    <2> QED
      BY <1>25, <2>1, <2>2, <2>3, <2>4, <2>5 DEF PostStart
  <1>26. CASE TransitionToCompleted
    <2>1. CASE SetPhase("donePhase", "doneMark", "completed")
      BY <2>1, SetPhaseFacts
      DEF planVars, indexVars, runVars
    <2>2. CASE MarkEntry("doneMark", "donePlan", abandoned \ {cur})
      BY <2>2, MarkEntryFacts
      DEF planVars, indexVars, runVars
    <2> QED
      BY <1>26, <2>1, <2>2 DEF TransitionToCompleted
  <1>27. CASE CompleteWorkflow
    BY <1>27, TouchPlanFacts, SetPhaseFacts, StampIndexFacts, SetListFacts
    DEF CompleteWorkflow, planVars, indexVars, runVars, ListOK,
        ListedHaveEntries
  <1>28. CASE Stop
    BY <1>28
    DEF Stop, planVars, indexVars, runVars, Step
  <1>29. CASE RemoveIndex
    BY <1>29
    DEF RemoveIndex, planVars, indexVars, runVars, EmptyIndex, Step
  <1>30. CASE UNCHANGED vars
    BY <1>30 DEF vars, planVars, indexVars, runVars
  <1> QED
    BY <1>1, <1>2, <1>3, <1>4, <1>5, <1>6, <1>7, <1>8, <1>9, <1>10, <1>11,
       <1>12, <1>13, <1>14, <1>15, <1>16, <1>17, <1>18, <1>19, <1>20, <1>21,
       <1>22, <1>23, <1>24, <1>25, <1>26, <1>27, <1>28, <1>29, <1>30 DEF Next

\* The list keeps to one run, and to runs with an entry.
LEMMA ListStep ==
  DataOK /\ ControlOK /\ ListOK /\ [Next]_vars => ListOK'
  <1> SUFFICES ASSUME DataOK, ControlOK, ListOK, [Next]_vars PROVE ListOK'
    OBVIOUS
  <1>s. /\ pc \in StartLabels => index.list = {}
        /\ pc \in RunLabels \ {"addRun", "listRun"} => cur \in index.list
        /\ pc = "listRun" => cur \in index.entries
    BY DEF ControlOK
  <1> USE DEF ListOK, ListedHaveEntries
  <1>1. CASE Prepare
    BY <1>1, GoFacts
    DEF Prepare, planVars, indexVars, runVars
  <1>2. CASE ResetPlan
    <2>1. CASE PutPlan("reset", "addPlan", DraftPlan)
      BY <2>1, PutPlanFacts, PlansTyped
      DEF planVars, indexVars, runVars
    <2> QED
      BY <1>2, <2>1 DEF ResetPlan
  <1>3. CASE AddPlan
    BY <1>3, AddEntryFacts
    DEF AddPlan, planVars, indexVars, runVars
  <1>4. CASE WriteArtifacts
    BY <1>4
    DEF WriteArtifacts, planVars, indexVars, runVars, Step
  <1>5. CASE NoteMetadata
    BY <1>5, GoFacts, TouchPlanFacts
    DEF NoteMetadata, planVars, indexVars, runVars
  <1>6. CASE Validate
    BY <1>6, GoFacts, TouchPlanFacts, StampIndexFacts
    DEF Validate, planVars, indexVars, runVars
  <1>7. CASE Review
    BY <1>7, GoFacts, TouchPlanFacts, StampIndexFacts
    DEF Review, planVars, indexVars, runVars
  <1>8. CASE Decide
    BY <1>8, GoFacts
    DEF Decide, planVars, indexVars, runVars
  <1>9. CASE Approve
    <2>1. CASE PutPlan("approvePlan", "approveIndex", ApprovedPlan)
      BY <2>1, PutPlanFacts, PlansTyped
      DEF planVars, indexVars, runVars
    <2>2. CASE StampIndex("approveIndex", "idle")
      BY <2>2, StampIndexFacts, PlansTyped
      DEF planVars, indexVars, runVars
    <2> QED
      BY <1>9, <2>1, <2>2 DEF Approve
  <1>10. CASE Revise
    BY <1>10, TouchPlanFacts, StampIndexFacts
    DEF Revise, planVars, indexVars, runVars
  <1>11. CASE Cancel
    BY <1>11, TouchPlanFacts
    DEF Cancel, planVars, indexVars, runVars
  <1>12. CASE Implement
    BY <1>12
    DEF Implement, planVars, indexVars, runVars, Step
  <1>13. CASE AbandonNext
    BY <1>13
    DEF AbandonNext, planVars, indexVars, runVars, Step
  <1>14. CASE Abandon
    <2>1. CASE MarkEntry("abandonMark",
                         IF HasEntry(cur) THEN "abandonList" ELSE "abandonNext",
                         abandoned \cup {cur})
      BY <2>1, MarkEntryFacts
      DEF planVars, indexVars, runVars
    <2>2. CASE SetList("abandonList", "abandonNext", index.list \ {cur})
      BY <2>2, SetListFacts
      DEF planVars, indexVars, runVars
    <2> QED
      BY <1>14, <2>1, <2>2 DEF Abandon
  <1>15. CASE StartRun
    BY <1>15, GoFacts
    DEF StartRun, planVars, indexVars, runVars
  <1>16. CASE MarkExecuting
    BY <1>16, TouchPlanFacts
    DEF MarkExecuting, planVars, indexVars, runVars
  <1>17. CASE CreateRun
    BY <1>17
    DEF CreateRun, planVars, indexVars, runVars, Step
  <1>18. CASE ListRun
    <2>1. CASE AddEntry("addRun", "listRun", cur)
      BY <2>1, AddEntryFacts, <1>s
      DEF planVars, indexVars, runVars, StartLabels
    <2>2. CASE SetList("listRun", "dispatch", index.list \cup {cur})
      BY <2>2, SetListFacts, <1>s
      DEF planVars, indexVars, runVars, StartLabels
    <2> QED
      BY <1>18, <2>1, <2>2 DEF ListRun
  <1>19. CASE Dispatch
    <2>1. CASE GiveWorkers("dispatch", "outcome")
      BY <2>1, GiveWorkersFacts
      DEF planVars, indexVars, runVars
    <2>2. CASE Go("dispatch", "postPhase")
      BY <2>2, GoFacts
      DEF planVars, indexVars, runVars
    <2> QED
      BY <1>19, <2>1, <2>2 DEF Dispatch
  <1>20. CASE Outcome
    <2>1. CASE Go("outcome", "partialMark")
      BY <2>1, GoFacts, <1>s
      DEF planVars, indexVars, runVars, RunLabels
    <2>2. CASE Go("outcome", "applyBack")
      BY <2>2, GoFacts, <1>s
      DEF planVars, indexVars, runVars, RunLabels
    <2>3. CASE MarkEntry("partialMark", "partialList", abandoned \ {cur})
      BY <2>3, MarkEntryFacts, <1>s
      DEF planVars, indexVars, runVars, RunLabels
    <2>4. CASE SetList("partialList", "idle", {cur})
      BY <2>4, SetListFacts, <1>s
      DEF planVars, indexVars, runVars, RunLabels
    <2> QED
      BY <1>20, <2>1, <2>2, <2>3, <2>4 DEF Outcome
  <1>21. CASE Resume
    BY <1>21
    DEF Resume, planVars, indexVars, runVars, Step
  <1>22. CASE Reactivate
    BY <1>22
    DEF Reactivate, planVars, indexVars, runVars, Step
  <1>23. CASE Redispatch
    <2>1. CASE GiveWorkers("redispatch", "stillMark")
      BY <2>1, GiveWorkersFacts
      DEF planVars, indexVars, runVars
    <2>2. CASE GiveWorkers("redispatch", "applyBack")
      BY <2>2, GiveWorkersFacts
      DEF planVars, indexVars, runVars
    <2>3. CASE GiveWorkers("redispatch", "dispatch")
      BY <2>3, GiveWorkersFacts
      DEF planVars, indexVars, runVars
    <2>4. CASE MarkEntry("stillMark", "idle", abandoned \ {cur})
      BY <2>4, MarkEntryFacts
      DEF planVars, indexVars, runVars
    <2> QED
      BY <1>23, <2>1, <2>2, <2>3, <2>4 DEF Redispatch
  <1>24. CASE ApplyPatches
    <2>1. CASE SetPhase("applyBack", "applied", "started")
      BY <2>1, SetPhaseFacts
      DEF planVars, indexVars, runVars
    <2>2. CASE SetPhase("applied", "finalMark", "applied")
      BY <2>2, SetPhaseFacts
      DEF planVars, indexVars, runVars
    <2>3. CASE SetPhase("applied", "postPhase", "applied")
      BY <2>3, SetPhaseFacts
      DEF planVars, indexVars, runVars
    <2> QED
      BY <1>24, <2>1, <2>2, <2>3 DEF ApplyPatches
  <1>25. CASE PostStart
    <2>1. CASE MarkEntry("finalMark", "postPhase", abandoned \ {cur})
      BY <2>1, MarkEntryFacts
      DEF planVars, indexVars, runVars
    <2>2. CASE SetPhase("postPhase", "postMark", "started")
      BY <2>2, SetPhaseFacts
      DEF planVars, indexVars, runVars
    <2>3. CASE MarkEntry("postMark", "verdict", abandoned \ {cur})
      BY <2>3, MarkEntryFacts
      DEF planVars, indexVars, runVars
    <2>4. CASE Go("verdict", "donePhase")
      BY <2>4, GoFacts
      DEF planVars, indexVars, runVars
    <2>5. CASE Go("verdict", "donePlan")
      BY <2>5, GoFacts
      DEF planVars, indexVars, runVars
    <2> QED
      BY <1>25, <2>1, <2>2, <2>3, <2>4, <2>5 DEF PostStart
  <1>26. CASE TransitionToCompleted
    <2>1. CASE SetPhase("donePhase", "doneMark", "completed")
      BY <2>1, SetPhaseFacts
      DEF planVars, indexVars, runVars
    <2>2. CASE MarkEntry("doneMark", "donePlan", abandoned \ {cur})
      BY <2>2, MarkEntryFacts
      DEF planVars, indexVars, runVars
    <2> QED
      BY <1>26, <2>1, <2>2 DEF TransitionToCompleted
  <1>27. CASE CompleteWorkflow
    <2>1. CASE TouchPlan("donePlan", "doneRun")
      BY <2>1, TouchPlanFacts
      DEF planVars, indexVars, runVars
    <2>2. CASE SetPhase("doneRun", "doneIndex", "completed")
      BY <2>2, SetPhaseFacts
      DEF planVars, indexVars, runVars
    <2>3. CASE StampIndex("doneIndex", "delist")
      BY <2>3, StampIndexFacts
      DEF planVars, indexVars, runVars
    <2>4. CASE SetList("delist", "idle", index.list \ {cur})
      BY <2>4, SetListFacts
      DEF planVars, indexVars, runVars
    <2> QED
      BY <1>27, <2>1, <2>2, <2>3, <2>4 DEF CompleteWorkflow
  <1>28. CASE Stop
    BY <1>28
    DEF Stop, planVars, indexVars, runVars, Step
  <1>29. CASE RemoveIndex
    BY <1>29
    DEF RemoveIndex, planVars, indexVars, runVars, EmptyIndex, Step
  <1>30. CASE UNCHANGED vars
    BY <1>30 DEF vars, planVars, indexVars, runVars
  <1> QED
    BY <1>1, <1>2, <1>3, <1>4, <1>5, <1>6, <1>7, <1>8, <1>9, <1>10, <1>11,
       <1>12, <1>13, <1>14, <1>15, <1>16, <1>17, <1>18, <1>19, <1>20, <1>21,
       <1>22, <1>23, <1>24, <1>25, <1>26, <1>27, <1>28, <1>29, <1>30 DEF Next

\* Workers started for a listed run are given the draft it was started on.
LEMMA DraftsGive ==
  ASSUME DataOK, ControlOK, ListOK, DraftsOK,
         NEW l \in {"dispatch", "redispatch"},
         NEW m \in {"outcome", "stillMark", "applyBack", "dispatch"},
         GiveWorkers(l, m)
  PROVE  DraftsOK'
  <1>1. pc = l /\ cur \in index.list /\ cur \in Run /\ index.list = {cur}
    BY GiveWorkersFacts
    DEF ControlOK, RunLabels, ListOK, DataOK, Index
  <1>2. /\ UNCHANGED <<plan, content, approved, index, runs, cur>>
        /\ pc' = m
    BY GiveWorkersFacts DEF planVars, indexVars
  <1>3. ranOn' = [ranOn EXCEPT ![cur] = ranOn[cur] \cup {content}]
    BY GiveWorkersFacts
  <1>4. ranOn'[cur] = {content} /\ \A r \in Run \ {cur} : ranOn'[r] = ranOn[r]
    BY <1>1, <1>3 DEF DataOK, DraftsOK
  <1>5. content \in approved /\ runs[cur] # "unused"
    BY <1>1 DEF DraftsOK
  <1>6. PlanPinned' /\ OnlyApprovedRuns'
    BY <1>1, <1>2, <1>4, <1>5 DEF DraftsOK, PlanPinned, OnlyApprovedRuns
  <1>7. m \notin {"addPlan", "source", "notePlan", "planner", "addRun", "listRun"}
        /\ m \notin StartLabels
    BY DEF StartLabels
  <1> QED
    BY <1>1, <1>2, <1>4, <1>5, <1>6, <1>7 DEF DraftsOK

\* A change of phase leaves the drafts of the runs alone.
LEMMA DraftsPhase ==
  ASSUME DataOK, ControlOK, ListOK, DraftsOK,
         NEW l \in {"applyBack", "applied", "postPhase", "donePhase", "doneRun"},
         NEW m \in {"applied", "finalMark", "postPhase", "postMark", "doneMark", "doneIndex"},
         NEW ph \in {"started", "applied", "completed"},
         SetPhase(l, m, ph)
  PROVE  DraftsOK'
  <1>1. cur \in index.list /\ cur \in Run
    BY SetPhaseFacts DEF ControlOK, RunLabels
  <1>2. /\ UNCHANGED <<plan, content, approved, index, ranOn, cur>>
        /\ pc' = m
    BY SetPhaseFacts DEF planVars, indexVars
  <1>3. \A r \in Run : runs'[r] = IF r = cur THEN ph ELSE runs[r]
    BY <1>1, SetPhaseFacts DEF DataOK
  <1>4. /\ \A r \in Run : runs'[r] = "unused" => ranOn'[r] = {}
        /\ \A r \in index'.list : runs'[r] # "unused"
    BY <1>1, <1>2, <1>3 DEF DraftsOK, DataOK, Index
  <1>5. PlanPinned' /\ OnlyApprovedRuns'
    BY <1>2 DEF DraftsOK, PlanPinned, OnlyApprovedRuns
  <1>6. m \notin {"addPlan", "source", "notePlan", "planner", "addRun", "listRun"}
        /\ m \notin StartLabels
    BY DEF StartLabels
  <1> QED
    BY <1>2, <1>4, <1>5, <1>6 DEF DraftsOK

\* The two writes that decide whether v1 is approved.
LEMMA DraftsPut ==
  ASSUME DataOK, DraftsOK,
         \/ ResetPlan /\ index.list = {}
         \/ /\ PutPlan("approvePlan", "approveIndex", ApprovedPlan)
            /\ approved' = IF open THEN approved \cup {content} ELSE approved
  PROVE  DraftsOK'
  <1>1. \/ /\ PutPlan("reset", "addPlan", DraftPlan)
           /\ approved' = approved /\ index.list = {}
        \/ /\ PutPlan("approvePlan", "approveIndex", ApprovedPlan)
           /\ approved' = IF open THEN approved \cup {content} ELSE approved
    BY DEF ResetPlan
  <1>2. /\ UNCHANGED <<content, index, runs, ranOn, cur>>
        /\ pc' \in {"reset", "addPlan", "approvePlan", "approveIndex"}
        /\ pc' = "addPlan" => ~plan'.approved
        /\ plan'.approved => content \in approved'
        /\ approved \subseteq approved'
    <2>1. CASE /\ PutPlan("reset", "addPlan", DraftPlan)
               /\ approved' = approved /\ index.list = {}
      BY <2>1 DEF PutPlan, Step, DraftPlan, indexVars, runVars, DataOK, Plan,
                  DraftsOK
    <2>2. CASE /\ PutPlan("approvePlan", "approveIndex", ApprovedPlan)
               /\ approved' = IF open THEN approved \cup {content} ELSE approved
      BY <2>2 DEF PutPlan, Step, ApprovedPlan, indexVars, runVars, DataOK, Plan,
                  DraftsOK
    <2> QED
      BY <1>1, <2>1, <2>2
  <1>3. PlanPinned' /\ OnlyApprovedRuns'
    BY <1>2 DEF DraftsOK, PlanPinned, OnlyApprovedRuns
  <1> QED
    BY <1>2, <1>3 DEF DraftsOK, StartLabels

\* Approval and drafts stay in step under every action.
LEMMA DraftsStep ==
  DataOK /\ ControlOK /\ ListOK /\ DraftsOK /\ [Next]_vars => DraftsOK'
  <1> SUFFICES ASSUME DataOK, ControlOK, ListOK, DraftsOK, [Next]_vars
               PROVE  DraftsOK'
    OBVIOUS
  <1> USE DEF ControlOK, DraftsOK, PlanPinned, OnlyApprovedRuns, PrepareLabels,
              StartLabels, RunLabels, AbandonLabels
  <1>1. CASE Prepare
    BY <1>1, GoFacts
    DEF Prepare, planVars, indexVars, runVars
  <1>2. CASE ResetPlan
    <2>1. pc = "reset"
      BY <1>2, PutPlanFacts, PlansTyped DEF ResetPlan
    <2>2. index.list = {}
      BY <2>1
    <2> QED
      BY <1>2, <2>2, DraftsPut
  <1>3. CASE AddPlan
    BY <1>3, AddEntryFacts
    DEF AddPlan, planVars, indexVars, runVars
  <1>4. CASE WriteArtifacts
    BY <1>4
    DEF WriteArtifacts, planVars, indexVars, runVars, Step
  <1>5. CASE NoteMetadata
    BY <1>5, GoFacts, TouchPlanFacts
    DEF NoteMetadata, planVars, indexVars, runVars
  <1>6. CASE Validate
    BY <1>6, GoFacts, TouchPlanFacts, StampIndexFacts
    DEF Validate, planVars, indexVars, runVars
  <1>7. CASE Review
    BY <1>7, GoFacts, TouchPlanFacts, StampIndexFacts
    DEF Review, planVars, indexVars, runVars
  <1>8. CASE Decide
    BY <1>8, GoFacts
    DEF Decide, planVars, indexVars, runVars
  <1>9. CASE Approve
    <2>1. CASE /\ PutPlan("approvePlan", "approveIndex", ApprovedPlan)
               /\ approved' = IF open THEN approved \cup {content} ELSE approved
      BY <2>1, DraftsPut
    <2>2. CASE StampIndex("approveIndex", "idle")
      BY <2>2, StampIndexFacts
      DEF planVars, indexVars, runVars
    <2> QED
      BY <1>9, <2>1, <2>2 DEF Approve
  <1>10. CASE Revise
    BY <1>10, TouchPlanFacts, StampIndexFacts
    DEF Revise, planVars, indexVars, runVars
  <1>11. CASE Cancel
    BY <1>11, TouchPlanFacts
    DEF Cancel, planVars, indexVars, runVars
  <1>12. CASE Implement
    BY <1>12
    DEF Implement, planVars, indexVars, runVars, Step
  <1>13. CASE AbandonNext
    BY <1>13
    DEF AbandonNext, planVars, indexVars, runVars, Step
  <1>14. CASE Abandon
    <2>1. CASE MarkEntry("abandonMark",
                         IF HasEntry(cur) THEN "abandonList" ELSE "abandonNext",
                         abandoned \cup {cur})
      BY <2>1, MarkEntryFacts
      DEF planVars, indexVars, runVars
    <2>2. CASE SetList("abandonList", "abandonNext", index.list \ {cur})
      BY <2>2, SetListFacts
      DEF planVars, indexVars, runVars
    <2> QED
      BY <1>14, <2>1, <2>2 DEF Abandon
  <1>15. CASE StartRun
    BY <1>15, GoFacts
    DEF StartRun, planVars, indexVars, runVars, DataOK
  <1>16. CASE MarkExecuting
    BY <1>16, TouchPlanFacts
    DEF MarkExecuting, planVars, indexVars, runVars
  <1>17. CASE CreateRun
    <2>1. PICK r \in Run : /\ runs[r] = "unused" /\ cur' = r
                          /\ runs' = [runs EXCEPT ![r] = "started"]
      BY <1>17 DEF CreateRun
    <2>2. /\ UNCHANGED <<plan, content, approved, index, ranOn>>
          /\ pc = "createRun" /\ pc' = "addRun"
      BY <1>17 DEF CreateRun, Step, planVars, indexVars
    <2>3. /\ \A t \in Run : runs'[t] = IF t = r THEN "started" ELSE runs[t]
          /\ index.list = {}
      BY <2>1, <2>2 DEF DataOK
    <2>4. ranOn[r] = {} /\ plan.approved
      BY <2>1, <2>2
    <2> QED
      BY <2>1, <2>2, <2>3, <2>4
  <1>18. CASE ListRun
    <2>1. CASE AddEntry("addRun", "listRun", cur)
      BY <2>1, AddEntryFacts
      DEF planVars, indexVars, runVars
    <2>2. CASE SetList("listRun", "dispatch", index.list \cup {cur})
      BY <2>2, SetListFacts
      DEF planVars, indexVars, runVars
    <2> QED
      BY <1>18, <2>1, <2>2 DEF ListRun
  <1>19. CASE Dispatch
    <2>1. CASE GiveWorkers("dispatch", "outcome")
      BY <2>1, DraftsGive
    <2>2. CASE Go("dispatch", "postPhase")
      BY <2>2, GoFacts
      DEF planVars, indexVars, runVars
    <2> QED
      BY <1>19, <2>1, <2>2 DEF Dispatch
  <1>20. CASE Outcome
    <2>1. CASE Go("outcome", "partialMark")
      BY <2>1, GoFacts
      DEF planVars, indexVars, runVars
    <2>2. CASE Go("outcome", "applyBack")
      BY <2>2, GoFacts
      DEF planVars, indexVars, runVars
    <2>3. CASE MarkEntry("partialMark", "partialList", abandoned \ {cur})
      BY <2>3, MarkEntryFacts
      DEF planVars, indexVars, runVars
    <2>4. CASE SetList("partialList", "idle", {cur})
      BY <2>4, SetListFacts
      DEF planVars, indexVars, runVars
    <2> QED
      BY <1>20, <2>1, <2>2, <2>3, <2>4 DEF Outcome
  <1>21. CASE Resume
    BY <1>21
    DEF Resume, planVars, indexVars, runVars, Step
  <1>22. CASE Reactivate
    BY <1>22
    DEF Reactivate, planVars, indexVars, runVars, Step
  <1>23. CASE Redispatch
    <2>1. CASE GiveWorkers("redispatch", "stillMark")
      BY <2>1, DraftsGive
    <2>2. CASE GiveWorkers("redispatch", "applyBack")
      BY <2>2, DraftsGive
    <2>3. CASE GiveWorkers("redispatch", "dispatch")
      BY <2>3, DraftsGive
    <2>4. CASE MarkEntry("stillMark", "idle", abandoned \ {cur})
      BY <2>4, MarkEntryFacts
      DEF planVars, indexVars, runVars
    <2> QED
      BY <1>23, <2>1, <2>2, <2>3, <2>4 DEF Redispatch
  <1>24. CASE ApplyPatches
    <2>1. CASE SetPhase("applyBack", "applied", "started")
      BY <2>1, DraftsPhase
    <2>2. CASE SetPhase("applied", "finalMark", "applied")
      BY <2>2, DraftsPhase
    <2>3. CASE SetPhase("applied", "postPhase", "applied")
      BY <2>3, DraftsPhase
    <2> QED
      BY <1>24, <2>1, <2>2, <2>3 DEF ApplyPatches
  <1>25. CASE PostStart
    <2>1. CASE MarkEntry("finalMark", "postPhase", abandoned \ {cur})
      BY <2>1, MarkEntryFacts
      DEF planVars, indexVars, runVars
    <2>2. CASE SetPhase("postPhase", "postMark", "started")
      BY <2>2, DraftsPhase
    <2>3. CASE MarkEntry("postMark", "verdict", abandoned \ {cur})
      BY <2>3, MarkEntryFacts
      DEF planVars, indexVars, runVars
    <2>4. CASE Go("verdict", "donePhase")
      BY <2>4, GoFacts
      DEF planVars, indexVars, runVars
    <2>5. CASE Go("verdict", "donePlan")
      BY <2>5, GoFacts
      DEF planVars, indexVars, runVars
    <2> QED
      BY <1>25, <2>1, <2>2, <2>3, <2>4, <2>5 DEF PostStart
  <1>26. CASE TransitionToCompleted
    <2>1. CASE SetPhase("donePhase", "doneMark", "completed")
      BY <2>1, DraftsPhase
    <2>2. CASE MarkEntry("doneMark", "donePlan", abandoned \ {cur})
      BY <2>2, MarkEntryFacts
      DEF planVars, indexVars, runVars
    <2> QED
      BY <1>26, <2>1, <2>2 DEF TransitionToCompleted
  <1>27. CASE CompleteWorkflow
    <2>1. CASE TouchPlan("donePlan", "doneRun")
      BY <2>1, TouchPlanFacts
      DEF planVars, indexVars, runVars
    <2>2. CASE SetPhase("doneRun", "doneIndex", "completed")
      BY <2>2, DraftsPhase
    <2>3. CASE StampIndex("doneIndex", "delist")
      BY <2>3, StampIndexFacts
      DEF planVars, indexVars, runVars
    <2>4. CASE SetList("delist", "idle", index.list \ {cur})
      BY <2>4, SetListFacts
      DEF planVars, indexVars, runVars
    <2> QED
      BY <1>27, <2>1, <2>2, <2>3, <2>4 DEF CompleteWorkflow
  <1>28. CASE Stop
    BY <1>28
    DEF Stop, planVars, indexVars, runVars, Step
  <1>29. CASE RemoveIndex
    BY <1>29
    DEF RemoveIndex, planVars, indexVars, runVars, EmptyIndex, Step
  <1>30. CASE UNCHANGED vars
    BY <1>30 DEF vars, planVars, indexVars, runVars
  <1> QED
    BY <1>1, <1>2, <1>3, <1>4, <1>5, <1>6, <1>7, <1>8, <1>9, <1>10, <1>11,
       <1>12, <1>13, <1>14, <1>15, <1>16, <1>17, <1>18, <1>19, <1>20, <1>21,
       <1>22, <1>23, <1>24, <1>25, <1>26, <1>27, <1>28, <1>29, <1>30 DEF Next

\* Work and phases of a run are only recorded for a listed run.
LEMMA UnfinishedWork ==
  ASSUME DataOK, ControlOK, UnfinishedOK,
         NEW l, NEW m, l \in RunLabels \ (StampLabels \cup {"addRun", "listRun"}),
         m \notin {"abandonList", "delist"},
         \/ GiveWorkers(l, m) /\ m # "doneIndex"
         \/ \E ph \in {"started", "applied", "completed"} :
              SetPhase(l, m, ph) /\ (m = "doneIndex" => ph = "completed")
  PROVE  UnfinishedOK'
  <1>1. /\ UNCHANGED <<index, abandoned, cur>>
        /\ pc = l /\ pc' = m
        /\ \A r \in Run : r # cur => runs'[r] = runs[r] /\ ranOn'[r] = ranOn[r]
    BY GiveWorkersFacts, SetPhaseFacts DEF indexVars, DataOK
  <1>2. cur \in Run /\ cur \in index.list /\ index.readable
    BY <1>1 DEF ControlOK, StampLabels, RunLabels
  <1>3. UnfinishedAreListed'
    BY <1>1, <1>2 DEF UnfinishedOK, UnfinishedAreListed, Unfinished
  <1>4. m = "doneIndex" => runs'[cur] = "completed"
    BY <1>2, SetPhaseFacts DEF DataOK
  <1> QED
    BY <1>1, <1>3, <1>4 DEF UnfinishedOK

\* A run leaves the list only when it was abandoned or completed.
LEMMA UnfinishedStep ==
  /\ DataOK /\ ControlOK /\ ListOK /\ DraftsOK /\ UnfinishedOK
  /\ [Next]_vars
  => UnfinishedOK'
  <1> SUFFICES ASSUME DataOK, ControlOK, ListOK, DraftsOK, UnfinishedOK,
                      [Next]_vars
               PROVE  UnfinishedOK'
    OBVIOUS
  <1>c. /\ pc \in PrepareLabels \cup StartLabels => index.list = {}
        /\ pc \in RunLabels \ {"addRun", "listRun"} => cur \in index.list
        /\ pc \in RunLabels \cup AbandonLabels => cur \in Run
        /\ ~index.readable => pc = "idle" \/ pc \in StampLabels
    BY DEF ControlOK
  <1>l. \A r, s \in index.list : r = s
    BY DEF ListOK
  <1> USE <1>c, <1>l DEF UnfinishedOK, UnfinishedAreListed, Unfinished, PrepareLabels,
              StartLabels, RunLabels, AbandonLabels, StampLabels
  <1>1. CASE Prepare
    BY <1>1, GoFacts
    DEF Prepare, planVars, indexVars, runVars
  <1>2. CASE ResetPlan
    <2>1. CASE PutPlan("reset", "addPlan", DraftPlan)
      BY <2>1, PutPlanFacts, PlansTyped
      DEF planVars, indexVars, runVars
    <2> QED
      BY <1>2, <2>1 DEF ResetPlan
  <1>3. CASE AddPlan
    BY <1>3, AddEntryFacts
    DEF AddPlan, planVars, indexVars, runVars
  <1>4. CASE WriteArtifacts
    BY <1>4
    DEF WriteArtifacts, planVars, indexVars, runVars, Step
  <1>5. CASE NoteMetadata
    BY <1>5, GoFacts, TouchPlanFacts
    DEF NoteMetadata, planVars, indexVars, runVars
  <1>6. CASE Validate
    BY <1>6, GoFacts, TouchPlanFacts, StampIndexFacts
    DEF Validate, planVars, indexVars, runVars
  <1>7. CASE Review
    BY <1>7, GoFacts, TouchPlanFacts, StampIndexFacts
    DEF Review, planVars, indexVars, runVars
  <1>8. CASE Decide
    BY <1>8, GoFacts
    DEF Decide, planVars, indexVars, runVars
  <1>9. CASE Approve
    <2>1. CASE PutPlan("approvePlan", "approveIndex", ApprovedPlan)
      BY <2>1, PutPlanFacts, PlansTyped
      DEF planVars, indexVars, runVars
    <2>2. CASE StampIndex("approveIndex", "idle")
      BY <2>2, StampIndexFacts, PlansTyped
      DEF planVars, indexVars, runVars
    <2> QED
      BY <1>9, <2>1, <2>2 DEF Approve
  <1>10. CASE Revise
    BY <1>10, TouchPlanFacts, StampIndexFacts
    DEF Revise, planVars, indexVars, runVars
  <1>11. CASE Cancel
    BY <1>11, TouchPlanFacts
    DEF Cancel, planVars, indexVars, runVars
  <1>12. CASE Implement
    BY <1>12
    DEF Implement, planVars, indexVars, runVars, Step
  <1>13. CASE AbandonNext
    BY <1>13
    DEF AbandonNext, planVars, indexVars, runVars, Step
  <1>14. CASE Abandon
    <2>1. CASE MarkEntry("abandonMark",
                         IF HasEntry(cur) THEN "abandonList" ELSE "abandonNext",
                         abandoned \cup {cur})
      BY <2>1, MarkEntryFacts
      DEF planVars, indexVars, runVars, HasEntry
    <2>2. CASE SetList("abandonList", "abandonNext", index.list \ {cur})
      BY <2>2, SetListFacts
      DEF planVars, indexVars, runVars, HasEntry
    <2> QED
      BY <1>14, <2>1, <2>2 DEF Abandon
  <1>15. CASE StartRun
    BY <1>15, GoFacts
    DEF StartRun, planVars, indexVars, runVars
  <1>16. CASE MarkExecuting
    BY <1>16, TouchPlanFacts
    DEF MarkExecuting, planVars, indexVars, runVars
  <1>17. CASE CreateRun
    BY <1>17
    DEF CreateRun, planVars, indexVars, runVars, Step
  <1>18. CASE ListRun
    <2>1. CASE AddEntry("addRun", "listRun", cur)
      BY <2>1, AddEntryFacts
      DEF planVars, indexVars, runVars
    <2>2. CASE SetList("listRun", "dispatch", index.list \cup {cur})
      BY <2>2, SetListFacts
      DEF planVars, indexVars, runVars
    <2> QED
      BY <1>18, <2>1, <2>2 DEF ListRun
  <1>19. CASE Dispatch
    <2>1. CASE GiveWorkers("dispatch", "outcome")
      BY <2>1, UnfinishedWork
    <2>2. CASE Go("dispatch", "postPhase")
      BY <2>2, GoFacts
      DEF planVars, indexVars, runVars
    <2> QED
      BY <1>19, <2>1, <2>2 DEF Dispatch
  <1>20. CASE Outcome
    <2>1. CASE Go("outcome", "partialMark")
      BY <2>1, GoFacts
      DEF planVars, indexVars, runVars
    <2>2. CASE Go("outcome", "applyBack")
      BY <2>2, GoFacts
      DEF planVars, indexVars, runVars
    <2>3. CASE MarkEntry("partialMark", "partialList", abandoned \ {cur})
      BY <2>3, MarkEntryFacts
      DEF planVars, indexVars, runVars
    <2>4. CASE SetList("partialList", "idle", {cur})
      BY <2>4, SetListFacts
      DEF planVars, indexVars, runVars
    <2> QED
      BY <1>20, <2>1, <2>2, <2>3, <2>4 DEF Outcome
  <1>21. CASE Resume
    BY <1>21
    DEF Resume, planVars, indexVars, runVars, Step
  <1>22. CASE Reactivate
    BY <1>22
    DEF Reactivate, planVars, indexVars, runVars, Step
  <1>23. CASE Redispatch
    <2>1. CASE GiveWorkers("redispatch", "stillMark")
      BY <2>1, UnfinishedWork
    <2>2. CASE GiveWorkers("redispatch", "applyBack")
      BY <2>2, UnfinishedWork
    <2>3. CASE GiveWorkers("redispatch", "dispatch")
      BY <2>3, UnfinishedWork
    <2>4. CASE MarkEntry("stillMark", "idle", abandoned \ {cur})
      BY <2>4, MarkEntryFacts
      DEF planVars, indexVars, runVars
    <2> QED
      BY <1>23, <2>1, <2>2, <2>3, <2>4 DEF Redispatch
  <1>24. CASE ApplyPatches
    <2>1. CASE SetPhase("applyBack", "applied", "started")
      BY <2>1, UnfinishedWork
    <2>2. CASE SetPhase("applied", "finalMark", "applied")
      BY <2>2, UnfinishedWork
    <2>3. CASE SetPhase("applied", "postPhase", "applied")
      BY <2>3, UnfinishedWork
    <2> QED
      BY <1>24, <2>1, <2>2, <2>3 DEF ApplyPatches
  <1>25. CASE PostStart
    <2>1. CASE MarkEntry("finalMark", "postPhase", abandoned \ {cur})
      BY <2>1, MarkEntryFacts
      DEF planVars, indexVars, runVars
    <2>2. CASE SetPhase("postPhase", "postMark", "started")
      BY <2>2, UnfinishedWork
    <2>3. CASE MarkEntry("postMark", "verdict", abandoned \ {cur})
      BY <2>3, MarkEntryFacts
      DEF planVars, indexVars, runVars
    <2>4. CASE Go("verdict", "donePhase")
      BY <2>4, GoFacts
      DEF planVars, indexVars, runVars
    <2>5. CASE Go("verdict", "donePlan")
      BY <2>5, GoFacts
      DEF planVars, indexVars, runVars
    <2> QED
      BY <1>25, <2>1, <2>2, <2>3, <2>4, <2>5 DEF PostStart
  <1>26. CASE TransitionToCompleted
    <2>1. CASE SetPhase("donePhase", "doneMark", "completed")
      BY <2>1, UnfinishedWork
    <2>2. CASE MarkEntry("doneMark", "donePlan", abandoned \ {cur})
      BY <2>2, MarkEntryFacts
      DEF planVars, indexVars, runVars
    <2> QED
      BY <1>26, <2>1, <2>2 DEF TransitionToCompleted
  <1>27. CASE CompleteWorkflow
    <2>1. CASE TouchPlan("donePlan", "doneRun")
      BY <2>1, TouchPlanFacts
      DEF planVars, indexVars, runVars
    <2>2. CASE SetPhase("doneRun", "doneIndex", "completed")
      BY <2>2, UnfinishedWork
    <2>3. CASE StampIndex("doneIndex", "delist")
      BY <2>3, StampIndexFacts
      DEF planVars, indexVars, runVars
    <2>4. CASE SetList("delist", "idle", index.list \ {cur})
      BY <2>4, SetListFacts
      DEF planVars, indexVars, runVars
    <2> QED
      BY <1>27, <2>1, <2>2, <2>3, <2>4 DEF CompleteWorkflow
  <1>28. CASE Stop
    BY <1>28
    DEF Stop, planVars, indexVars, runVars, Step
  <1>29. CASE RemoveIndex
    BY <1>29
    DEF RemoveIndex, planVars, indexVars, runVars, EmptyIndex, Step
  <1>30. CASE UNCHANGED vars
    BY <1>30 DEF vars, planVars, indexVars, runVars
  <1> QED
    BY <1>1, <1>2, <1>3, <1>4, <1>5, <1>6, <1>7, <1>8, <1>9, <1>10, <1>11,
       <1>12, <1>13, <1>14, <1>15, <1>16, <1>17, <1>18, <1>19, <1>20, <1>21,
       <1>22, <1>23, <1>24, <1>25, <1>26, <1>27, <1>28, <1>29, <1>30 DEF Next

\* Only drafts are approved.
LEMMA ApprovedStep ==
  DataOK /\ approved \subseteq Drafts /\ [Next]_vars => approved' \subseteq Drafts
  <1> SUFFICES ASSUME DataOK, approved \subseteq Drafts, [Next]_vars
               PROVE  approved' \subseteq Drafts
    OBVIOUS
  <1>1. CASE Approve
    <2>1. approved' = approved \/ approved' = approved \cup {content}
      BY <1>1 DEF Approve, StampIndex, planVars
    <2> QED
      BY <2>1 DEF DataOK
  <1>2. CASE ~Approve
    <2>1. approved' = approved
      BY <1>2
      DEF Next, vars, planVars, Prepare, ResetPlan, AddPlan, WriteArtifacts,
          NoteMetadata, Validate, Review, Decide, Revise, Cancel, Implement,
          AbandonNext, Abandon, StartRun, MarkExecuting, CreateRun, ListRun,
          Dispatch, Outcome, Resume, Reactivate, Redispatch, ApplyPatches, PostStart,
          TransitionToCompleted, CompleteWorkflow, Stop, RemoveIndex, Go,
          TouchPlan, StampIndex, AddEntry, MarkEntry, SetList, GiveWorkers,
          SetPhase
    <2> QED
      BY <2>1
  <1> QED
    BY <1>1, <1>2

\* The type invariant in the parts the lemmas treat.
LEMMA TypeSplit ==
  TypeOK <=> DataOK /\ pc \in Labels /\ approved \subseteq Drafts
  BY DEF TypeOK, DataOK

\* The invariant is inductive.
LEMMA InvStep == IInv /\ [Next]_vars => IInv'
  <1> SUFFICES ASSUME IInv, [Next]_vars PROVE IInv'
    OBVIOUS
  <1>1. /\ DataOK /\ ControlOK /\ ListOK /\ DraftsOK /\ UnfinishedOK
        /\ pc \in Labels /\ approved \subseteq Drafts
    BY TypeSplit DEF IInv
  <1>2. DataOK' /\ ControlOK' /\ ListOK' /\ DraftsOK' /\ UnfinishedOK'
    BY <1>1, DataStep, ControlStep, ListStep, DraftsStep, UnfinishedStep
  <1>3. pc' \in Labels /\ approved' \subseteq Drafts
    BY <1>1, PcType, ApprovedStep
  <1>4. TypeOK'
    BY <1>2, <1>3 DEF TypeOK, DataOK
  <1> QED
    BY <1>2, <1>4 DEF IInv

\* The invariant holds throughout.
LEMMA Invariance == Spec => []IInv
  BY InitInv, InvStep, PTL DEF Spec

-----------------------------------------------------------------------------

\* Every variable keeps its type, whatever command runs and wherever it stops.
THEOREM TypeCorrect == Spec => []TypeOK
  <1>1. IInv => TypeOK
    BY DEF IInv
  <1> QED
    BY <1>1, Invariance, PTL

\* A run whose workers were started and that is neither completed nor abandoned is
\* listed in a readable state-index.json: --resume can always find it.
THEOREM UnfinishedRunsAreFound == Spec => []UnfinishedAreListed
  <1>1. IInv => UnfinishedAreListed
    BY DEF IInv, UnfinishedOK
  <1> QED
    BY <1>1, Invariance, PTL

\* Every run in unfinishedRuns has an entry in the index, so abandonWorkflow, which
\* throws without one, can always clear the list.
THEOREM ListedRunsCanBeAbandoned == Spec => []ListedHaveEntries
  <1>1. IInv => ListedHaveEntries
    BY DEF IInv, ListOK
  <1> QED
    BY <1>1, Invariance, PTL

\* checkUnfinishedOnEntry and the abandonment of what is unfinished leave at most
\* one unfinished run of the change.
THEOREM OneRunAtATime == Spec => []OneUnfinished
  <1>1. IInv => OneUnfinished
    BY DEF IInv, UnfinishedOK, UnfinishedAreListed, ListOK, OneUnfinished
  <1> QED
    BY <1>1, Invariance, PTL

\* Workers of one run, resumed ones too, all work from the same draft of v1.
THEOREM PlanOfARunIsPinned == Spec => []PlanPinned
  <1>1. IInv => PlanPinned
    BY DEF IInv, DraftsOK
  <1> QED
    BY <1>1, Invariance, PTL

\* Workers are only ever given drafts the user approved, though every preparation
\* rewrites v1 in place.
THEOREM WorkersRunApprovedDrafts == Spec => []OnlyApprovedRuns
  <1>1. IInv => OnlyApprovedRuns
    BY DEF IInv, DraftsOK
  <1> QED
    BY <1>1, Invariance, PTL
-----------------------------------------------------------------------------
(* Cleaning: the days of a cleanup                                         *)

Cleanup == [at : {"abandon", "remove", "done"}, left : SUBSET Tracked, dry : BOOLEAN,
            orphans : BOOLEAN, limit : {StaleDays} \cup OlderThan,
            found : SUBSET Children, seen : SUBSET Tracked, day : 0..LastDay]

CleaningTypes ==
    /\ today \in 0..LastDay
    /\ modified \in [Children -> 0..Gone]
    /\ phase \in [Tracked -> {"none", "pending", "executing", "completed"}]
    /\ listed \in [entries : SUBSET Tracked, unfinished : SUBSET Tracked]
    /\ cleaning \in Cleanup \cup {NotCleaning}
    /\ born \in [Tracked -> 0..LastDay]

\* The directory of the runs is as young as its youngest run; of the runs a scan
\* saw it has only a directory to remove that had been older than the limit.
YoungestInv ==
    /\ \A c \in Children : There(c) => modified[c] <= today
    /\ \A r \in Tracked : phase[r] # "none" =>
          There("runs") /\ born[r] <= modified["runs"]
    /\ cleaning.at = "remove" /\ "runs" \in cleaning.found =>
          \A r \in cleaning.seen : phase[r] # "none" /\ cleaning.day - born[r] > cleaning.limit

CleaningInv == CleaningTypes /\ YoungestInv

LEMMA CleaningInitInv == CleaningInit => CleaningInv
<1> SUFFICES ASSUME CleaningInit PROVE CleaningInv
  OBVIOUS
<1>1. Gone \in Nat /\ 0 \in 0..Gone /\ Gone \in 0..Gone /\ 0 \in 0..LastDay
  BY CleaningAssumption DEF Gone
<1>2. CleaningTypes
  BY <1>1 DEF CleaningInit, CleaningTypes, EmptyList
<1>3. \A c \in Children : There(c) => modified[c] <= today
  BY <1>1 DEF CleaningInit, There
<1>4. cleaning.at = "idle" /\ \A r \in Tracked : phase[r] = "none"
  BY DEF CleaningInit, NotCleaning
<1> QED
  BY <1>2, <1>3, <1>4 DEF CleaningInv, YoungestInv

LEMMA GoneIsALastDay == Gone \in Nat /\ \A d \in 0..LastDay : d \in 0..Gone /\ d # Gone
BY CleaningAssumption DEF Gone

LEMMA NewDayKeeps == CleaningInv /\ NewDay => CleaningInv'
<1> SUFFICES ASSUME CleaningInv, NewDay PROVE CleaningInv'
  OBVIOUS
<1>1. today' \in 0..LastDay
  BY CleaningAssumption DEF NewDay, CleaningInv, CleaningTypes
<1> QED
  BY <1>1 DEF NewDay, CleaningInv, CleaningTypes, YoungestInv, There

\* A new run makes the directory of the runs a day of today's.
LEMMA CreateRunKeeps ==
    ASSUME CleaningInv, NEW r \in Tracked, CreateRunDirectory(r) PROVE CleaningInv'
<1> USE DEF CleaningInv
<1>1. /\ phase[r] = "none" /\ phase' = [phase EXCEPT ![r] = "pending"]
      /\ born' = [born EXCEPT ![r] = today]
      /\ modified' = [modified EXCEPT !["runs"] = today]
      /\ UNCHANGED <<today, listed, cleaning>>
  BY DEF CreateRunDirectory, Touch
<1>2. "runs" \in Children /\ today \in 0..LastDay /\ today \in 0..Gone /\ today # Gone
  BY CleaningAssumption, GoneIsALastDay DEF CleaningTypes
<1>3. CleaningTypes'
  BY <1>1, <1>2 DEF CleaningTypes
<1>4. modified'["runs"] = today /\ There("runs")'
  BY <1>1, <1>2 DEF CleaningTypes, There, Gone
<1>5. \A c \in Children : There(c)' => modified'[c] <= today
  BY <1>1, <1>2 DEF CleaningTypes, YoungestInv, There, Gone
<1>6. \A s \in Tracked : born'[s] <= today \/ phase'[s] = "none"
  <2>1. \A s \in Tracked : phase[s] # "none" => born[s] <= today
    BY <1>2 DEF CleaningTypes, YoungestInv
  <2> QED
    BY <1>1, <1>2, <2>1 DEF CleaningTypes
<1>7. ~(cleaning.at = "remove" /\ "runs" \in cleaning.found /\ r \in cleaning.seen)
  BY <1>1 DEF YoungestInv
<1>8. cleaning.at = "remove" /\ "runs" \in cleaning.found =>
        \A s \in cleaning.seen : phase'[s] # "none" /\ cleaning.day - born'[s] > cleaning.limit
  <2>1. ASSUME cleaning.at = "remove", "runs" \in cleaning.found, NEW s \in cleaning.seen
        PROVE  phase'[s] # "none" /\ cleaning.day - born'[s] > cleaning.limit
    <3>1. s # r /\ s \in Tracked
      BY <1>7, <2>1 DEF CleaningTypes, Cleanup, NotCleaning
    <3>2. phase'[s] = phase[s] /\ born'[s] = born[s]
      BY <1>1, <3>1 DEF CleaningTypes
    <3> QED
      BY <2>1, <3>2 DEF YoungestInv
  <2> QED
    BY <2>1
<1> QED
  BY <1>1, <1>3, <1>4, <1>5, <1>6, <1>8 DEF YoungestInv

\* The other steps of runs leave the directory of the runs alone.
LEMMA RunStepKeeps ==
    ASSUME CleaningInv, NEW r \in Tracked, RunGoesOn(r) \/ ListRunStarted(r) \/ DelistRun(r)
    PROVE  CleaningInv'
<1> USE DEF CleaningInv
<1>1. /\ UNCHANGED <<today, cleaning, born>>
      /\ modified' \in {modified, [modified EXCEPT !["index"] = today]}
  BY DEF RunGoesOn, ListRunStarted, DelistRun, Touch
<1>2. /\ \A s \in Tracked : phase'[s] = "none" <=> phase[s] = "none"
      /\ phase' \in [Tracked -> {"none", "pending", "executing", "completed"}]
  BY DEF RunGoesOn, ListRunStarted, DelistRun, CleaningTypes
<1>3. listed' \in [entries : SUBSET Tracked, unfinished : SUBSET Tracked]
  <2>1. listed.entries \in SUBSET Tracked /\ listed.unfinished \in SUBSET Tracked
    BY DEF CleaningTypes
  <2> QED
    BY <2>1 DEF RunGoesOn, ListRunStarted, DelistRun, CleaningTypes
<1>4. "index" \in Children /\ today \in 0..LastDay /\ today \in 0..Gone /\ today # Gone
  BY CleaningAssumption, GoneIsALastDay DEF CleaningTypes
<1>5. CleaningTypes'
  BY <1>1, <1>2, <1>3, <1>4 DEF CleaningTypes
<1>6. modified'["runs"] = modified["runs"]
  BY <1>1, CleaningAssumption DEF CleaningTypes
<1>7. \A c \in Children : There(c)' => modified'[c] <= today
  BY <1>1, <1>4 DEF CleaningTypes, YoungestInv, There, Gone
<1>8. \A s \in cleaning.seen : cleaning.at = "remove" => s \in Tracked
  BY DEF CleaningTypes, Cleanup, NotCleaning
<1> QED
  BY <1>1, <1>2, <1>5, <1>6, <1>7, <1>8 DEF YoungestInv, There, Gone

\* A scan takes the directory of the runs only when it, and with it every run, is
\* older than the limit; a removal takes all the runs that were seen.
LEMMA CleanStepKeeps ==
    ASSUME CleaningInv, cleaning.at # "idle" \/ cleaning'.at = "abandon",
           \/ \E a, dry, orphans, limit :
                 /\ a \in SUBSET Tracked /\ dry \in BOOLEAN /\ orphans \in BOOLEAN
                 /\ limit \in {StaleDays} \cup OlderThan
                 /\ StartClean(a, dry, orphans, limit)
           \/ \E r \in Tracked : AbandonListed(r)
           \/ \E c \in Children : KeepChild(c)
           \/ EndClean
    PROVE  CleaningInv'
<1> USE DEF CleaningInv
<1>1. CASE \E a, dry, orphans, limit :
                 /\ a \in SUBSET Tracked /\ dry \in BOOLEAN /\ orphans \in BOOLEAN
                 /\ limit \in {StaleDays} \cup OlderThan
                 /\ StartClean(a, dry, orphans, limit)
  <2>1. cleaning' \in Cleanup /\ cleaning'.at = "abandon"
    BY <1>1, CleaningAssumption DEF StartClean, Cleanup
  <2> QED
    BY <1>1, <2>1 DEF StartClean, CleaningTypes, YoungestInv, There, Gone
<1>2. ASSUME NEW r \in Tracked, AbandonListed(r) PROVE CleaningInv'
  <2>1. cleaning \in Cleanup /\ cleaning.at = "abandon"
    BY <1>2 DEF AbandonListed, CleaningTypes, NotCleaning
  <2>2. cleaning' \in Cleanup /\ cleaning'.at = "abandon"
    BY <1>2, <2>1 DEF AbandonListed, Cleanup
  <2>3. "index" \in Children /\ today \in 0..LastDay /\ today \in 0..Gone /\ today # Gone
    BY CleaningAssumption, GoneIsALastDay DEF CleaningTypes
  <2>4. /\ modified' \in {modified, [modified EXCEPT !["index"] = today]}
        /\ UNCHANGED <<today, phase, born>>
    BY <1>2 DEF AbandonListed, Touch
  <2>5. listed' \in [entries : SUBSET Tracked, unfinished : SUBSET Tracked]
    BY <1>2 DEF AbandonListed, CleaningTypes
  <2>6. CleaningTypes'
    BY <2>2, <2>3, <2>4, <2>5 DEF CleaningTypes
  <2>7. modified'["runs"] = modified["runs"]
    BY <2>4, CleaningAssumption DEF CleaningTypes
  <2>8. \A c \in Children : There(c)' => modified'[c] <= today
    BY <2>3, <2>4 DEF CleaningTypes, YoungestInv, There, Gone
  <2> QED
    BY <2>2, <2>4, <2>6, <2>7, <2>8 DEF YoungestInv, There, Gone
<1>3. ASSUME NEW c \in Children, KeepChild(c) PROVE CleaningInv'
  <2>1. cleaning \in Cleanup
    BY <1>3 DEF KeepChild, CleaningTypes, NotCleaning
  <2>2. cleaning' \in Cleanup /\ cleaning'.at = cleaning.at /\ cleaning'.found \subseteq cleaning.found
        /\ cleaning'.seen = cleaning.seen /\ cleaning'.day = cleaning.day
        /\ cleaning'.limit = cleaning.limit
    BY <1>3, <2>1 DEF KeepChild, Cleanup
  <2> QED
    BY <1>3, <2>2 DEF KeepChild, CleaningTypes, YoungestInv, There, Gone
<1>4. CASE EndClean
  BY <1>4 DEF EndClean, CleaningTypes, YoungestInv, NotCleaning, There, Gone
<1> QED
  BY <1>1, <1>2, <1>3, <1>4

LEMMA ScanKeeps == CleaningInv /\ ScanChildren => CleaningInv'
<1> SUFFICES ASSUME CleaningInv, ScanChildren PROVE CleaningInv'
  OBVIOUS
<1> USE DEF CleaningInv
<1> DEFINE at == IF cleaning.dry THEN "done" ELSE "remove"
           found == {c \in Children : Expired(c) /\ (cleaning.orphans => ~Known(c))}
           seen == {r \in Tracked : phase[r] # "none"}
<1>1. cleaning \in Cleanup
  BY DEF ScanChildren, CleaningTypes, NotCleaning
<1>2. /\ cleaning' = [cleaning EXCEPT !.at = at, !.found = found, !.seen = seen, !.day = today]
      /\ UNCHANGED <<today, modified, phase, listed, born>>
  BY DEF ScanChildren
<1>3. "runs" \in found => today - modified["runs"] > cleaning.limit
  BY CleaningAssumption DEF Expired
<1>4. found \in SUBSET Children /\ seen \in SUBSET Tracked /\ at \in {"done", "remove"}
      /\ today \in 0..LastDay /\ \A r \in seen : phase[r] # "none"
  BY DEF CleaningTypes
<1> HIDE DEF at, found, seen
<1>5. /\ cleaning' \in Cleanup /\ cleaning'.found = found /\ cleaning'.seen = seen
      /\ cleaning'.day = today /\ cleaning'.limit = cleaning.limit
  BY <1>1, <1>2, <1>4 DEF Cleanup
<1>6. CleaningTypes'
  BY <1>2, <1>5 DEF CleaningTypes
<1>7. ASSUME "runs" \in found, NEW r \in seen PROVE today - born[r] > cleaning.limit
  <2>1. born[r] \in 0..LastDay /\ modified["runs"] \in 0..Gone /\ today \in 0..LastDay
        /\ cleaning.limit \in Nat /\ Gone \in Nat /\ LastDay \in Nat
    BY <1>1, <1>4, CleaningAssumption, GoneIsALastDay DEF CleaningTypes, Cleanup
  <2>2. born[r] <= modified["runs"]
    BY <1>4, <1>7 DEF YoungestInv
  <2> QED
    BY <1>3, <1>7, <2>1, <2>2
<1> QED
  BY <1>2, <1>4, <1>5, <1>6, <1>7 DEF YoungestInv, There, Gone

LEMMA RemoveChildKeeps ==
    ASSUME CleaningInv, NEW c \in Children, RemoveChild(c) PROVE CleaningInv'
<1> USE DEF CleaningInv
<1>1. /\ cleaning.at = "remove" /\ c \in cleaning.found
      /\ cleaning' = [cleaning EXCEPT !.found = @ \ {c}]
      /\ modified' = [modified EXCEPT ![c] = Gone]
      /\ UNCHANGED <<today, born>>
  BY DEF RemoveChild
<1>2. cleaning \in Cleanup
  BY <1>1 DEF CleaningTypes, NotCleaning
<1>3. /\ cleaning' \in Cleanup /\ cleaning'.found = cleaning.found \ {c}
      /\ cleaning'.seen = cleaning.seen /\ cleaning'.day = cleaning.day
      /\ cleaning'.limit = cleaning.limit /\ cleaning'.at = "remove"
  BY <1>1, <1>2 DEF Cleanup
<1>4. /\ phase' = (IF c = "runs" THEN [r \in Tracked |-> "none"] ELSE phase)
      /\ listed' \in {EmptyList, listed}
  BY DEF RemoveChild
<1>5. CleaningTypes'
  BY <1>1, <1>3, <1>4, GoneIsALastDay DEF CleaningTypes, EmptyList
<1>6. \A d \in Children : There(d)' => modified'[d] <= today
  BY <1>1 DEF CleaningTypes, YoungestInv, There, Gone
<1>7. CASE c = "runs"
  BY <1>1, <1>3, <1>4, <1>5, <1>6, <1>7 DEF YoungestInv
<1>8. CASE c # "runs"
  <2>1. modified'["runs"] = modified["runs"] /\ phase' = phase
    BY <1>1, <1>4, <1>8
  <2> QED
    BY <1>1, <1>3, <1>5, <1>6, <2>1 DEF YoungestInv, There, Gone
<1> QED
  BY <1>7, <1>8

LEMMA CleaningNextInv == CleaningInv /\ [CleaningNext]_cleaningVars => CleaningInv'
<1> SUFFICES ASSUME CleaningInv, [CleaningNext]_cleaningVars PROVE CleaningInv'
  OBVIOUS
<1>1. CASE NewDay
  BY <1>1, NewDayKeeps
<1>2. ASSUME NEW r \in Tracked,
             CreateRunDirectory(r) \/ RunGoesOn(r) \/ ListRunStarted(r) \/ DelistRun(r)
      PROVE  CleaningInv'
  BY <1>2, CreateRunKeeps, RunStepKeeps
<1>3. ASSUME NEW a \in SUBSET Tracked, NEW dry \in BOOLEAN, NEW orphans \in BOOLEAN,
             NEW limit \in {StaleDays} \cup OlderThan, StartClean(a, dry, orphans, limit)
      PROVE  CleaningInv'
  <2>1. cleaning'.at = "abandon"
    BY <1>3 DEF StartClean
  <2> QED
    BY <1>3, <2>1, CleanStepKeeps
<1>4. \A ch : OfChange(ch) \in SUBSET Tracked
  BY DEF OfChange, CleaningInv, CleaningTypes
<1>5. ASSUME NEW r \in Tracked, CleanOnEntry(ChangeOf[r]) PROVE CleaningInv'
  BY <1>3, <1>4, <1>5 DEF CleanOnEntry
<1>6. ASSUME NEW dry \in BOOLEAN, NEW orphans \in BOOLEAN,
             NEW limit \in {StaleDays} \cup OlderThan, Clean(dry, orphans, limit)
      PROVE  CleaningInv'
  BY <1>3, <1>4, <1>6 DEF Clean
<1>7. ASSUME NEW r \in Tracked, AbandonListed(r) PROVE CleaningInv'
  <2>1. cleaning.at # "idle"
    BY <1>7 DEF AbandonListed
  <2> QED
    BY <1>7, <2>1, CleanStepKeeps
<1>8. ASSUME NEW c \in Children, KeepChild(c) PROVE CleaningInv'
  <2>1. cleaning.at # "idle"
    BY <1>8 DEF KeepChild
  <2> QED
    BY <1>8, <2>1, CleanStepKeeps
<1>9. CASE EndClean
  <2>1. cleaning.at # "idle"
    BY <1>9 DEF EndClean
  <2> QED
    BY <1>9, <2>1, CleanStepKeeps
<1>10. CASE ScanChildren
  BY <1>10, ScanKeeps
<1>11. ASSUME NEW c \in Children, RemoveChild(c) PROVE CleaningInv'
  BY <1>11, RemoveChildKeeps
<1>12. CASE UNCHANGED cleaningVars
  BY <1>12 DEF cleaningVars, CleaningInv, CleaningTypes, YoungestInv, There
<1> QED
  BY <1>1, <1>2, <1>5, <1>6, <1>7, <1>8, <1>9, <1>10, <1>11, <1>12 DEF CleaningNext

\* For any runs, days and limits: a cleanup removes the run.json of a run it saw
\* only when the run was older than the limit it was given, because the directory
\* the runs share is never older than its youngest run (cleanup.ts:48-110).
THEOREM RecentRunsSurvive == CleaningSpec => RecentRunsKept
<1>1. CleaningInv /\ [CleaningNext]_cleaningVars =>
        [\A r \in Tracked :
            Removed(r) /\ r \in cleaning.seen => cleaning.day - born[r] > cleaning.limit]_cleaningVars
  <2> SUFFICES ASSUME CleaningInv, CleaningNext, NEW r \in Tracked, Removed(r), r \in cleaning.seen
               PROVE  cleaning.day - born[r] > cleaning.limit
    BY DEF Removed
  <2>1. PICK c \in Children : RemoveChild(c)
    BY DEF CleaningNext, Removed, NewDay, CreateRunDirectory, RunGoesOn, ListRunStarted,
           DelistRun, CleanOnEntry, Clean, StartClean, AbandonListed, ScanChildren,
           KeepChild, EndClean, CleaningInv, CleaningTypes
  <2>2. c = "runs" /\ cleaning.at = "remove" /\ "runs" \in cleaning.found
    BY <2>1 DEF RemoveChild, Removed
  <2> QED
    BY <2>2 DEF CleaningInv, YoungestInv
<1> QED
  BY <1>1, CleaningInitInv, CleaningNextInv, PTL DEF CleaningSpec, RecentRunsKept
-----------------------------------------------------------------------------
(* AnalysisCache: what a description on disk is known to show              *)

Analyses == [at : {"look", "decide", "read", "write", "writing", "hash", "noting"},
             what : Descriptions, path : Paths \cup {Nothing}, seen : Metadata \cup Structures,
             shows : Structures \cup {Nothing}, overtaken : BOOLEAN]

AnalysisTypes ==
    /\ structure \in Structures
    /\ written \in [Descriptions -> Shown]
    /\ metadata \in [Descriptions -> Metadata]
    /\ analyst \in [Analysts -> Analyses \cup {NoAnalysis}]
    /\ author \in [Descriptions -> Analysts \cup {Nothing}]
    /\ spoilt \in [Descriptions -> BOOLEAN]

\* A description is there whole, as an analysis meant it, or it is gone.
ShowsOrGone(d, of, path) ==
    written[d].of = Nothing \/ (written[d].of = of /\ written[d].path = path)

\* What is not spoilt shows what its metadata says.
SettledInv ==
    \A d \in Descriptions : ~spoilt[d] /\ metadata[d] # Nothing =>
        ShowsOrGone(d, metadata[d].hash, metadata[d].path)

\* A build that was not overtaken is about the structure as it is, until its hash
\* is taken, and about the hash from then on; what its session wrote last is what
\* the build shows.
BuildInv(a) ==
    LET b == analyst[a]
    IN  /\ b.at = "decide" => b.seen # Nothing
        /\ b.at \in {"write", "writing", "hash"} /\ ~b.overtaken => b.shows = structure
        /\ b.at = "noting" /\ ~b.overtaken => b.seen = b.shows
        /\ b.at = "noting" => b.seen \in Structures
        /\ b.at \in {"hash", "noting"} /\ author[b.what] = a => ShowsOrGone(b.what, b.shows, b.path)

AnswerInv == FreshShowsPresent

AnalysisInv ==
    AnalysisTypes /\ SettledInv /\ (\A a \in Analysts : BuildInv(a)) /\ AnswerInv

LEMMA AnalysisInitInv == AnalysisInit => AnalysisInv
BY DEF AnalysisInit, AnalysisInv, AnalysisTypes, Shown, Metadata, NoAnalysis, SettledInv,
       BuildInv, AnswerInv, FreshShowsPresent

\* What a step of one session does to its own analysis, when nothing else changes.
LEMMA AnalysisStepKeeps ==
    ASSUME AnalysisInv, NEW a \in Analysts,
           \/ \E d \in Descriptions, p \in Paths \cup {Nothing} : Ask(a, d, p)
           \/ LookUp(a) \/ ReadForMap(a) \/ ReadForReconnaissance(a) \/ StopAnalysis(a)
    PROVE  AnalysisInv'
<1> USE DEF AnalysisInv
<1>1. UNCHANGED <<structure, written, metadata, author, spoilt, answer>>
  BY DEF Ask, LookUp, ReadForMap, ReadForReconnaissance, Read, StopAnalysis
<1>2. /\ analyst[a] \in Analyses \cup {NoAnalysis}
      /\ structure \in Structures
  BY DEF AnalysisTypes
<1>3. \E e \in Analyses \cup {NoAnalysis} :
        /\ analyst' = [analyst EXCEPT ![a] = e]
        /\ \/ e.at \in {"idle", "look", "read"}
           \/ e.at = "decide" /\ e.seen # Nothing
           \/ e.at = "write" /\ e.shows = structure
  <2>1. ASSUME NEW d \in Descriptions, NEW p \in Paths \cup {Nothing}, Ask(a, d, p)
        PROVE  Asked(d, p) \in Analyses /\ Asked(d, p).at = "look"
    BY DEF Asked, Analyses, Metadata
  <2>2. CASE LookUp(a)
    <3> DEFINE m == metadata[analyst[a].what]
               e == [analyst[a] EXCEPT !.seen = m,
                                       !.at = IF m = Nothing THEN "read" ELSE "decide"]
    <3>1. analyst[a] \in Analyses
      BY <1>2, <2>2 DEF LookUp, At, NoAnalysis
    <3>2. m \in Metadata
      BY <3>1 DEF AnalysisTypes, Analyses
    <3>3. analyst' = [analyst EXCEPT ![a] = e]
      BY <2>2 DEF LookUp, AnalysisTypes
    <3> HIDE DEF m
    <3>4. e \in Analyses /\ (e.at = "read" \/ (e.at = "decide" /\ e.seen # Nothing))
      BY <3>1, <3>2 DEF Analyses
    <3> HIDE DEF e
    <3> QED
      BY <3>3, <3>4
  <2>3. CASE Read(a)
    <3> DEFINE e == [analyst[a] EXCEPT !.at = "write", !.shows = structure]
    <3>1. analyst[a] \in Analyses
      BY <1>2, <2>3 DEF Read, At, NoAnalysis
    <3>2. analyst' = [analyst EXCEPT ![a] = e]
      BY <2>3 DEF Read, AnalysisTypes
    <3>3. e \in Analyses /\ e.at = "write" /\ e.shows = structure
      BY <1>2, <3>1 DEF Analyses
    <3> HIDE DEF e
    <3> QED
      BY <3>2, <3>3
  <2>4. CASE StopAnalysis(a)
    <3>1. analyst' = [analyst EXCEPT ![a] = NoAnalysis] /\ NoAnalysis.at = "idle"
      BY <2>4 DEF StopAnalysis, Ends, NoAnalysis
    <3> QED
      BY <3>1
  <2>5. CASE \E d \in Descriptions, p \in Paths \cup {Nothing} : Ask(a, d, p)
    BY <2>1, <2>5 DEF Ask
  <2> QED
    BY <2>2, <2>3, <2>4, <2>5 DEF ReadForMap, ReadForReconnaissance
<1>4. PICK e \in Analyses \cup {NoAnalysis} :
        /\ analyst' = [analyst EXCEPT ![a] = e]
        /\ \/ e.at \in {"idle", "look", "read"}
           \/ e.at = "decide" /\ e.seen # Nothing
           \/ e.at = "write" /\ e.shows = structure
  BY <1>3
<1>5. analyst'[a] = e /\ \A c \in Analysts \ {a} : analyst'[c] = analyst[c]
  BY <1>4 DEF AnalysisTypes
<1>6. AnalysisTypes'
  BY <1>1, <1>4 DEF AnalysisTypes
<1>7. BuildInv(a)'
  BY <1>1, <1>4, <1>5 DEF BuildInv
<1>8. \A c \in Analysts \ {a} : BuildInv(c)'
  BY <1>1, <1>5 DEF BuildInv, ShowsOrGone
<1> QED
  BY <1>1, <1>6, <1>7, <1>8 DEF SettledInv, ShowsOrGone, AnswerInv, FreshShowsPresent

\* Fresh is said of what is settled only when it shows the structure as it is.
LEMMA DecideKeeps ==
    ASSUME AnalysisInv, NEW a \in Analysts, DecideFresh(a) PROVE AnalysisInv'
<1> USE DEF AnalysisInv
<1> DEFINE b == analyst[a]
<1>1. UNCHANGED <<structure, written, metadata, author, spoilt>> /\ b.at = "decide"
  BY DEF DecideFresh, At
<1>2. b \in Analyses /\ b.seen # Nothing
  BY <1>1 DEF AnalysisTypes, NoAnalysis, BuildInv
<1>3. CASE IsFresh(b) /\ StillDescribed(b)
  <2>1. /\ answer' = [shown |-> written[b.what], now |-> structure, path |-> b.path,
                      settled |-> ~spoilt[b.what] /\ metadata[b.what] = b.seen]
        /\ analyst' = [analyst EXCEPT ![a] = NoAnalysis]
    BY <1>3 DEF DecideFresh, Ends
  <2>2. b.what \in Descriptions
    BY <1>2 DEF Analyses
  <2>3. ~spoilt[b.what] /\ metadata[b.what] = b.seen =>
          /\ written[b.what].of = structure
          /\ b.path # Nothing => written[b.what].path = b.path
    BY <1>2, <1>3, <2>2 DEF SettledInv, ShowsOrGone, IsFresh
  <2>4. FreshShowsPresent'
    BY <2>1, <2>3 DEF FreshShowsPresent
  <2>5. analyst'[a].at = "idle" /\ \A c \in Analysts \ {a} : analyst'[c] = analyst[c]
    BY <2>1 DEF AnalysisTypes, NoAnalysis
  <2>6. AnalysisTypes'
    BY <1>1, <2>1 DEF AnalysisTypes
  <2>7. \A c \in Analysts : BuildInv(c)'
    BY <1>1, <2>5 DEF BuildInv, ShowsOrGone
  <2> QED
    BY <1>1, <2>4, <2>6, <2>7 DEF SettledInv, ShowsOrGone, AnswerInv
<1>4. CASE ~(IsFresh(b) /\ StillDescribed(b))
  <2> DEFINE e == [b EXCEPT !.at = "read"]
  <2>1. analyst' = [analyst EXCEPT ![a] = e] /\ answer' = answer
    BY <1>4 DEF DecideFresh, GoesOn, AnalysisTypes
  <2>2. e \in Analyses /\ e.at = "read"
    BY <1>2 DEF Analyses
  <2> HIDE DEF e
  <2>3. analyst'[a] = e /\ \A c \in Analysts \ {a} : analyst'[c] = analyst[c]
    BY <2>1 DEF AnalysisTypes
  <2>4. AnalysisTypes'
    BY <1>1, <2>1, <2>2 DEF AnalysisTypes
  <2>5. \A c \in Analysts : BuildInv(c)'
    BY <1>1, <2>2, <2>3 DEF BuildInv, ShowsOrGone
  <2> QED
    BY <1>1, <2>1, <2>4, <2>5 DEF SettledInv, ShowsOrGone, AnswerInv, FreshShowsPresent
<1> QED
  BY <1>3, <1>4
\* A description being written is spoilt, and its last author is its own.
LEMMA DescriptionKeeps ==
    ASSUME AnalysisInv, NEW a \in Analysts, BeginDescription(a) \/ EndDescription(a)
    PROVE  AnalysisInv'
<1> USE DEF AnalysisInv
<1> DEFINE b == analyst[a]
           d == b.what
<1>1. /\ UNCHANGED <<structure, metadata, answer>>
      /\ author' = [author EXCEPT ![d] = a]
      /\ spoilt' = [spoilt EXCEPT ![d] = TRUE]
      /\ b.at \in {"write", "writing"}
  BY DEF BeginDescription, EndDescription, At
<1>2. b \in Analyses /\ d \in Descriptions
  BY <1>1 DEF AnalysisTypes, NoAnalysis, Analyses
<1>3. PICK w \in Shown, l \in {"writing", "hash"} :
        /\ written' = [written EXCEPT ![d] = w]
        /\ analyst' = [analyst EXCEPT ![a] = [b EXCEPT !.at = l]]
        /\ l = "hash" => w.of = b.shows /\ w.path = b.path
  <2>1. CASE BeginDescription(a)
    <3>1. [of |-> HalfWritten, path |-> Nothing] \in Shown
      BY DEF Shown
    <3>2. written' = [written EXCEPT ![d] = [of |-> HalfWritten, path |-> Nothing]]
      BY <2>1 DEF BeginDescription
    <3>3. analyst' = [analyst EXCEPT ![a] = [b EXCEPT !.at = "writing"]]
      BY <2>1 DEF BeginDescription, GoesOn, AnalysisTypes
    <3> QED
      BY <3>1, <3>2, <3>3
  <2>2. CASE EndDescription(a)
    <3> DEFINE w == [of |-> b.shows, path |-> b.path]
    <3>1. w \in Shown
      BY <1>2 DEF Shown, Analyses
    <3>2. written' = [written EXCEPT ![d] = w]
      BY <2>2 DEF EndDescription
    <3>3. analyst' = [analyst EXCEPT ![a] = [b EXCEPT !.at = "hash"]]
      BY <2>2 DEF EndDescription, GoesOn, AnalysisTypes
    <3>4. w.of = b.shows /\ w.path = b.path
      OBVIOUS
    <3> HIDE DEF w
    <3> QED
      BY <3>1, <3>2, <3>3, <3>4
  <2> QED
    BY <2>1, <2>2
<1> DEFINE e == [b EXCEPT !.at = l]
<1>4. /\ e \in Analyses /\ e.at = l /\ e.what = d /\ e.path = b.path /\ e.seen = b.seen
      /\ e.shows = b.shows /\ e.overtaken = b.overtaken
  BY <1>2 DEF Analyses
<1>5. analyst'[a] = e /\ \A c \in Analysts \ {a} : analyst'[c] = analyst[c]
  BY <1>3 DEF AnalysisTypes
<1>6. AnalysisTypes'
  <2>1. analyst' \in [Analysts -> Analyses \cup {NoAnalysis}]
    BY <1>3, <1>4 DEF AnalysisTypes
  <2> QED
    BY <1>1, <1>2, <1>3, <2>1 DEF AnalysisTypes
<1>7. /\ written'[d] = w /\ author'[d] = a /\ spoilt'[d] = TRUE
      /\ \A x \in Descriptions \ {d} :
            written'[x] = written[x] /\ author'[x] = author[x] /\ spoilt'[x] = spoilt[x]
  BY <1>1, <1>2, <1>3 DEF AnalysisTypes
<1>8. BuildInv(a)'
  <2>1. ~b.overtaken => b.shows = structure
    BY <1>1 DEF BuildInv
  <2> HIDE DEF e, b
  <2> QED
    BY <1>1, <1>3, <1>4, <1>5, <1>7, <2>1 DEF BuildInv, ShowsOrGone
<1>9. ASSUME NEW c \in Analysts \ {a} PROVE BuildInv(c)'
  <2>1. analyst[c].at \in {"hash", "noting"} => analyst[c].what \in Descriptions
    BY DEF AnalysisTypes, Analyses, NoAnalysis
  <2>2. BuildInv(c) /\ analyst'[c] = analyst[c] /\ structure' = structure
    BY <1>1, <1>5
  <2>3. analyst[c].at \in {"hash", "noting"} /\ author'[analyst[c].what] = c =>
           /\ author[analyst[c].what] = c
           /\ written'[analyst[c].what] = written[analyst[c].what]
    BY <1>7, <2>1
  <2> HIDE DEF e, d, b
  <2> QED
    BY <2>2, <2>3 DEF BuildInv, ShowsOrGone
<1>10. SettledInv'
  BY <1>1, <1>7 DEF SettledInv, ShowsOrGone
<1> QED
  BY <1>1, <1>6, <1>8, <1>9, <1>10 DEF AnswerInv, FreshShowsPresent

\* The hash is taken with the description written; while its metadata is written
\* there is none.
LEMMA HashKeeps ==
    ASSUME AnalysisInv, NEW a \in Analysts, HashAndBegin(a) PROVE AnalysisInv'
<1> USE DEF AnalysisInv
<1> DEFINE b == analyst[a]
           e == [b EXCEPT !.at = "noting", !.seen = structure]
<1>1. /\ UNCHANGED <<structure, written, author, spoilt, answer>> /\ b.at = "hash"
      /\ metadata' = [metadata EXCEPT ![b.what] = Nothing]
  BY DEF HashAndBegin, At
<1>2. b \in Analyses /\ b.what \in Descriptions /\ structure \in Structures
  BY <1>1 DEF AnalysisTypes, NoAnalysis, Analyses
<1>3. /\ e \in Analyses /\ e.at = "noting" /\ e.what = b.what /\ e.path = b.path
      /\ e.seen = structure /\ e.shows = b.shows /\ e.overtaken = b.overtaken
  BY <1>2 DEF Analyses
<1>4. analyst' = [analyst EXCEPT ![a] = e]
  BY DEF HashAndBegin, AnalysisTypes
<1>5. analyst'[a] = e /\ \A c \in Analysts \ {a} : analyst'[c] = analyst[c]
  BY <1>4 DEF AnalysisTypes
<1>6. AnalysisTypes'
  <2>1. analyst' \in [Analysts -> Analyses \cup {NoAnalysis}]
    BY <1>3, <1>4 DEF AnalysisTypes
  <2> QED
    BY <1>1, <1>2, <2>1 DEF AnalysisTypes, Metadata
<1>7. BuildInv(a)'
  <2>1. /\ ~b.overtaken => b.shows = structure
        /\ author[b.what] = a => ShowsOrGone(b.what, b.shows, b.path)
    BY <1>1 DEF BuildInv
  <2> HIDE DEF e, b
  <2> QED
    BY <1>1, <1>2, <1>3, <1>5, <2>1 DEF BuildInv, ShowsOrGone
<1>8. \A c \in Analysts \ {a} : BuildInv(c)'
  BY <1>1, <1>5 DEF BuildInv, ShowsOrGone
<1>9. SettledInv'
  <2>1. \A d \in Descriptions : metadata'[d] \in {Nothing, metadata[d]}
    BY <1>1, <1>2 DEF AnalysisTypes
  <2> QED
    BY <1>1, <2>1 DEF SettledInv, ShowsOrGone
<1> QED
  BY <1>1, <1>6, <1>7, <1>8, <1>9 DEF AnswerInv, FreshShowsPresent

\* Metadata settles a description that its own session wrote last, of a structure
\* that did not change in between.
LEMMA MetadataKeeps ==
    ASSUME AnalysisInv, NEW a \in Analysts, EndMetadata(a) PROVE AnalysisInv'
<1> USE DEF AnalysisInv
<1> DEFINE b == analyst[a]
           m == [hash |-> b.seen, path |-> b.path]
           s == b.overtaken \/ author[b.what] # a
<1>1. /\ UNCHANGED <<structure, written, author, answer>> /\ b.at = "noting"
      /\ metadata' = [metadata EXCEPT ![b.what] = m]
      /\ spoilt' = [spoilt EXCEPT ![b.what] = s]
      /\ analyst' = [analyst EXCEPT ![a] = NoAnalysis]
  BY DEF EndMetadata, At, Ends
<1>2. b \in Analyses /\ b.what \in Descriptions /\ b.seen \in Structures /\ b.path \in Paths \cup {Nothing}
  BY <1>1 DEF AnalysisTypes, NoAnalysis, Analyses, BuildInv
<1>3. m \in Metadata /\ m.hash = b.seen /\ m.path = b.path
  BY <1>2 DEF Metadata
<1>4. ~s => ShowsOrGone(b.what, m.hash, m.path)
  BY <1>1, <1>3 DEF BuildInv
<1>5. s \in BOOLEAN
  BY <1>2 DEF Analyses
<1> HIDE DEF m, s
<1>6. AnalysisTypes'
  BY <1>1, <1>2, <1>3, <1>5 DEF AnalysisTypes
<1>7. /\ metadata'[b.what] = m /\ spoilt'[b.what] = s
      /\ \A d \in Descriptions \ {b.what} : metadata'[d] = metadata[d] /\ spoilt'[d] = spoilt[d]
  BY <1>1, <1>2 DEF AnalysisTypes
<1>8. SettledInv'
  BY <1>1, <1>4, <1>7 DEF SettledInv, ShowsOrGone
<1>9. analyst'[a].at = "idle" /\ \A c \in Analysts \ {a} : analyst'[c] = analyst[c]
  BY <1>1 DEF AnalysisTypes, NoAnalysis
<1>10. \A c \in Analysts : BuildInv(c)'
  BY <1>1, <1>9 DEF BuildInv, ShowsOrGone
<1> QED
  BY <1>1, <1>6, <1>8, <1>10 DEF AnswerInv, FreshShowsPresent

\* Around the sessions: builds are overtaken by a change; a description that goes
\* shows nothing.
LEMMA AroundKeeps ==
    ASSUME AnalysisInv, ChangeStructure \/ \E d \in Descriptions : LoseDescription(d)
    PROVE  AnalysisInv'
<1> USE DEF AnalysisInv
<1>1. CASE ChangeStructure
  <2>1. /\ UNCHANGED <<written, metadata, author, spoilt, answer>> /\ structure' \in Structures
        /\ analyst' = [c \in Analysts |->
                         IF Building(c) THEN [analyst[c] EXCEPT !.overtaken = TRUE] ELSE analyst[c]]
    BY <1>1 DEF ChangeStructure
  <2>2. ASSUME NEW c \in Analysts
        PROVE  analyst'[c] \in Analyses \cup {NoAnalysis} /\ BuildInv(c)'
    <3>1. analyst[c] \in Analyses \cup {NoAnalysis} /\ BuildInv(c)
      BY DEF AnalysisTypes
    <3>2. CASE Building(c)
      <4> DEFINE b == analyst[c]
                 e == [b EXCEPT !.overtaken = TRUE]
      <4>1. b \in Analyses /\ b.at \in {"write", "writing", "hash"}
        BY <3>1, <3>2 DEF Building, At, NoAnalysis
      <4>2. analyst'[c] = e
        BY <2>1, <3>2
      <4>3. /\ e \in Analyses /\ e.at = b.at /\ e.what = b.what /\ e.path = b.path
            /\ e.shows = b.shows /\ e.overtaken
        BY <4>1 DEF Analyses
      <4>4. b.at \in {"hash", "noting"} /\ author[b.what] = c => ShowsOrGone(b.what, b.shows, b.path)
        BY <3>1 DEF BuildInv
      <4> HIDE DEF e, b
      <4> QED
        BY <2>1, <4>1, <4>2, <4>3, <4>4 DEF BuildInv, ShowsOrGone
    <3>3. CASE ~Building(c)
      <4>1. analyst'[c] = analyst[c]
        BY <2>1, <3>3
      <4>2. analyst[c].at \notin {"write", "writing", "hash"}
        BY <3>3 DEF Building, At
      <4> QED
        BY <2>1, <3>1, <4>1, <4>2 DEF BuildInv, ShowsOrGone
    <3> QED
      BY <3>2, <3>3
  <2>3. AnalysisTypes'
    BY <2>1, <2>2 DEF AnalysisTypes
  <2> QED
    BY <2>1, <2>2, <2>3 DEF SettledInv, ShowsOrGone, AnswerInv, FreshShowsPresent
<1>2. ASSUME NEW d \in Descriptions, LoseDescription(d) PROVE AnalysisInv'
  <2>1. /\ UNCHANGED <<structure, metadata, analyst, author, spoilt, answer>>
        /\ written' = [written EXCEPT ![d] = [of |-> Nothing, path |-> Nothing]]
    BY <1>2 DEF LoseDescription
  <2>2. [of |-> Nothing, path |-> Nothing] \in Shown
    BY DEF Shown
  <2>3. AnalysisTypes'
    BY <2>1, <2>2 DEF AnalysisTypes
  <2>4. \A x \in Descriptions : written'[x].of = Nothing \/ written'[x] = written[x]
    BY <2>1 DEF AnalysisTypes
  <2>5. \A c \in Analysts : analyst[c].at \in {"hash", "noting"} => analyst[c].what \in Descriptions
    BY DEF AnalysisTypes, Analyses, NoAnalysis
  <2>6. \A c \in Analysts : BuildInv(c)'
    BY <2>1, <2>4, <2>5 DEF BuildInv, ShowsOrGone
  <2>7. SettledInv'
    BY <2>1, <2>4 DEF SettledInv, ShowsOrGone
  <2> QED
    BY <2>1, <2>3, <2>6, <2>7 DEF AnswerInv, FreshShowsPresent
<1> QED
  BY <1>1, <1>2

LEMMA AnalysisNextInv == AnalysisInv /\ [AnalysisNext]_analysisVars => AnalysisInv'
<1> SUFFICES ASSUME AnalysisInv, [AnalysisNext]_analysisVars PROVE AnalysisInv'
  OBVIOUS
<1>1. CASE UNCHANGED analysisVars
  BY <1>1 DEF analysisVars, AnalysisInv, AnalysisTypes, SettledInv, BuildInv, ShowsOrGone,
              AnswerInv, FreshShowsPresent
<1>2. CASE AnalysisNext
  BY <1>2, AnalysisStepKeeps, DecideKeeps, DescriptionKeeps, HashKeeps, MetadataKeeps,
     AroundKeeps DEF AnalysisNext
<1> QED
  BY <1>1, <1>2

\* For any number of sessions, paths and changes of the repository: a description
\* called fresh, whose build was not overtaken and ended, shows the structure as it
\* is and the path asked for (repo-map-cache.ts and recon-cache.ts).
THEOREM FreshIsPresent == AnalysisSpec => []FreshShowsPresent
<1>1. AnalysisInv => FreshShowsPresent
  BY DEF AnalysisInv, AnswerInv
<1> QED
  BY <1>1, AnalysisInitInv, AnalysisNextInv, PTL DEF AnalysisSpec
=============================================================================
