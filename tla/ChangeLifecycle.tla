--------------------------- MODULE ChangeLifecycle ---------------------------
(***************************************************************************)
(* The life of one change over the commands of pi-zflow-change-workflows:  *)
(* /zflow-change-prepare writes and approves a plan, /zflow-change-        *)
(* implement runs it, --resume takes an unfinished run up again, --abandon *)
(* gives the unfinished runs up and starts afresh.  One command runs at a  *)
(* time, and what it knows of the earlier ones is in two files:            *)
(* plan-state.json, with the approved version, and state-index.json, with  *)
(* an entry for each run and the list of unfinished runs of the change.    *)
(*                                                                         *)
(* A command is a program counter and the run it works on.  It may end at  *)
(* any step: it returns early, throws, or the process dies.  A file that   *)
(* is written through a temporary one and a rename changes in one step; a  *)
(* file that is written in place is unreadable until the write is over,    *)
(* and stays so when the process dies meanwhile.  While a file is          *)
(* unreadable its other fields hold what it held before.                   *)
(***************************************************************************)
EXTENDS Naturals, FiniteSets

CONSTANTS
    Run,        \* run ids
    NoRun,
    PlanEntry,  \* the id of the plan's entry in the state index
    MaxDrafts   \* bound: times a planner writes the plan

ASSUME LifecycleAssumption ==
    /\ NoRun \notin Run
    /\ PlanEntry \notin Run
    /\ MaxDrafts \in Nat

VARIABLES
    plan,       \* plan-state.json
    content,    \* the artifacts of version v1: which draft they are
    index,      \* state-index.json
    runs,       \* phase of each run.json
    pc,         \* what the command under way does next
    open,       \* is it in the middle of a write in place
    cur,        \* run it works on
    left,       \* runs it has still to abandon
    approved,   \* ghost: drafts the user approved
    ranOn,      \* ghost: drafts the workers of each run were given
    abandoned   \* ghost: runs whose entry was last marked abandoned

planVars == <<plan, content, approved>>
indexVars == <<index, abandoned>>
runVars == <<runs, ranOn>>
vars == <<planVars, indexVars, runVars, pc, open, cur, left>>

\* A plan-state.json that does not exist yet reads as badly as a torn one.
Plan == [readable : BOOLEAN, approved : BOOLEAN]

DraftPlan == [readable |-> TRUE, approved |-> FALSE]
ApprovedPlan == [readable |-> TRUE, approved |-> TRUE]

\* entries are those of the plan and of the runs; known says whether the change
\* has a record, list is its unfinishedRuns.
Index == [readable : BOOLEAN, known : BOOLEAN, list : SUBSET Run,
          entries : SUBSET (Run \cup {PlanEntry})]

EmptyIndex == [readable |-> TRUE, known |-> FALSE, list |-> {},
               entries |-> {}]

Drafts == 0..MaxDrafts

\* "applied" is the phase "completed" that apply-back writes, with verification
\* and review still to come; "completed" is written after them.
Phases == {"unused", "started", "applied", "completed"}

PrepareLabels == {"reset", "addPlan", "source", "notePlan", "planner",
                  "validPlan", "validIndex", "review", "reviewPlan",
                  "reviewIndex", "decide", "approvePlan", "approveIndex",
                  "bumpPlan", "draftPlan", "draftIndex", "cancelPlan"}

RunLabels == {"addRun", "listRun", "dispatch", "outcome", "partialMark",
              "partialList", "activeMark", "redispatch", "stillMark",
              "applyBack", "applied", "finalMark", "postPhase", "postMark",
              "verdict", "donePhase", "doneMark", "donePlan", "doneRun",
              "doneIndex", "delist"}

AbandonLabels == {"abandonMark", "abandonList"}

Labels == {"idle", "abandonNext", "implement", "executing", "createRun"}
            \cup PrepareLabels \cup RunLabels \cup AbandonLabels

TypeOK ==
    /\ plan \in Plan
    /\ content \in Drafts
    /\ index \in Index
    /\ runs \in [Run -> Phases]
    /\ pc \in Labels
    /\ open \in BOOLEAN
    /\ cur \in Run \cup {NoRun}
    /\ left \subseteq Run
    /\ approved \subseteq Drafts
    /\ ranOn \in [Run -> SUBSET Drafts]
    /\ abandoned \subseteq Run

Init ==
    /\ plan = [readable |-> FALSE, approved |-> FALSE]
    /\ content = 0
    /\ index = EmptyIndex
    /\ runs = [r \in Run |-> "unused"]
    /\ pc = "idle" /\ open = FALSE /\ cur = NoRun /\ left = {}
    /\ approved = {}
    /\ ranOn = [r \in Run |-> {}]
    /\ abandoned = {}

\* The command goes on from label l, or from one of several, to label m.
Step(l, m) ==
    /\ pc = l
    /\ pc' = m

-----------------------------------------------------------------------------
(* Writes of the two files                                                 *)

\* fs.writeFile on plan-state.json itself.
PutPlan(l, m, new) ==
    /\ \/ /\ ~open
          /\ Step(l, l)
          /\ open' = TRUE
          /\ plan' = [plan EXCEPT !.readable = FALSE]
       \/ /\ open
          /\ Step(l, m)
          /\ open' = FALSE
          /\ plan' = new
    /\ UNCHANGED <<content, indexVars, runVars, cur, left>>

\* The same after the file was read.
TouchPlan(l, m) ==
    /\ plan.readable \/ open
    /\ PutPlan(l, m, [plan EXCEPT !.readable = TRUE])
    /\ UNCHANGED approved

\* fs.writeFile on state-index.json itself, of what was loaded with the status of
\* some entries changed; without the plan's entry only completion writes.
StampIndex(l, m) ==
    /\ \/ /\ ~open
          /\ index.readable
          /\ PlanEntry \in index.entries \/ l = "doneIndex"
          /\ Step(l, l)
          /\ open' = TRUE
          /\ index' = [index EXCEPT !.readable = FALSE]
       \/ /\ ~open
          /\ index.readable
          /\ PlanEntry \notin index.entries /\ l # "doneIndex"
          /\ Step(l, m)
          /\ UNCHANGED <<open, index>>
       \/ /\ open
          /\ Step(l, m)
          /\ open' = FALSE
          /\ index' = [index EXCEPT !.readable = TRUE]
    /\ UNCHANGED <<planVars, abandoned, runVars, cur, left>>

\* addStateIndexEntry.
AddEntry(l, m, id) ==
    /\ Step(l, m)
    /\ index.readable
    /\ index' = [index EXCEPT !.entries = @ \cup {id}]
    /\ UNCHANGED <<planVars, abandoned, runVars, open, cur, left>>

HasEntry(id) == index.readable /\ id \in index.entries

\* updateStateIndexEntry: it throws without the entry, and all but one of its
\* callers go on.
MarkEntry(l, m, nowAbandoned) ==
    /\ Step(l, m)
    /\ abandoned' = IF HasEntry(cur) THEN nowAbandoned ELSE abandoned
    /\ UNCHANGED <<planVars, index, runVars, open, cur, left>>

\* getChangeLifecycle and upsertChangeLifecycle with a new array of unfinished
\* runs; only a new run makes a record of the change when there is none.
SetList(l, m, list) ==
    /\ Step(l, m)
    /\ index.readable
    /\ index' = IF index.known \/ l = "listRun"
                THEN [index EXCEPT !.known = TRUE, !.list = list]
                ELSE index
    /\ UNCHANGED <<planVars, abandoned, runVars, open, cur, left>>

\* Only the program counter moves.
Go(l, m) ==
    /\ Step(l, m)
    /\ UNCHANGED <<planVars, indexVars, runVars, open, cur, left>>

-----------------------------------------------------------------------------
(* /zflow-change-prepare                                                   *)

PrepareUnchecked ==
    /\ index.readable
    /\ Go("idle", "reset")

\* checkUnfinishedOnEntry: not while the change has unfinished runs.
Prepare ==
    /\ index.readable /\ index.list = {}
    /\ Go("idle", "reset")

\* Every preparation starts version v1 anew, with nothing approved.
ResetPlan ==
    /\ PutPlan("reset", "addPlan", DraftPlan)
    /\ UNCHANGED approved

AddPlan == AddEntry("addPlan", "source", PlanEntry)

\* The artifacts are written from RuneContext documents, when there are any, then
\* by the planner, dispatched once and again for repairs.
WriteArtifacts ==
    /\ pc \in {"source", "planner"}
    /\ content < MaxDrafts
    /\ content' = content + 1
    /\ UNCHANGED <<plan, approved, indexVars, runVars, pc, open, cur, left>>

\* Metadata noted in the plan state between the two.
NoteMetadata ==
    \/ Go("source", "notePlan")
    \/ TouchPlan("notePlan", "planner")

\* The artifacts pass both validations: lifecycle "validated", then the review,
\* which is advisory, then lifecycle "reviewed" when it passed.
Validate ==
    \/ content > 0 /\ Go("planner", "validPlan")
    \/ TouchPlan("validPlan", "validIndex")
    \/ StampIndex("validIndex", "review")

Review ==
    \/ Go("review", "reviewPlan")
    \/ Go("review", "decide")
    \/ TouchPlan("reviewPlan", "reviewIndex")
    \/ StampIndex("reviewIndex", "decide")

\* The user's decision.
Decide ==
    \E m \in {"approvePlan", "bumpPlan", "cancelPlan"} : Go("decide", m)

Approve ==
    \/ /\ plan.readable \/ open
       /\ PutPlan("approvePlan", "approveIndex", ApprovedPlan)
       /\ approved' = IF open THEN approved \cup {content} ELSE approved
    \/ StampIndex("approveIndex", "idle")

\* bumpPlanVersion, advancePlanLifecycle "draft"; updatePlanState "cancelled".
Revise ==
    \/ TouchPlan("bumpPlan", "draftPlan")
    \/ TouchPlan("draftPlan", "draftIndex")
    \/ StampIndex("draftIndex", "idle")

Cancel == TouchPlan("cancelPlan", "idle")

-----------------------------------------------------------------------------
(* /zflow-change-implement, --abandon                                      *)

ImplementUnchecked ==
    /\ index.readable
    /\ Go("idle", "implement")

\* Unfinished runs stop the command, unless it is to abandon them first.
Implement ==
    /\ index.readable
    /\ \/ index.list = {} /\ Step("idle", "implement") /\ UNCHANGED left
       \/ /\ index.list # {}
          /\ Step("idle", "abandonNext")
          /\ left' = index.list
    /\ UNCHANGED <<planVars, indexVars, runVars, open, cur>>

AbandonNext ==
    /\ \/ \E r \in left :
             /\ cur' = r
             /\ left' = left \ {r}
             /\ Step("abandonNext", "abandonMark")
       \/ /\ left = {}
          /\ Step("abandonNext", "implement")
          /\ cur' = NoRun
          /\ UNCHANGED left
    /\ UNCHANGED <<planVars, indexVars, runVars, open>>

\* abandonWorkflow catches what it throws, and the loop goes on.
Abandon ==
    \/ MarkEntry("abandonMark",
                 IF HasEntry(cur) THEN "abandonList" ELSE "abandonNext",
                 abandoned \cup {cur})
    \/ SetList("abandonList", "abandonNext", index.list \ {cur})

\* runChangeImplementWorkflow takes the approved version or nothing.
StartRun ==
    /\ plan.readable /\ plan.approved
    /\ Go("implement", "executing")

MarkExecuting == TouchPlan("executing", "createRun")

CreateRun ==
    /\ Step("createRun", "addRun")
    /\ \E r \in Run :
          /\ runs[r] = "unused"
          /\ runs' = [runs EXCEPT ![r] = "started"]
          /\ cur' = r
    /\ UNCHANGED <<planVars, indexVars, ranOn, open, left>>

ListRunEntryOnly == AddEntry("addRun", "dispatch", cur)

ListRun ==
    \/ AddEntry("addRun", "listRun", cur)
    \/ SetList("listRun", "dispatch", index.list \cup {cur})

\* Workers read the artifacts of the plan version.
GiveWorkers(l, m) ==
    /\ Step(l, m)
    /\ ranOn' = [ranOn EXCEPT ![cur] = @ \cup {content}]
    /\ UNCHANGED <<planVars, indexVars, runs, open, cur, left>>

\* --manual-dispatch-complete skips the dispatch and what follows from it.
Dispatch ==
    \/ GiveWorkers("dispatch", "outcome")
    \/ Go("dispatch", "postPhase")

\* A partial run is put on record as the one unfinished run of the change.
Outcome ==
    \/ Go("outcome", "partialMark")
    \/ Go("outcome", "applyBack")
    \/ MarkEntry("partialMark", "partialList", abandoned \ {cur})
    \/ SetList("partialList", "idle", {cur})

-----------------------------------------------------------------------------
(* /zflow-change-implement --resume                                        *)

\* findBestResumeRun and the reconciliation: groups to run again, patches to
\* apply, verification or review left to do.
Resume ==
    /\ index.readable
    /\ \E r \in index.list : runs[r] # "unused" /\ cur' = r
    /\ \E m \in {"activeMark", "applyBack", "postPhase", "verdict"} :
          Step("idle", m)
    /\ UNCHANGED <<planVars, indexVars, runVars, open, left>>

SetPhase(l, m, phase) ==
    /\ Step(l, m)
    /\ runs' = [runs EXCEPT ![cur] = phase]
    /\ UNCHANGED <<planVars, indexVars, ranOn, open, cur, left>>

\* updateRun and the entry, before any worker starts.
Reactivate ==
    /\ Step("activeMark", "redispatch")
    /\ runs' = [runs EXCEPT ![cur] = "started"]
    /\ abandoned' = IF HasEntry(cur) THEN abandoned \ {cur} ELSE abandoned
    /\ UNCHANGED <<planVars, index, ranOn, open, cur, left>>

\* Groups fail again, all are done, or the ones downstream follow.
Redispatch ==
    \/ GiveWorkers("redispatch", "stillMark")
    \/ GiveWorkers("redispatch", "applyBack")
    \/ GiveWorkers("redispatch", "dispatch")
    \/ MarkEntry("stillMark", "idle", abandoned \ {cur})

-----------------------------------------------------------------------------
(* Finalize, verify, review, complete                                      *)

\* executeApplyBack: phase "applying", and "completed" when a strategy succeeds.
\* Only the finalization of a dispatch then marks the index.
ApplyPatches ==
    \/ SetPhase("applyBack", "applied", "started")
    \/ SetPhase("applied", "finalMark", "applied")
    \/ SetPhase("applied", "postPhase", "applied")

\* finalizeWorktreeImplementationRun; transitionTo "executing"; verification, fix
\* loop and review either stop the sequence, with a transition, or pass.
PostStart ==
    \/ MarkEntry("finalMark", "postPhase", abandoned \ {cur})
    \/ SetPhase("postPhase", "postMark", "started")
    \/ MarkEntry("postMark", "verdict", abandoned \ {cur})
    \/ Go("verdict", "donePhase")
    \/ Go("verdict", "donePlan")

\* transitionTo "completed".
TransitionToCompleted ==
    \/ SetPhase("donePhase", "doneMark", "completed")
    \/ MarkEntry("doneMark", "donePlan", abandoned \ {cur})

CompleteWorkflow ==
    \/ TouchPlan("donePlan", "doneRun")
    \/ SetPhase("doneRun", "doneIndex", "completed")
    \/ StampIndex("doneIndex", "delist")
    \/ SetList("delist", "idle", index.list \ {cur})

-----------------------------------------------------------------------------

\* The command returns early, throws, or the process dies; files stay as they are.
Stop ==
    /\ pc # "idle"
    /\ pc' = "idle" /\ open' = FALSE /\ cur' = NoRun /\ left' = {}
    /\ UNCHANGED <<planVars, indexVars, runVars>>

\* The user removes an index no command can load; a missing one loads as empty.
RemoveIndex ==
    /\ pc = "idle" /\ ~index.readable
    /\ index' = EmptyIndex
    /\ UNCHANGED <<planVars, abandoned, runVars, pc, open, cur, left>>

Next ==
    \/ Prepare \/ ResetPlan \/ AddPlan \/ WriteArtifacts \/ NoteMetadata
    \/ Validate \/ Review \/ Decide \/ Approve \/ Revise \/ Cancel
    \/ Implement \/ AbandonNext \/ Abandon \/ StartRun \/ MarkExecuting
    \/ CreateRun \/ ListRun \/ Dispatch \/ Outcome
    \/ Resume \/ Reactivate \/ Redispatch
    \/ ApplyPatches \/ PostStart \/ TransitionToCompleted \/ CompleteWorkflow
    \/ Stop \/ RemoveIndex

Spec == Init /\ [][Next]_vars

-----------------------------------------------------------------------------
(* Properties                                                              *)

\* A run whose workers were started and that was neither completed nor abandoned.
Unfinished(r) ==
    /\ ranOn[r] # {}
    /\ runs[r] # "completed"
    /\ r \notin abandoned

\* Whatever a command was cut off from, a run with work in it is in the list of
\* unfinished runs and the index can be read, so --resume finds the run again.
\* Completion writes the index in place, but not before run.json says completed.
UnfinishedAreListed ==
    \A r \in Run : Unfinished(r) => index.readable /\ r \in index.list

\* A run listed as unfinished has an entry, without which abandonWorkflow throws
\* and the run would bar the change for ever.
ListedHaveEntries == index.list \subseteq index.entries

\* Commands keep to one run at a time: no run is started beside an unfinished one.
OneUnfinished ==
    \A r, s \in Run : Unfinished(r) /\ Unfinished(s) => r = s

\* All the workers of a run, those of resumed groups too, work from the same
\* draft: nothing rewrites the plan between a dispatch and its resumption.
PlanPinned ==
    \A r \in Run : \A c, d \in ranOn[r] : c = d

\* No worker ever starts on a draft the user has not approved, although
\* preparations rewrite the version approved before, in place.
OnlyApprovedRuns ==
    \A r \in Run : ranOn[r] \subseteq approved
=============================================================================
