# pi-zflow in TLA+

pi-zflow is a set of extensions of the pi coding agent that plan a change,
hand its parts to worker agents in git worktrees, bring their patches back,
verify, review and complete it. What must survive between commands, crashes and
concurrent callers is kept in a few JSON files and in git; the work itself is done by
agents, git and people, who may fail, answer late or change their mind. The models
here are about that: who reads and writes what in which order, what happens when a
step fails or the process dies, and what the records may be believed about.

Paths below are short for:

- `CW` = `src/packages/pi-zflow-change-workflows/extensions/zflow-change-workflows`
- `ART` = `src/packages/pi-zflow-artifacts/src`
- `BR` = `src/packages/pi-zflow-subagents-bridge/extensions/zflow-subagents-bridge`
- `RV` = `src/packages/pi-zflow-review/extensions/zflow-review`
- `PR` = `src/packages/pi-zflow-profiles/extensions/zflow-profiles`

Contents: [inventory](#inventory) · [modules](#modules-and-the-code) ·
[runs and bounds](#runs-and-bounds) · [fairness](#fairness) ·
[proofs](#proofs) · [what the models showed](#what-the-models-showed) ·
[not modelled](#not-modelled) · [plan](#plan)

## Inventory

| component | state | operations | what is hard | what makes it correct |
|---|---|---|---|---|
| Run state store, `ART/run-state.ts` | `run.json`; in memory the map `runStateWriteLocks`, a chain of promises per run | `createRun`, `readRun`, `updateRun`, `addGroupToRun`, `addRetainedArtifact`, `setRunPhase` | calls interleave at every await; a read or write may fail; the process may die | a merge replaces exactly the document it read; a failing call passes its turn on; entries appended alone are kept |
| Plan and index, `ART/state-index.ts`, `CW/orchestration/**` | `plan-state.json`, `state-index.json`, phase of `run.json`, plan artifacts of `v1` | the commands prepare, implement, resume, abandon; approval, completion | a command may end anywhere; some writes are in place; plans are rewritten | unfinished runs are found again, one at a time; workers of a run see one approved plan |
| Plan preparation, `CW/orchestration/prepare`, `plan-artifact-validator.ts` | artifacts of a plan version, `plan.md` | planner with retries, canonicalisation, synthesis, validation, repair, gates | planner ends after any artifact; leftovers of earlier preparations | what is offered for approval is whole |
| Plan review, `RV/plan-review.ts` | manifest of reviewers, findings, version of the plan | reviewers in parallel, retries, lanes resolved anew | failures that name no reviewer | approval only after every required reviewer, and with nothing that blocks |
| Ownership and dependencies, `CW/ownership-validator.ts` | none | conflict check, Kahn's algorithm | partial lists, transitive dependencies, shared workspaces | an order of replay that respects dependencies, or a cycle |
| Wave dispatch, `CW/index.ts`, `live-progress.ts` | group ledger in `run.json`, patches | ready groups, dispatch, results, fix, blocked dependents, partial or collect | progress flushed in the background writes the ledger back; failed ledger writes are ignored | the ledger never overclaims; work rests on done work; every group accounted for; the loop ends |
| Rate-limit retries, `CW/orchestration/implementation/rate-limit.ts` | entries per task and attempt | passes over pending tasks, progress reports | late reports, budgets renewed by progress, one at a time after the first limit | one result per task; budget per burst |
| Subagent bridge, `BR/index.ts` | worktrees, workspaces, checkpoints | rolling concurrency, shared staging, patches, halts | a task fails, or its checkpoint does, between two others | patches of one's own work; one worker per worktree; every call returns |
| Group result capture, `CW/group-result.ts` | index of a worktree, patch file | the diffs of commits, staged, edited and untracked files | repeated captures, stops between commands, failing git | the patch is what the worker did in its scope |
| Resume, `CW/resume-reconciler.ts`, `CW/index.ts` | ledger, `run.groups`, patches, phase | classification, dispatch again, collect, apply-successful, finalize | records of several attempts beside each other | finished work is never redone; marks tell the tree |
| Apply-back, `CW/apply-back.ts` and its two strategy files | primary worktree, recovery ref, phase, `applyBack.status`, snapshot, ledger | a cascade of three strategies, each with its rollback; recovery | git fails half-way, resets fail, crash between writes, later calls for fewer groups | what `run.json` says of apply-back is true of the tree; no partial change; recovery possible; merges of present patches only |
| Conflict resolution by subagents, `CW/index.ts`, `coverage-verifier.ts` | integration worktree, markers, counts | merges, resolutions, coverage check, restoration, application | work dropped by a resolver, repeated passes | the tree changes only for a covered result; the command ends |
| Verification, review gate, completion, `CW/orchestration/implementation/post-start.ts`, `verification.ts`, `CW/orchestration/review` | records in `run.json` | verification, fix rounds, review, completion, each skipped if recorded | records older than the tree | completed means verified and reviewed on the tree as it is |
| Code review and pull requests, `RV` | shared report of findings, manifest; chunks, comments | reviewers in parallel, consolidation, gate; paging, chunking, line mapping | reviews beside each other, missing reviewers; boundaries of chunks and hunks | a pass is earned; no file lost; comments hit their lines |
| Fix workflow, `CW/orchestration/fix` | batches, result files, reports | rounds of waves of workers, checkers, focused reviews | batches renumbered, answers of earlier rounds | each finding accounted for once; the rounds end |
| Profiles, `PR` | `active-profile.json`, profile files | resolve, activate, ensure, fall back | one file for all sessions and projects; logins that go | a workflow starts with lanes that work; no model tried twice |
| Profile wizard, `PR/configure-wizard.ts`, `tui-components.ts` | draft, profile, one temporary file | choices, background saves, escape, resumption | saves overlap; stops in a save | a stop loses no choice whose save has ended |
| Session hooks: compaction, plan mode, registry | flags of each copy, marker, tools | turn ends, compaction hooks, agent starts; enter, leave; claim | a compaction beside a starting agent; copies of one extension | the agent after a compaction is reminded, once |
| Repository analysis, `CW/orchestration/planning/repo-analysis.ts`, `repo-map-cache.ts`, `recon-cache.ts` | two descriptions, a metadata file of each | build, look up, judge fresh | the repository moves during a build; builds beside each other, cut off | what is reused shows the present |
| Cleanup, `ART/cleanup-metadata.ts`, `CW/orchestration.ts` | the children of `.zflow` and their ages | scan, filter, remove | all runs share one child; other sessions work meanwhile | what is young or under way stays |
| Agents, `src/packages/pi-zflow-agents/extensions` | installed files, manifest | setup, update | stops, failing copies, files edited by the user | success means complete |

They interact as follows. The agents are installed (`AgentInstall`) and a profile
chosen (`ProfileWizard`, `Profiles`). A command (`ChangeLifecycle`) prepares a plan
(`PlanPreparation`, `PlanReview`, `GroupOrder`), starts a run and gives it to the wave
dispatch (`Dispatch`), which hands each wave to the retry loop over the bridge
(`DispatchPipeline` = `RateLimit` over `Bridge`) and keeps its ledger in `run.json`
through the store (`RunState`). When all groups are done their patches, captured from
the worktrees (`GroupCapture`), are applied (`ApplyBack`, with `StructuredMerge` and
`IntegrationMerge` as its later strategies, `ConflictResolver` after it), and the run is
verified, reviewed and completed (`PostStart`, `CodeReview`, `FixWorkflow`). A later
`--resume` reads the index to find the run and `run.json` to decide what of it to
believe (`GroupResume`). `SessionHooks` run beside all of it.

`PROJECT.json` lists all components with their status, and the hazards of the code,
each at its line, with the properties that watch over it.

## Modules and the code

| module | models | lines |
|---|---|---|
| `RunState` | calls on one `run.json`: the chain of promises, reads, merges, temporary files, renames, failures, crashes | 285 |
| `RunStore` | the abstract store `RunState` implements: whole merges, one at a time | 70 |
| `ApplyBack` | the apply-back cascade, its resets, recovery and callers, over git as an external actor | 483 |
| `StructuredMerge` | the rules that rewrite the conflict regions of a file | 174 |
| `IntegrationMerge` | the integration worktree and its branches, over several merges and stops | 184 |
| `ConflictResolver` | `/zflow-resolve-apply-back`: merges, subagents, coverage, restoration, application | 238 |
| `GroupOrder` | ownership and dependency validation, coalescing, Kahn's loop | 183 |
| `Dispatch` | the wave loop, the group ledger, background flushes, fixes, blocked dependents | 441 |
| `RateLimit` | the retry loop of one dispatch | 131 |
| `Bridge` | workspaces, worktrees, checkpoints and patches of one parallel call | 290 |
| `DispatchTasks` | the names the two share | 8 |
| `DispatchPipeline` | `RateLimit` over `Bridge`: calls, results, progress reports | 102 |
| `GroupCapture` | the patch of a group from the state of its worktree | 144 |
| `GroupResume` | classification, resumed dispatch, collect, apply-successful, finalize of one run | 425 |
| `PostStart` | verification, fix rounds, review gate, completion of a run; `GroupResume` extends it | 205 |
| `FixWorkflow` | batches, waves, workers, checkers and focused reviews of the fix rounds | 262 |
| `CodeReview` | reviewers, consolidation and gate of a code review | 200 |
| `PlanReview` | reviewers, retries, lanes and versions of a plan review | 191 |
| `PrReview` | pages, chunks and comment places of a pull request | 290 |
| `Profiles` | lanes, the active profile shared by sessions, fallback to the next model | 304 |
| `ProfileWizard` | the dialogue of the wizard and its background saves | 299 |
| `PlanPreparation` | artifacts of a plan from the planner to the offer for approval | 361 |
| `ChangeLifecycle` | prepare, implement, resume, abandon: plan state, index, phase of the run | 439 |
| `AnalysisCache` | the descriptions of the repository and their freshness | 215 |
| `Cleaning` | `/zflow-clean`: the scan by age and the removal | 209 |
| `SessionHooks` | compaction hooks, plan mode, capability claims of the copies of an extension | 236 |
| `AgentInstall` | setup and update of agent files and their manifest | 181 |
| `Sublists` | `Array.prototype.filter` by places, which the proofs can reason about | 14 |

The `MC*` modules are the instances for TLC: `MCRunState`, `MCApplyBack`, `MCDispatch`,
`MCChangeLifecycle`, `MCPipeline`, `MCRepairs` (over `MCResume`), `MCPatches` and
`MCPlanning`. The last four, and `MCChangeLifecycle`, hold several components that share nothing but files: a
variable `focus`, chosen at the start, says which of them the behaviour is about. That is
a disjoint union of state spaces, not a composition; it keeps one run per group of questions.
The `*Proofs` modules hold the theorems: one for each of `RunState`, `ApplyBack`, `Dispatch`;
`ChangeLifecycleProofs` also of `Cleaning` and `AnalysisCache`; `PipelineProofs` of `RateLimit`,
`Bridge`, `DispatchPipeline` and `GroupOrder`; `PlanningProofs` of the modules of the run
`planning`; `DeliveryProofs` of those of `patches` and `repairs`; `SublistsProofs` the lemmas
on lists that the last two share. `map` in `PROJECT.json` names the source lines of
every definition.

**RunState.** A call is a program counter; a step ends at an await. `updateRun`
joins the chain (`waitsOn`, `lockTail`: what the call found in, and left in, the
map of locks), waits for its turn, reads, writes a temporary file, renames, and
releases its link, in the `finally` of the code whatever happened before.
`addGroupToRun` and `addRetainedArtifact` first read the array *outside* the
chain (`ReadArray`) and hand it over whole. A field holds the set of calls whose
entry it contains. `Crash` ends all calls under way and empties the map: it is memory,
the file stays. Temporary files have names no other call uses, so only their awaits and
failures remain. `RunStore` is the promise: whole merges, one at a time.

**ApplyBack.** A worktree or commit is the set of changes in it; which pairs of
changes conflict, which groups have a patch and whether the dependencies have a
cycle are chosen freely in `Init` and fixed. Git is external: `git apply --3way`
merges, leaves markers, or refuses. The cascade follows the code: replay in
order (`ReplayPatch`, `ReplayFails`), reset, replay again resolving markers
(`StructuredPatch`, `ResolveAndRetry`, `StageAll`), reset, integration worktree and one
consolidated patch (`IntegrationMerge`, `ApplyConsolidated`), or give up.
Every reset may fail (`spoiled`); a crash may come at any point, and `Recover`
reads only what `run.json` holds. The write that records the completion may fail too
(`CompleteFails`): the code then goes on as if the strategy had, and behind the last one it
gives up with the changes in the tree (`unrecorded`). The three callers (`finalize`, `ledger`,
`resume`) differ in which groups they ask for and in what they mark afterwards.
The user may commit a change of their own meanwhile.

**StructuredMerge** is the inside of one `ResolveAndRetry`: a file is a sequence of
lines with two conflict regions, found by their markers in the file as it is (`FindRegions`),
replaced one per step from the last to the first (`ReplaceRegion`) by the first rule that applies
(imports, configuration keys, disjoint additions), and written at the end (`WriteResolved`).
**IntegrationMerge** is the inside of the third strategy: `branch` and `worktree` outlive a
merge that failed or was cut off; groups get new patches in between; the next merge clears
what it finds, commits each patch on a branch of its own at the base, merges them in order,
falls back to cherry-picks, verifies, and writes the consolidated patch.
**ConflictResolver** goes on from what that leaves: it cleans up markers, merges the
remaining branches, asks a subagent at a conflict at most `MaxResolutions` times,
compares the result with each patch (`Covered`), restores files, and applies.

**Dispatch.** The main routine is one program counter. A status update is two
steps, the read and the write of `run.json` (`UpdateRead`, `UpdateWrite`), and so
is a background flush (`FlushRead`, `FlushWrite`): between them the other may
run, which is why a stale copy can be written back. That one write of the file
is atomic is what `RunState` shows. Workers answer with a patch, with evidence
that nothing was left to do, or fail. A failure goes to the fix step, then to
the blocking of dependents (`BlockDependent`, a breadth-first search). Two ghosts name what
the code cannot know: `lost`, the groups of which an update failed or was overwritten by a stale
copy, and `unread`, a failed read that the code takes for an empty ledger, at the choice of a wave
or at the last check.

**RateLimit, Bridge, DispatchPipeline.** The retry loop calls the service with the tasks
that are left, one at a time after the first limit; each attempt has an entry and a flag
its progress reports set, late ones included. The service chooses a backend, makes worktrees,
and runs workspaces under a limit; in a shared workspace tasks follow each other and
leave checkpoints; a failure halts the tasks behind it, which are answered too. The
composition adds the callbacks: a report of a worker reaches the entry of its attempt.

**GroupOrder.** `Init` is any plan; the check of conflicts and of explicit workspaces
refuses it or not, the groups that share files or workspaces are joined (`Coalesced`); then any
part of the plan is sorted, one turn of Kahn's loop at a time.

**GroupCapture.** Of each file: what the base, HEAD, the index and the worktree hold of
it, whether it is tracked. The patch is the two differences; untracked files are marked in
the index for the second. Captures are repeated, cut off, and their commands fail.

**GroupResume, PostStart.** The life of one run: dispatch, partial, resume, collect,
finalize, apply-successful, reconciliation, then verification, fix rounds, review,
completion. Patches are numbered, so that each record says *which* patch it speaks of.
`PostStart` records times only through the comparisons the code makes with them. The
verification command may be one that only the plan names, which the fix loop does not run: a
ghost (`waved`) notes a record that such a loop made.

**FixWorkflow.** Findings become batches by family, batches run in waves without common
files; each has a worker, a checker, a focused review; what is left goes to a further
round with batches numbered anew.

**CodeReview, PlanReview, PrReview.** Reviewers answer, fail, are missing, in any order;
findings are merged by key and severity; the gate reads the shared report back, which a
second review may have replaced, or, when it cannot, takes the severities the review returned
(`ReturnedBlocks`). A reviewer whose own call throws stays "requested", as in the manifest. In
`PlanReview` failed reviewers are tried again, with another lane; a failure is put down to whom
the text of its error names, or to the first reviewer (`blamed`); a revision is a new version.
`PrReview` fetches pages, puts one file per step into
the open chunk or a new one (`PackFile`), reads the patches one line per step into the maps from
places to lines (`MapLines`), and gives what reviewers find its line. These loops, and that of
`StructuredMerge`, are taken a turn at a time because the steps of a fold are out of the
provers' reach; nothing else of the code runs between their turns.

**Profiles, ProfileWizard.** Sessions with their projects share `active-profile.json`;
registry and logins change. A caller of `ensureResolved` may name lanes and may be without a
registry, in which case nothing is checked; a profile file that cannot be read has no hash to
compare. An entry of a file is a model at a level of thinking, and may be repeated; the
fallback list of a run has each entry once, but another model at several levels. `unfit` is what a
call promised and did not find usable. The wizard is the dialogue of keys and the saves under
way, each with its next file operation.

**PlanPreparation.** Artifacts are absent, sound or not, with markers or not; a list of groups
is the set of groups it names, one of tasks the groups it has sections for, which may be more than
the plan has. The planner is dispatched with retries, or by a service of another kind without
them, or not at all; agents are checked when the service lists some. A preparation is a program
counter through the handler, and a second one finds what the first left.

**ChangeLifecycle.** One command at a time; its program counter names the next
read or write of a file, in the order of the handlers. A write through a
temporary file and a rename is one step; `fs.writeFile` on the file itself is two,
with the file unreadable in between (`PutPlan`, `StampIndex`). `Stop` ends the
command at any step. `content` is which draft of the plan stands under the name `v1`.
What other modules detail is here a step with its possible results.

**AnalysisCache.** A session asks for a description, looks at metadata and file, decides, or
reads the repository, writes the description in place (two steps), takes the hash, and writes
the metadata in place (two steps). The structure changes, sessions stop, files go at any
point. Ghost variables note whether the build behind what is on disk was overtaken.

**Cleaning.** A day is the unit of age. Runs are created, go on, are listed and delisted by
other sessions; the command abandons what it was asked to, scans, and removes or keeps each
candidate. A directory has the age of its last entry made or removed, as in the file system.

**SessionHooks.** Pi calls hooks at the end of a turn, around a compaction, which may run
beside the session, and before an agent starts; several copies of the extension are loaded
and claim their capability in the registry; plan mode restricts tools.

**AgentInstall.** Setup and update walk over the files of the package; copies fail, are
torn, are cut off, are edited by the user; the manifest is written last.

## Runs and bounds

`tlc -config X.cfg M` in this directory; the community modules must be on the path.

| run | module, cfg | distinct states | shows |
|---|---|---|---|
| `run_state` | `MCRunState` | 13,853 | `NoStaleMerge`, `IsolatedAppendsKept`; the refinement `ImplementsStore`; `StartedCallsSettle` |
| `apply_back` | `MCApplyBack` | 1,028,142 | `FailureLeavesBase`, `Recoverable`, `WholeCallsLedgerTellsTree` |
| `dispatch` | `MCDispatch` | 10,755 | `Terminates`, with file operations in order |
| `dispatch_faults` | `MCDispatch`, `MCDispatchFaults.cfg` | 4,045,618 | `LedgerNeverOverclaims`, `DispatchedAfterDependencies`, `PartialAccountsForAll`, `AllDoneAtCollect`, with background flushes and failing file operations |
| `lifecycle` | `MCChangeLifecycle` | 2,202,185 | `UnfinishedAreListed`, `OneUnfinished`, `PlanPinned` of the commands; `FreshShowsPresent` of the descriptions; `RecentRunsKept` of the cleanup |
| `pipeline` | `MCPipeline` | 795,120 | `RetryBudget`, `PatchesAreOwnWork`, `WorkersKeepApart`, `CallsReturn` of the retry loop over the bridge; `OrderSound` of the validator |
| `repairs` | `MCRepairs` | 1,022,928 | `CompletedIsVouchedFor`, `FinishedWorkIsKept` of a run resumed; `AppliedWhenCovered` of the resolver; `FixAccounts` of the fix workflow; `RepairsEnd` of both |
| `patches` | `MCPatches` | 3,864,275 | `CaptureIsWhole`, `MergedIsWhole`, `ResolvedLosesNothing`, `PassIsEarned`, `ChunksKeepFiles`, `CommentsHitTheirLines` |
| `planning` | `MCPlanning` | 1,281,368 | `EnsuredLanesWork`, `NoModelTwice`, `EndedSavesAreKept`, `OfferedPlanIsWhole`, `ApprovedWasReviewed`, `HandoffFollows`, `SuccessIsComplete` |
| `retry_silent` | `MCPipeline`, `MCPipelineSilent.cfg` | | violated: `SilentTaskGivesUp` |
| `resume_lost` | `MCResume`, `MCResumeLost.cfg` | | violated: `AppliedWorkIsInTree` |
| `clean_lost` | `MCChangeLifecycle`, `MCCleanLost.cfg` | | violated: `RunsUnderWayKept` |

The type invariants of `RunState`, `ApplyBack`, `Dispatch` and `ChangeLifecycle` are theorems
of their own (`TypeCorrect`), and so are those of the pipeline, the hooks, the installation, the
preparation, the resumed run and the review of a pull request (`PipelineTypeCorrect` and so on);
those of the other modules are parts of the inductive invariants below, or, where the
proof needs less, the reader's guide to the variables.

Bounds, and why they are enough:

- `RunState`: one creation, two appends to one array, one update of another
  field. Three calls in the chain is the least at which a queue has a middle: a
  failing call between two others. Two fields show a merge that drops the other.
- `ApplyBack`: two groups and the user. One group merged and one that fails is
  every case the cascade distinguishes; sequences of calls, crashes and
  recoveries are not bounded. The theorems are for any number of groups.
- `Dispatch`: in `dispatch`, `Plan` (a chain of three and one group alone) has blocking over
  two levels beside a group that goes on; in `dispatch_faults`, `Join` (one group on two others)
  has a wave of two followed by a dependent. `MaxFixAttempts = 1` instead of the code's
  constant: one attempt used and none left is the boundary. `MaxRuns = 2` bounds
  how often a group is dispatched: in `dispatch` it is never reached, in
  `dispatch_faults` it cuts off repeated losses of the same update.
- `ChangeLifecycle`: three runs (a finished, an abandoned and a new one; they are
  interchangeable, hence the symmetry; no liveness is checked there) and
  `MaxDrafts = 2`, one draft approved and another not.
- `AnalysisCache`: two sessions, both descriptions, a reconnaissance of everything or of one
  path, two structures; `MaxMoves = 2` is a change and its reversal, `MaxAnalyses = 3` a build,
  one beside it, and one that looks at what they left. `Cleaning`: two runs of two changes,
  a stale age of 2 days, 1 for failed worktrees, 0 by `--older-than`, 3 days, one
  cleanup: a run just within the limit, one just past it, and one created during the command.
- `DispatchPipeline`: three tasks, of which two share a workspace, one after the other
  (with the backend that refuses shared workspaces, each has its own). A concurrency of 2
  leaves one workspace waiting. `MaxRetries = 1`, `MaxAttempts = 3`: a burst used up, and one
  renewed by progress; `MaxAttempts` is a bound of the model, the code has none.
- `GroupOrder`: all plans of three groups, one file, any sharing of workspaces, any part
  sorted: the shortest cycle through another group, and the shortest dependency
  through a group that is left out.
- `GroupResume`, `PostStart`: a group and one that builds on it; `MaxWork = 2` patches of
  each, so that there is an old and a new one; a verification command of the repository, of the
  plan alone, or none. Commands and stops are not bounded.
- `ConflictResolver`: three groups, one resolution: a branch before and one after the
  conflict, and the budget at its limit. `FixWorkflow`: three findings of two families, two
  rounds and two attempts (both numbers come from a configuration): numbers of batches are reused.
- `GroupCapture`: a file in scope, one out of it, one excluded; any number of captures.
  `IntegrationMerge`: three groups, two patches of each. `StructuredMerge`: sides of up to
  two lines of each kind the rules tell apart, one that starts like a divider among them, and
  two conflicts in a file: the second is replaced before the first.
- `CodeReview`: two reviews at once, a required and an optional reviewer, a blocking and a
  harmless severity, a defect and a remark. `PlanReview`: two required reviewers and one more,
  one retry, one revision. `PrReview`: three files on at most two pages (`MaxPages`) of two and in chunks of two; a
  patch of one hunk with a note, one of two hunks that begins with names and removes a line that
  looks like one, a line alone, and none, as of a binary file.
- `Profiles`: two sessions, of which one dispatches and asks as the commands do, for all lanes with the
  registry; the other names a lane and may be without a registry; two required lanes and an optional one, one agent; three models, one of them at two
  levels of thinking; two sets of logins, one change of profile or logins; two profile files, one of each session
  at first, in one of which a lane names an entry twice. An invalid file is not among them: an activation may fail in
  any case. `ProfileWizard`: a lane with one list and a lane with two, one agent, two saves at
  once, three openings: a wizard that saves, one that resumes and is stopped, one that looks.
- `PlanPreparation`: one simple artifact and the rest, two groups, one retry, one repair
  (the code has two: one used and none left is the boundary), two preparations. `SessionHooks`: three copies with two versions; the window is 20 units,
  two sizes of a turn. `AgentInstall`: two versions of the package, the second with a new file.

`CHECK_DEADLOCK FALSE` stands where the system comes to rest: all calls settled, a
command over, nobody calling. `ChangeLifecycle` never stops.

Each property of a passing run has a mutant in `PROJECT.json`: a definition with a
plausible bug (a turn not waited for, a reset skipped, a dependency check dropped, an old
branch kept, a record believed too long) under which the same run refutes it.

## Fairness

- `RunState!FairSpec`: weak fairness of each call *that has started*. A started
  call waits only for file operations, which settle in Node, and for the link
  before it; continuations of settled promises are run. Nothing obliges anybody
  to make a call, and nothing obliges a crash.
- `Dispatch!FairSpec`: weak fairness of the main routine as a whole and of the
  background flush as a whole. The routine waits for dispatched agents, which
  are taken to end: the bridge bounds setup and verification commands with timeouts, but waits
  for an agent as long as it runs.
- `MCPipeline` and `DispatchPipeline!PipelineFairSpec`: weak fairness of the service's own
  steps and of the workers it runs. Again a
  dispatched agent is taken to end, in whatever way; progress reports, failures and limits are
  not obliged. Only
  `CallsReturn` needs it; that the loop as a whole ends is not claimed, because each
  report of progress renews the budget.
- `MCRepairs`: weak fairness of the steps of the resolver command and of the fix
  workflow once they are started; the subagents they dispatch answer, by whatever result.
  Starting, resuming and cancelling are up to the user.
- `ApplyBack`, `ChangeLifecycle` and the others have none: what comes next is up to the
  user, and they state no liveness.

## Proofs

`tlapm X.tla` proves every obligation of the proof modules. 36 of the 40 properties of the
passing runs are stated by a theorem, `theorems` in `PROJECT.json` says which. Assumptions are
the named ones on constants, in the modules that declare them: ids are distinct
(`RunStateAssumption`, `ApplyBackAssumption`, `LifecycleAssumption`), groups, tasks and findings
are finitely many, groups have distinct places in the plan, budgets are natural numbers, and
the dependencies have no cycle (`DispatchAssumption`, `GroupResumeAssumption`: the validator
has checked them before a plan is dispatched; `GroupOrder` assumes no such thing, finding
cycles is what it does). None bounds the number of calls, groups, runs, drafts or versions.
Two theorems have a hypothesis besides:

| theorem | hypothesis | why |
|---|---|---|
| `LoneAppendsStay` | `ArraysAreAppended` | a call that replaces an array of `run.json` has read it first, as all do (`run-state.ts:367-400`, `group-result.ts:449`, `CW/index.ts:2436`, `3511`, `3553`); `updateRun` itself asks for no such thing |
| `SavedChoicesSurvive` | `StatesAreWhole` | a file that is missing or cannot be parsed is no state of a wizard: it fixes how the model's tokens differ, not what the code does |

**RunStateProofs.** `TypeCorrect`, `LockIsExclusive`, `MergesAreFresh`,
`ChainIsForgotten`, `ChainImplementsStore`. Mutual exclusion is not inductive: that
the link I wait for is resolved says nothing about who else is in the chain. The
invariant adds what the chain means: places are distinct (`PlacesInv`), the tail
is the last (`TailInv`), whose turn it is comes first (`TurnInv`), and whoever
waits does so on the call just before (`WaitInv`). From a fresh merge it follows
that a rename is a `Commit` of `RunStore`, and every other step a stutter, a
`Submit` or a `Reject`. `LoneAppendsStay`: an append that nobody overlapped is in the array
every later call reads, so it is in what each of them writes.

**ApplyBackProofs.** `TypeCorrect`, `CompletedIsWhole`, `FailureIsClean`,
`AlwaysRecoverable`, `LedgerIsRight`. The invariant says what `run.json` has at each
control point (`StatusInv`), where the tree is back at the snapshot (`BaseInv`),
and that the groups a pass has finished with are in the tree, with no entry unmerged
(`WholeInv`). `LedgerIsRight` needs in addition that, while all calls are for all
groups, the ledger marks only groups the completing call delivered.

**DispatchProofs.** `TypeCorrect`, `LedgerIsHonest`, `WorkRestsOnWork`. The ledger
is honest only because every stale copy of it, in the main routine and in the
flush, is honest too, and because `done` only grows (`HonestInv`); what is in the
current wave, or being fixed, rests on done work (`RestsInv`). `PartialAccounts` and
`CollectedIsAll` need a second invariant, about the groups that are clean: the ledger has lost
no change of them, nor of anything they rest on. Of those the copy the routine writes back is
what is in the ledger (`AloneInv`), what has been started rests on what is finished
(`StartedInv`), and the breadth-first search has blocked every dependent of a failed group, up to
those it still has to visit (`BlockedInv`). A group under a clean one is clean, so a change lost
elsewhere cannot reach the argument (`LossKeepsAccount`). That a wave without ready groups has a
failure to blame, or nothing left, is where the acyclic dependencies come in: a least group of
the clean ones left would be ready. Neither theorem has a hypothesis on faults.

**ChangeLifecycleProofs.** `TypeCorrect`, `UnfinishedRunsAreFound`,
`ListedRunsCanBeAbandoned`, `OneRunAtATime`, `PlanOfARunIsPinned`,
`WorkersRunApprovedDrafts`. The invariant is about what a command may count on at
each step (`ControlOK`): a preparation and a start have no listed run beside
them, later steps work on a listed run, an abandonment has all listed runs before
it, and the index is unreadable only in the middle of a write in place. With one
listed run at most (`ListOK`), the draft under `v1` cannot change while that run
can be resumed (`DraftsOK`).

`RecentRunsSurvive` (`Cleaning`): the directory of all runs is as young as its youngest
run (`YoungestInv`), and a scan saw only runs that were older than the limit. `FreshIsPresent`
(`AnalysisCache`): a build that was not overtaken is about the structure as it is until its hash
is taken, and about the hash from then on (`BuildInv`), so what is not spoilt shows what its
metadata says (`SettledInv`).

**PipelineProofs.** `RetriesKeepTheirBudget`: a count grows by one per retry and falls only at
a report, and a task is waiting, called, or has its result (`EntriesInv`, `PlaceInv`). The
composition with the bridge implements the retry loop by itself (`PipelineImplementsRetry`):
each step of the bridge is a stutter, an answer or a report of `RateLimit`; so
`PipelineKeepsBudget` follows. `PatchesHoldOwnWork`: while a workspace goes on, its worktree and the
commit it starts from hold just the work of its tasks that are through (`SpaceInv`), so a patch
against that commit holds one task's work; a failed checkpoint halts the workspace.
`WorkersAreApart`: a running task is the only one of its workspace (`RunningInv`), and the pool
opens no more workspaces than its size (`PoolInv`, by cardinalities). `ReplayOrderIsSound`:
`inDegree` counts what a group still waits for (`DegreeInv`); a group is pushed after all it
depends on (`StampInv`); a loop that stops early leaves groups each of which waits for another
of them, which is a cycle, and a plan with a cycle cannot be placed entirely, since its stamps
would grow around it.

**PlanningProofs.** `HandoffIsGivenOnce`: one copy alone has hooks and reminds (`OneCopyInv`),
and a reminder owed is pending in it until the next agent (`OwedInv`). `SuccessTellsTheFiles`:
of the files the command has come to, those not as packaged failed, were left with a
warning, or were changed since (`PassedInv`). `PlansOfferedAreWhole`: behind the check of the
formats nothing the validators look at is wrong, and no later step undoes it (`PastGatesInv`).
`ApprovalRestsOnReview`: behind the answers every required reviewer has read the version, is in
the list to be run again, or had its failure put down to another (`AnsweredInv`), and what was
found goes only with a rerun of the reviewer blamed. `EnsuredMeansUsable`,
`FallbacksAreNew`, `LanesHaveOneModel`: what a run has tried and has left is one list without
repetition (`TriedInv`), every cache, in a file or in memory, gives the agents of a lane one model
(`OneModelInv`). `SavedChoicesSurvive`: while a save is under way the draft is the one before it,
then torn, then the choice (`SavingInv`); while none is, a draft that can be read is one the next
wizard may go on from (`RestInv`).

**DeliveryProofs.** `PatchesHoldTheWork`: every stage of a capture has in its parts exactly the
differences taken so far, whatever an earlier capture left in the index (`CaptureInv`).
`MergesAreWhole`: after clearing, branch and worktree hold the groups before `turn` and nothing
else (`IntegrationInv`). `PassesAreEarned`: consolidation keeps the worst of each key
(`ConsolidationKeepsWorst`), and the gate reads it, or what the review returned, unless overtaken
or misled by the synthesizer. `WorkIsNotRedone`: a
succeeded group has a patch linked, and only groups without one are dispatched again
(`LedgerInv`). `OnlyCoveredWorkIsApplied`: nothing comes between the coverage check and the
application. `CompletionIsVouchedFor` has the longest invariant of the project: what place, phase,
verification and apply-back of a run say of each other (`ProgressInv`, `StageInv`, `ApplyInv`,
`JobInv`), since a completion may be reached at once, after verification, through the review alone, or
through any resume of these. `FindingsAreAccounted`:
the batches of a round have each pending finding once (`BatchesHoldAll`), the waves each batch
once (`WavesHoldAll`), and what is recorded as fixed is always all but what is
pending, or in batches whose wave has not ended (`AccountsInv`).
`ResolutionLosesNothing`: the regions found begin and end where git left the conflicts, whatever
lines like a divider do to their sides (`RegionOfConflict`); replacing the second leaves the
first where it was (`StructuredInv`); and a rule that applies keeps the lines of both sides
(`ResolutionKeeps`). `ChunksKeepAllFiles`: chunks and open group together are the files come to
so far, in their order, and the lines counted for the group are those it has (`PackInv`).
`CommentsKeepTheirLines`: the map of a patch under way has the lines of the places passed, and
the next number is the start of the hunk and the lines kept since its header (`ScanHolds`,
`MapInv`); a comment without a line is at the first place.

**SublistsProofs.** What `Picked`, the filter of a list by places, returns: a list of the same
type, with the elements at those places and no others, without repetition if the list has none.
They rest on a place having as many places of the set before it as its rank says, and on the
least and the greatest element of a set of numbers, taken from well-founded induction.

Only model-checked: the liveness properties (`StartedCallsSettle`, `Terminates`, `CallsReturn`,
`RepairsEnd`), since fairness and ENABLED are out of the prover's reach. Every invariant and
every action property of the passing runs is a theorem.

## What the models showed

Three statements of the repository do not hold of the code, each with a run:

1. *A silent task gives up* (`retry_silent`). The compatibility backend calls `onUpdate`
   with "starting ..." at the begin of every attempt (`BR/index.ts:1620`), which counts as
   progress, so each retry begins a new burst, and a task that only meets the limit is retried for
   ever. `RetryBudget` says what does hold of the loop: budgets are renewed by reports only.
2. *appliedToPrimary says what is in the tree* (`resume_lost`,
   `CW/index.ts:611-613`). A resumed dispatch keeps its results in a local list
   and the ledger, not in `run.groups`, from which apply-back takes its patches; the groups that
   were run again are skipped, and marked applied (`CW/index.ts:2093`).
3. *Runs marked as running or pending are never cleaned* (`clean_lost`,
   `pi-zflow-agents/prompt-fragments/modes/zflow-clean.md:23`). The scan sees the directory
   `runs` as a whole, by the day the last run was created (`ART/cleanup-metadata.ts:63-84`), and
   reads no `run.json`; the cleanup of one change removes the runs of all. What holds is
   `RecentRunsKept`: the youngest run protects the others.

These statements are defined in the modules, and violated by the models, without a run:

| definition | in short |
|---|---|
| `ApplyBack!CompletedLedgerTellsTree` | a rollback of a later ledger call also removes what earlier calls applied; their marks stay (`CW/index.ts:1400`). It is proved for calls for all groups |
| `IntegrationMerge!BranchesAreCurrent` | branches of groups that were run again outlive a failed merge and are merged by the resolver |
| `ConflictResolver!VerifiedPatchIsApplied` | the resolved difference is written before the automatic restoration; what is applied is the older one (`CW/index.ts:4807`, `4858`) |
| `FixWorkflow!FixedWasChecked` | a finding can be reported as fixed by the answer its batch's number had in an earlier round (`orchestration/fix/workflow.ts:856-890`) |
| `StructuredMerge!SameKeyIsLeftAlone` | two values of one configuration key are both kept, contrary to lines 18-20 of the file |
| `PrReview!EachFileFetchedOnce` | with the default command runner a page address with an unquoted `&` asks for the first page again (`RV/pr.ts:419-466`); a runner of the caller's takes the command as it is |
| `PlanPreparation!RefusesOnlyDrafts` | a second preparation refuses the durable plan that publication of the first wrote as a scaffold (`orchestration/prepare/workflow.ts:199-209`, `durable-plan-doc.ts:544-631`) |
| `AgentInstall!UpdateReachesKept` | a setup records the new version whatever it skipped or could not copy; the update its warning recommends then finds nothing to do (`install.ts:120`, `246-257`; `zflow-agents/index.ts:287-292`) |
| `SessionHooks!CompactsAtThreshold` | the count kept is the one *before* the last compaction, so the next one needs 5k tokens more than the last trigger, not "consumed after" it (`zflow-compaction/index.ts:108-110`) |
| `SessionHooks!EditingIsRestored` | leaving plan mode says "Normal editing is restored." and changes a flag only (`zflow-plan-mode/index.ts:187,195`) |

Noted while modelling, by component:

- *Run state.* Two concurrent appends read the same array before either joins the chain; the
  second drops the first entry (`run-state.ts:367-400`). The reset goes to the commit
  recorded at `createRun`, behind commits made since.
- *Apply-back.* Finalize marks all groups applied even when apply-back failed
  (`CW/index.ts:3606-3632`), tolerated because a conflicted status makes reconciliation
  distrust the marks. A failing consolidated patch is not rolled back, nor is one that was applied when the write that records
  the completion fails (`apply-back.ts:782-804`). Between the two writes of
  `recoverFromApplyBack` phase and status are a pair the reconciler believes. The retry after
  resolving markers cannot succeed: git refuses while an entry is unmerged. An integration merge
  roots every commit at the original base, so the patch of a group that builds on lines of its
  dependency can never be synthesised; after a failure HEAD of the worktree is the branch of the
  failing group. A finalize after a completed apply-back finds no snapshot and throws.
- *Structured merge.* Deduplication also drops repeated lines that are no imports; of a function
  rewritten on both sides both remain; a tracked line of equals signs ends a side early.
- *Resolver.* A tracked line of equals signs counts as a marker; hunks dropped from files others
  changed count as covered; every pass merges all branches again and counts them again.
- *Dispatch.* A background flush that read the ledger before an update writes it back after it;
  the group stays `running`, its dependents never become ready, and the final check finds nothing
  failed; a read that fails there, or at the choice of a wave, counts as an empty ledger, and the
  results are collected as if all groups had succeeded (`lost` and `unread` are what the two
  properties except). A failed fix writes back the count it read before. A dependency accepted as a no-op has
  no patch, and materialising its lineage throws, so its dependents are never dispatched;
  conflicting lineage fails the whole wave.
- *Retries and bridge.* `shared-staging` with `concurrent` is silently serialised
  (`README.md:548-550`); halted siblings get a failure that is no rate limit; a retried task of a
  shared workspace runs in a fresh worktree; a limit hidden in `modelAttempts` is not seen.
- *Resume.* Lineage asks for the patches of the whole closure of dependencies, also of those not
  handed out now (`CW/index.ts:2294-2315`). Dependents of a failed group are `blocked`, and every `--resume` then throws for a
  missing patch. Dependents whose dependency already succeeded get no lineage, or a stale one.
  `addGroupToRun` and `run.groups` are not brought up to date by a partial dispatch;
  `--apply-successful` then applies nothing, successfully, and marks all groups.
- *Capture.* A git command that fails, as for output over its buffer, counts as no difference; a
  group without changes gets a patch of one newline, which git refuses; staging of the
  worker is undone; untracked files are listed outside the scope too.
- *Verification and completion.* The verification and fix loop ignores the plan's command
  and passes when none is found (`verification.ts:571`, `599`), so a run whose only command is the
  plan's can be completed though it failed: the exception in `CompletedIsVouchedFor`. A review reviews patches, not the
  tree; without a review service it passes. An apply-back cut off by a crash may be completed
  through the review alone. Eligibility for review wants a scoped verification of `pass` while a
  resume stores `skipped`.
- *Fix workflow.* The report is parsed again after the interview; focused reviews that fail or
  are unavailable count as passed, and overwrite `code-review-findings.md`; a stale result
  file of an earlier round stops the retries of a worker.
- *Reviews.* The gate reads severities back from a shared file. A required reviewer whose call
  throws remains "requested" in the manifest, which no check of the gate sees
  (`RV/orchestration.ts:822-824`, `979-981`). The plan review is always
  called without execution groups, so its larger tiers are never chosen; failures are
  attributed to reviewers by the text of the error (`RV/plan-review.ts:1047-1055`), to the first
  one if it names none: the reviewer that failed is then not run again, and one that had answered
  is, its findings replaced. `/zflow-review-pr` passes no reviewer; a comment without a line
  lands on the first line of the difference.
- *Plan preparation.* Tasks may have sections for groups the plan no longer has
  (`plan-artifact-validator.ts:600-605`). Two informational files count as planner output; a repair re-validates
  only what had failed; repaired artifacts are not canonicalised; `plan.md` keeps version and
  approval of an earlier state; edits of the user during the decision are not validated.
- *Change commands.* Every preparation rewrites `v1`
  (`src/pi-config-implementation-plan.md:2062` says plans are immutable once dispatched; while
  a run can be resumed, `PlanPinned` holds). A crash in a write in place leaves an index that
  makes every command throw until it is removed by hand. After `transitionTo("completed")` a crash
  leaves a completed run listed. Preflight accepts untracked files outside the planned
  paths, and the clean-up before apply-back deletes all untracked files (`CW/index.ts:767`).
- *Repository analysis.* The hash is taken after the description is written, so a change in
  between is recorded as described; a stop between the two files leaves the old metadata beside a
  new description; without a path asked for, `isReconFresh` accepts the reconnaissance of any
  path; a second edit of a modified file does not change the hash. `FreshShowsPresent` is stated
  for builds that were not overtaken.
- *Cleanup.* Candidates are removed by name, whatever was created in them after the scan; entries of
  removed runs stay in the index; the index itself is a candidate, and with it goes the record
  of unfinished runs.
- *Profiles.* One active profile serves all projects: another session may activate
  its own between `ensureResolved` and the dispatch. A fallback is persisted before
  it is tried, without asking registry or capabilities, by an unlocked read and write. Without a
  registry a cache is trusted unchecked (`health.ts:170`). Two levels of thinking of one model are two
  fallbacks (`BR/index.ts:878-882`). All callers in the repository ask for all required lanes.
- *Wizard.* Overlapping saves share one temporary file: an older one may be renamed over a newer,
  a final save may report failure though it wrote, and a late save may create the draft
  again after its removal. `EndedSavesAreKept` is therefore stated for saves that do not overlap.
  It does not extend to what a wizard only resumed: a save writes the draft in place, so a
  stop in it leaves a torn draft, and with it go the choices of the draft resumed that
  had not been saved to the profile.
- *Hooks.* A compaction that fails leaves the copy's flag set for ever, and a reminder without a
  compaction; after a restart the marker that should survive it is not looked for.
  Plan-mode state is in memory although the plan document says it persists.
- *Agents.* Torn copies count as edits of the user afterwards; files of agents that are no
  longer in the package stay.

## Not modelled

- Text: parsing and formatting of plans, prompts, messages, findings and Markdown, and the
  policies on single paths (`path-guard.ts`) and shell commands, which are functions of strings.
  Where a parse decides, its result is a choice.
- `removeChangeLifecycle`; traces; the prompt cache, a memory of texts under their keys.
- The amendment of a plan after a drift (`orchestration.ts:525-770`, `deviations.ts`), which
  nothing in the extensions calls; reports of deviations are summed up for the reader only.
- Session handoff, RuneContext, prompt assembly, agent discovery, help: calls of the
  host or string building without state of their own.
- Two sessions at once on one repository: `ChangeLifecycle` runs one command at a
  time. `state-index.json` has no lock across processes, and no property of it holds then.
- `ApplyBack` is not composed with `StructuredMerge`, `IntegrationMerge` and
  `ConflictResolver`, nor `GroupResume` with `Dispatch`: they meet in the state they leave for each
  other, which the first of each pair takes as an outcome and the second as an `Init`.

## Plan

The modelling is done as far as the code justifies it, and every safety property of the passing
runs is proved. What could follow:

- the composition of `ApplyBack` with the three modules of its later strategies, and of
  `GroupResume` with `Dispatch`, each as a refinement in which what is an outcome today becomes
  the end of the other module's behaviour;
- two sessions on one repository over `state-index.json`, once its writes have a lock or a
  temporary file of their own: before, there is nothing to state that holds;
- the two writes of `recoverFromApplyBack` (phase, then status), when they become one, as a
  property of `ApplyBack` instead of a note.
