------------------------------ MODULE Dispatch ------------------------------
(***************************************************************************)
(* zflow-change-workflows/index.ts, runWorktreeDispatchAndFinalize: the    *)
(* waves in which the execution groups of a plan are dispatched, from the  *)
(* group ledger of a fresh or resumed run to the point where it either     *)
(* collects the workers' results or stops as partial.                      *)
(*                                                                         *)
(* The ledger lives in run.json.  The main routine changes it one group at *)
(* a time with updateGroupLedger: read run.json, then write its whole      *)
(* metadata back; a failure of that write is ignored.  Progress reporting  *)
(* (flushLiveProgress) does the same read and write in the background,     *)
(* started by a message of the main routine when its interval has elapsed, *)
(* and waited for only at the forced flushes.  A write of run.json is      *)
(* atomic (RunState): a stale copy written back is one step here.          *)
(*                                                                         *)
(* Workers are external: a task returns a patch, a failure that the        *)
(* evidence shows to be work already done, or a failure.                   *)
(***************************************************************************)
EXTENDS Naturals, FiniteSets

CONSTANTS
    Group,          \* execution groups of the plan
    Dep,            \* the groups each group depends on
    Rank,           \* their order in the plan
    MaxFixAttempts, \* MAX_FIX_ATTEMPTS_PER_GROUP
    MaxRuns,        \* bound: times a group is dispatched in one call
    LiveFlush,      \* messages may start a background flush
    IOFails         \* reads and writes of run.json may fail

\* validateOwnershipAndDependencies has refused plans with a cycle.
ASSUME DispatchAssumption ==
    /\ Dep \in [Group -> SUBSET Group]
    /\ \A S \in SUBSET Group : S # {} => \E g \in S : Dep[g] \cap S = {}
    /\ Rank \in [Group -> Nat]
    /\ \A g, h \in Group : Rank[g] = Rank[h] => g = h
    /\ MaxFixAttempts \in Nat
    /\ MaxRuns \in Nat
    /\ LiveFlush \in BOOLEAN
    /\ IOFails \in BOOLEAN

VARIABLES
    ledger,     \* run.json: status and fixAttempts of each group
    patch,      \* groups whose patch is in the run directory
    pc,         \* control point of the main routine
    wave,       \* groups of the current wave
    todo,       \* groups of it still to be marked, or processed
    result,     \* what the workers of the wave returned
    cur,        \* group being processed
    attempts,   \* currentFixAttempts: its fix attempts as read before the fix
    frontier,   \* markDependentsBlocked: queue
    visited,    \* ... groups seen
    update,     \* updateGroupLedger: the change to make
    mine,       \* ... the ledger it read
    back,       \* ... where the main routine goes on
    flush,      \* background flush: "off", "reading", "writing"
    copy,       \* ... the ledger it read
    done,       \* ghost: groups a worker or a fix has completed
    runs,       \* ghost: times each group was dispatched in this call
    lost,       \* ghost: groups of which the ledger has missed a change, or lost one
    unread      \* ghost: a read that failed has been taken for an empty ledger

callVars == <<wave, todo, result>>
itemVars == <<cur, attempts, frontier, visited>>
updateVars == <<update, mine, back>>
flushVars == <<flush, copy>>
lossVars == <<lost, unread>>
ghostVars == <<done, runs, lossVars>>

vars == <<ledger, patch, pc, callVars, itemVars, updateVars, flushVars,
          ghostVars>>

Status == {"queued", "running", "retrying", "succeeded", "applied", "failed",
           "blocked"}
Finished == {"succeeded", "applied"}
\* What a worker's progress reports and a rate-limit notice leave in the ledger;
\* "retrying" stands also for a status this routine does not know ("completed").
Reported == {"running", "retrying", "failed"}
Entry == [status : Status, fixAttempts : 0..MaxFixAttempts]
Ledger == [Group -> Entry]
\* The locals of an update and of a flush that are not under way.
Blank == [g \in Group |-> [status |-> "queued", fixAttempts |-> 0]]
NoUpdate == [group |-> CHOOSE g \in Group : TRUE, status |-> "queued",
             fixAttempts |-> 0, counts |-> FALSE]
Kinds == {"patch", "noop", "fail"}
Ended == {"collect", "partial", "threw", "noPatch"}
PCs == {"ready", "lineage", "mark", "dispatch", "process", "fix",
        "block", "update", "write", "final", "stop"} \cup Ended

TypeOK ==
    /\ ledger \in Ledger
    /\ patch \subseteq Group
    /\ pc \in PCs
    /\ wave \subseteq Group
    /\ todo \subseteq wave
    /\ result \in [Group -> Kinds]
    /\ cur \in Group
    /\ attempts \in 0..MaxFixAttempts
    /\ frontier \subseteq Group
    /\ visited \subseteq Group
    /\ update \in [group : Group, status : Status, fixAttempts : 0..MaxFixAttempts,
                   counts : BOOLEAN]
    /\ mine \in Ledger
    /\ back \in {"mark", "process", "fix", "block"}
    /\ flush \in {"off", "reading", "writing"}
    /\ copy \in Ledger
    /\ done \subseteq Group
    /\ runs \in [Group -> Nat]
    /\ lost \subseteq Group
    /\ unread \in BOOLEAN

\* buildGroupLedger keeps what an earlier call finished and queues the rest,
\* without its count of fix attempts; what is finished rests on finished work.
InitialLedger ==
    {l \in [Group -> [status : {"queued"} \cup Finished, fixAttempts : {0}]] :
        \A g \in Group : l[g].status \in Finished
                            => \A d \in Dep[g] : l[d].status \in Finished}

Init ==
    /\ ledger \in InitialLedger
    /\ patch \in SUBSET {g \in Group : ledger[g].status \in Finished}
    /\ {g \in Group : ledger[g].status = "succeeded"} \subseteq patch
    /\ pc = "ready"
    /\ wave = {} /\ todo = {} /\ result = [g \in Group |-> "fail"]
    /\ cur \in {g \in Group : \A h \in Group : Rank[g] <= Rank[h]}
    /\ attempts = 0 /\ frontier = {} /\ visited = {}
    /\ update = NoUpdate /\ mine = Blank /\ back = "process"
    /\ flush = "off" /\ copy = Blank
    /\ done = {g \in Group : ledger[g].status \in Finished}
    /\ runs = [g \in Group |-> 0]
    /\ lost = {} /\ unread = FALSE

Goto(label) == pc' = label

\* A message (emitWorkflowUpdate) starts a flush, when the interval since the
\* last one has elapsed.
Emit ==
    \/ LiveFlush /\ flush = "off" /\ flush' = "reading" /\ UNCHANGED copy
    \/ UNCHANGED flushVars

\* The group whose turn it is, in plan order.
Turn(g) == g \in todo /\ \A h \in todo : Rank[g] <= Rank[h]

\* Start updateGroupLedger; fixAttempts is part of some updates only.
SetStatus(g, s, next) ==
    /\ update' = [group |-> g, status |-> s, fixAttempts |-> 0, counts |-> FALSE]
    /\ back' = next /\ Goto("update") /\ UNCHANGED mine
SetStatusAndCount(g, s, n, next) ==
    /\ update' = [group |-> g, status |-> s, fixAttempts |-> n, counts |-> TRUE]
    /\ back' = next /\ Goto("update") /\ UNCHANGED mine

-----------------------------------------------------------------------------
(* updateGroupLedger, called with .catch(() => {})                         *)

Updated(l) ==
    [l EXCEPT ![update.group] =
        [status |-> update.status,
         fixAttempts |-> IF update.counts THEN update.fixAttempts
                         ELSE l[update.group].fixAttempts]]

UpdateRead ==
    /\ pc = "update"
    /\ \/ mine' = ledger /\ Goto("write") /\ UNCHANGED <<update, lost>>
       \/ /\ IOFails /\ Goto(back) /\ update' = NoUpdate /\ UNCHANGED mine
          /\ lost' = lost \cup {update.group}
    /\ UNCHANGED <<ledger, patch, callVars, itemVars, back, flushVars, done, runs, unread>>

UpdateWrite ==
    /\ pc = "write"
    /\ \/ ledger' = Updated(mine) /\ UNCHANGED lost
       \/ IOFails /\ lost' = lost \cup {update.group} /\ UNCHANGED ledger
    /\ Goto(back)
    /\ update' = NoUpdate /\ mine' = Blank
    /\ UNCHANGED <<patch, callVars, itemVars, back, flushVars, done, runs, unread>>

-----------------------------------------------------------------------------
(* persistImplementationDispatchSnapshot in the background                 *)

\* The status a flush of the group's progress gives its entry.
Reporting(entry, s) == [entry EXCEPT !.status = s]

FlushRead ==
    /\ flush = "reading"
    /\ \/ copy' = ledger /\ flush' = "writing"
       \/ IOFails /\ flush' = "off" /\ UNCHANGED copy
    /\ UNCHANGED <<ledger, patch, pc, callVars, itemVars, updateVars, ghostVars>>

\* The updates of groups it carries were all taken by the last forced flush.
FlushWrite ==
    /\ flush = "writing"
    /\ \/ /\ ledger' = copy
          /\ lost' = lost \cup {g \in Group : copy[g].status # ledger[g].status}
       \/ IOFails /\ UNCHANGED <<ledger, lost>>
    /\ flush' = "off"
    /\ copy' = Blank
    /\ UNCHANGED <<patch, pc, callVars, itemVars, updateVars, done, runs, unread>>

-----------------------------------------------------------------------------
(* One wave                                                                *)

\* getReadyGroupIds
ReadyAgainAfterFailure ==
    {g \in Group : /\ ledger[g].status \in {"queued", "retrying", "failed"}
                   /\ \A d \in Dep[g] : ledger[d].status \in Finished}
Ready ==
    {g \in Group : /\ ledger[g].status \in {"queued", "retrying"}
                   /\ \A d \in Dep[g] : ledger[d].status \in Finished}

\* A read that fails gives an empty wave, and the loop ends.
SelectWave ==
    /\ pc = "ready"
    /\ \/ /\ wave' = Ready /\ UNCHANGED unread
          /\ IF wave' = {} THEN Goto("final") /\ UNCHANGED flushVars
                           ELSE Goto("lineage") /\ Emit
       \/ IOFails /\ wave' = {} /\ unread' = TRUE /\ Goto("final") /\ UNCHANGED flushVars
    /\ todo' = wave'
    /\ UNCHANGED <<ledger, patch, result, itemVars, updateVars, done, runs, lost>>

\* collectDependencyClosure
Closure(g) ==
    {h \in Group : \A S \in SUBSET Group :
        Dep[g] \subseteq S /\ (\A x \in S : Dep[x] \subseteq S) => h \in S}

\* materializeDependencyLineageRef needs the patch of every group a group of
\* the wave rests on, and they must merge; else it throws out of the call.
Materialize ==
    /\ pc = "lineage"
    /\ LET base == UNION {Closure(g) : g \in wave}
       IN \/ base \subseteq patch /\ Goto("mark")
          \/ ~(base \subseteq patch) /\ Goto("noPatch")
          \/ base # {} /\ Goto("threw")
    /\ UNCHANGED <<ledger, patch, callVars, itemVars, updateVars, flushVars,
                   ghostVars>>

MarkRunning(g) ==
    /\ pc = "mark"
    /\ Turn(g)
    /\ todo' = todo \ {g}
    /\ SetStatus(g, "running", "mark")
    /\ UNCHANGED <<ledger, patch, wave, result, itemVars, flushVars, ghostVars>>

\* The forced flush before the dispatch waits for the one in the background
\* and marks the groups again.
ForcedFlush ==
    /\ pc = "mark"
    /\ todo = {}
    /\ flush = "off"
    /\ \/ ledger' = [g \in Group |-> IF g \in wave
                                     THEN Reporting(ledger[g], "running")
                                     ELSE ledger[g]]
       \/ IOFails /\ UNCHANGED ledger
    /\ Goto("dispatch")
    /\ UNCHANGED <<patch, callVars, itemVars, updateVars, flushVars, ghostVars>>

\* dispatchParallelWithRateLimitRetries answers for every task.  The progress
\* reported meanwhile is in the ledger when the forced flush after it returns.
RunWave ==
    /\ pc = "dispatch"
    /\ \A g \in wave : runs[g] < MaxRuns
    /\ \E reported \in [wave -> Reported] :
          ledger' = [g \in Group |-> IF g \in wave
                                     THEN Reporting(ledger[g], reported[g])
                                     ELSE ledger[g]]
    /\ result' \in {r \in [Group -> Kinds] :
                       \A g \in Group \ wave : r[g] = result[g]}
    /\ runs' = [g \in Group |-> IF g \in wave THEN runs[g] + 1 ELSE runs[g]]
    /\ todo' = wave
    /\ Goto("process")
    /\ Emit
    /\ UNCHANGED <<patch, wave, itemVars, updateVars, done, lossVars>>

-----------------------------------------------------------------------------
(* The results of a wave, in order                                         *)

ProcessSuccess(g) ==
    /\ pc = "process"
    /\ Turn(g)
    /\ result[g] # "fail"
    /\ done' = done \cup {g}
    /\ patch' = IF result[g] = "patch" THEN patch \cup {g} ELSE patch
    /\ SetStatus(g, IF result[g] = "patch" THEN "succeeded" ELSE "applied", "process")
    /\ todo' = todo \ {g}
    /\ UNCHANGED <<ledger, wave, result, itemVars, flushVars, runs, lossVars>>

\* A failure is fixed, while the attempts in the ledger allow it.
ProcessFailure(g) ==
    /\ pc = "process"
    /\ Turn(g)
    /\ result[g] = "fail"
    /\ attempts' \in {ledger[g].fixAttempts} \cup (IF IOFails THEN {0} ELSE {})
    /\ IF attempts' < MaxFixAttempts
       THEN SetStatusAndCount(g, "retrying", attempts' + 1, "fix") /\ Emit
       ELSE SetStatusAndCount(g, "failed", attempts', "block") /\ UNCHANGED flushVars
    /\ cur' = g
    /\ frontier' = {g} /\ visited' = {}
    /\ todo' = todo \ {g}
    /\ UNCHANGED <<ledger, patch, wave, result, ghostVars>>

\* attemptGroupFix; its patch is copied into the run directory.
FixSucceeds ==
    /\ pc = "fix"
    /\ done' = done \cup {cur}
    /\ \/ patch' = patch \cup {cur} /\ SetStatus(cur, "succeeded", "process")
       \/ IOFails /\ Goto("threw") /\ UNCHANGED <<patch, updateVars>>
    /\ UNCHANGED <<ledger, callVars, itemVars, flushVars, runs, lossVars>>

FixFailureTaken ==
    /\ pc = "fix"
    /\ patch' = patch \cup {cur}
    /\ SetStatus(cur, "succeeded", "process")
    /\ Emit
    /\ UNCHANGED <<ledger, callVars, itemVars, ghostVars>>
FixFailsAlone ==
    /\ pc = "fix"
    /\ SetStatusAndCount(cur, "failed", attempts, "process")
    /\ Emit
    /\ UNCHANGED <<ledger, patch, callVars, itemVars, ghostVars>>
FixFails ==
    /\ pc = "fix"
    /\ SetStatusAndCount(cur, "failed", attempts, "block")
    /\ Emit
    /\ UNCHANGED <<ledger, patch, callVars, itemVars, ghostVars>>

\* markDependentsBlocked: a walk over the groups that depend on the failed one.
Dependents == {g \in Group : Dep[g] \cap frontier # {}}

BlockDependent(d) ==
    /\ pc = "block"
    /\ d \in Dependents \ visited
    /\ visited' = visited \cup {d}
    /\ \/ /\ ledger[d].status \in Finished \cup {"running"}
          /\ UNCHANGED <<frontier, updateVars, pc>>
       \/ /\ ledger[d].status \notin Finished \cup {"running"} \/ IOFails
          /\ frontier' = frontier \cup {d}
          /\ SetStatus(d, "blocked", "block")
    /\ UNCHANGED <<ledger, patch, callVars, cur, attempts, flushVars, ghostVars>>

BlockedAll ==
    /\ pc = "block"
    /\ Dependents \subseteq visited
    /\ Goto("process")
    /\ UNCHANGED <<ledger, patch, callVars, itemVars, updateVars, flushVars,
                   ghostVars>>

\* The wave's results, and what was read for them, are of no further use.
WaveDone ==
    /\ pc = "process"
    /\ todo = {}
    /\ Goto("ready")
    /\ wave' = {} /\ result' = [g \in Group |-> "fail"]
    /\ frontier' = {} /\ visited' = {}
    /\ UNCHANGED <<ledger, patch, todo, cur, attempts, updateVars, flushVars,
                   ghostVars>>

-----------------------------------------------------------------------------
(* After the last wave                                                     *)

CheckLedgerForBlocked ==
    /\ pc = "final"
    /\ Emit
    /\ \/ /\ \E g \in Group : ledger[g].status = "blocked"
          /\ mine' = ledger /\ Goto("stop") /\ UNCHANGED unread
       \/ /\ \A g \in Group : ledger[g].status # "blocked"
          /\ Goto("collect") /\ UNCHANGED <<mine, unread>>
       \/ IOFails /\ unread' = TRUE /\ Goto("collect") /\ UNCHANGED mine
    /\ UNCHANGED <<ledger, patch, callVars, itemVars, update, back, done, runs, lost>>

\* With no failed and no blocked group in the ledger, all are taken to have
\* succeeded; a read that fails gives an empty ledger.
CheckLedger ==
    /\ pc = "final"
    /\ Emit
    /\ \/ /\ \E g \in Group : ledger[g].status \in {"failed", "blocked"}
          /\ mine' = ledger /\ Goto("stop") /\ UNCHANGED unread
       \/ /\ \A g \in Group : ledger[g].status \notin {"failed", "blocked"}
          /\ Goto("collect") /\ UNCHANGED <<mine, unread>>
       \/ IOFails /\ unread' = TRUE /\ Goto("collect") /\ UNCHANGED mine
    /\ UNCHANGED <<ledger, patch, callVars, itemVars, update, back, done, runs, lost>>

\* The forced flush, then phase partial with the ledger read before it.
StopPartial ==
    /\ pc = "stop"
    /\ flush = "off"
    /\ \/ ledger' = mine /\ Goto("partial")
       \/ IOFails /\ Goto("threw") /\ UNCHANGED ledger
    /\ UNCHANGED <<patch, callVars, itemVars, updateVars, flushVars, ghostVars>>

Main ==
    \/ UpdateRead \/ UpdateWrite
    \/ SelectWave \/ Materialize \/ ForcedFlush \/ RunWave
    \/ \E g \in Group : \/ MarkRunning(g) \/ ProcessSuccess(g)
                        \/ ProcessFailure(g) \/ BlockDependent(g)
    \/ FixSucceeds \/ FixFails \/ BlockedAll \/ WaveDone
    \/ CheckLedger \/ StopPartial

Next == Main \/ FlushRead \/ FlushWrite

Spec == Init /\ [][Next]_vars

\* Workers answer or are timed out by their backend, file operations settle and
\* Node runs the continuations.
FairSpec == Spec /\ WF_vars(Main) /\ WF_vars(FlushRead \/ FlushWrite)

-----------------------------------------------------------------------------
(* Properties                                                              *)

\* The ledger never claims more than was done: a group it calls succeeded or
\* applied has a worker's accepted result or a fix's, however updates of it are
\* lost or fail (index.ts:3099-3127, 3175-3216).
LedgerNeverOverclaims ==
    \A g \in Group : ledger[g].status \in Finished => g \in done

\* Work rests on work: a group is handed to a worker only when everything it
\* depends on, transitively, is done (index.ts:2693-2716, 2628-2634).
DispatchedAfterDependencies ==
    /\ \A g \in done : Dep[g] \subseteq done
    /\ pc \in {"mark", "dispatch"} => \A g \in wave : Dep[g] \subseteq done

\* The ledger may be wrong about a group, or about one it rests on, for a change it
\* missed or lost.
Tainted(g) == ({g} \cup Closure(g)) \cap lost # {}

\* A call that stops as partial accounts for every group: it is finished, failed, or
\* blocked by a failed group it depends on.  If one is left queued, running or retrying,
\* a change of it or of a group it rests on was lost, by an update that failed or by a
\* flush that wrote back a stale copy (index.ts:2655-2690, 3268-3330).
PartialAccountsForAll ==
    pc = "partial" /\ ~unread =>
        \A g \in Group :
            \/ ledger[g].status \in Finished \cup {"failed"}
            \/ /\ ledger[g].status = "blocked"
               /\ \E d \in Closure(g) : ledger[d].status = "failed"
            \/ Tainted(g)

\* index.ts:3333: "All groups succeeded".  When the routine has read the ledger and goes on
\* to collect results, every group has been done, but for those the ledger is wrong about.
AllDoneAtCollect ==
    pc = "collect" /\ ~unread => \A g \in Group : g \in done \/ Tainted(g)

\* Each call comes to an end.
Terminates == <>(pc \in Ended)
=============================================================================
