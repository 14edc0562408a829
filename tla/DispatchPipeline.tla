-------------------------- MODULE DispatchPipeline --------------------------
(***************************************************************************)
(* The retry loop of a dispatch (RateLimit) over the dispatch service      *)
(* (Bridge): each turn of the loop is one runParallel call, and what the   *)
(* service and its workers report while it is under way reaches the        *)
(* entries of the loop through the onUpdate callback of each task.         *)
(***************************************************************************)
EXTENDS RateLimit, Bridge

CONSTANT Concurrency    \* input.concurrency of the first pass

ASSUME PipelineAssumption == Concurrency \in Nat

VARIABLES
    spoke,      \* ghost: tasks whose worker reported in its current attempt
    quiet       \* ghost: retries in a row that met the limit without one

pipelineVars == <<retryVars, bridgeVars, spoke, quiet>>

PipelineInit ==
    /\ RetryInit
    /\ BridgeInit
    /\ spoke = {}
    /\ quiet = [t \in Task |-> 0]

Call ==
    /\ \E b \in Batch : DispatchBatch(b)
    /\ Accept(call', IF serialize THEN 1 ELSE Concurrency)
    /\ spoke' = spoke \ call'
    /\ UNCHANGED quiet

\* runCompatTaskInWorkspace reports "starting ..." before the worker starts.
Begin(t) ==
    /\ BeginTask(t)
    /\ Report(t, attempt[t])
    /\ UNCHANGED <<spoke, quiet>>

WorkerReports(t) ==
    /\ t \in running \/ (service = "fork" /\ stage = "routed" /\ t \in request)
    /\ Report(t, attempt[t])
    /\ spoke' = spoke \cup {t}
    /\ UNCHANGED <<bridgeVars, quiet>>

\* A report of an attempt that has been answered.
LateReport(t, n) ==
    /\ n < attempt[t]
    /\ Report(t, n)
    /\ UNCHANGED <<bridgeVars, spoke, quiet>>

Working ==
    /\ Serve
    /\ UNCHANGED <<retryVars, spoke, quiet>>

\* The call returns its results, and the loop goes through them.
Answered ==
    /\ stage = "settled"
    /\ quiet' = [t \in Task |->
            IF t \notin Limited(answer) \/ attempt[t] = 1 THEN quiet[t]
            ELSE IF t \in spoke THEN 0 ELSE quiet[t] + 1]
    /\ ProcessResults(answer)
    /\ Return
    /\ UNCHANGED spoke

PipelineNext ==
    \/ Call \/ Working \/ Answered
    \/ \E t \in Task : Begin(t) \/ WorkerReports(t)
    \/ \E t \in Task, n \in 1..MaxAttempts : LateReport(t, n)

PipelineSpec == PipelineInit /\ [][PipelineNext]_pipelineVars

\* The service and its pool run as long as there is something to run, and every
\* worker ends: its process exits, or is killed by its own limits.
PipelineFairSpec ==
    /\ PipelineSpec
    /\ WF_pipelineVars(Working \/ Answered \/ \E t \in Task : Begin(t))

-----------------------------------------------------------------------------
(* Properties                                                              *)

\* The service works on the tasks the loop waits for and on no others, with no more
\* workers than the loop asks for, and one after the first rate limit.  In a
\* workspace there is one worker at a time: the tasks it depends on there have
\* all succeeded, and its worktree holds their work and nothing of a failed one.
WorkersKeepApart ==
    /\ request = call
    /\ running # {} => Cardinality(running) <= IF limit < 1 THEN 1 ELSE limit
    /\ serialize => Cardinality(running) <= 1
    /\ \A t, u \in running : home[t] = home[u] => t = u
    /\ \A t \in running :
          /\ tree[home[t]] = base[home[t]]
          /\ \A u \in tree[home[t]] : answer[u] = "ok"
          /\ ~Cyclic(home[t]) =>
                Needs[t] \cap Members(home[t]) \subseteq tree[home[t]]

\* A task whose worker keeps meeting the rate limit without reporting any progress
\* is given up after MaxRetries retries.
SilentTaskGivesUp ==
    \A t \in pending : attempt[t] > 0 => quiet[t] < MaxRetries

\* Every call to the service returns, whatever fails in it.
CallsReturn == call # {} ~> call = {}
=============================================================================
