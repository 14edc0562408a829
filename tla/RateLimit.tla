------------------------------ MODULE RateLimit ------------------------------
(***************************************************************************)
(* orchestration/implementation/rate-limit.ts,                             *)
(* dispatchParallelWithRateLimitRetries: dispatch tasks in parallel, and   *)
(* retry those the provider turned away with a rate limit, one at a time   *)
(* from then on, until each has its result or has used up its retries.     *)
(*                                                                         *)
(* A task is retried MaxRetries times in one burst; a retry that reports   *)
(* progress starts a new burst.  Each attempt has an entry of its own, and *)
(* its progress reports set the flag of that entry, also when they come    *)
(* after the attempt was answered.                                         *)
(*                                                                         *)
(* Which pending task is ready first is the provider's choice of waiting   *)
(* times and left open.  The dispatch service answers every task.          *)
(***************************************************************************)
EXTENDS DispatchTasks

CONSTANTS
    MaxRetries,     \* retries in one burst
    MaxAttempts     \* bound: dispatches of one task

ASSUME RateLimitAssumption ==
    /\ MaxRetries \in Nat
    /\ MaxAttempts \in Nat \ {0}

VARIABLES
    pending,    \* tasks still to be dispatched
    serialize,  \* serializeRetries
    call,       \* tasks of the runParallel call under way
    burst,      \* consecutiveRateLimitRetries of each task's entry
    attempt,    \* ghost: its dispatches so far
    saw,        \* attempts that reported progress: their entries' flags
    final,      \* finalResults
    loop,       \* "running", "returned", or "threw"
    dry         \* ghost: retries in a row that met the limit without a report

retryVars == <<pending, serialize, call, burst, attempt, saw, final, loop, dry>>

Finals == {"none", "ok", "failed", "exhausted"}

RetryTypeOK ==
    /\ pending \subseteq Task
    /\ serialize \in BOOLEAN
    /\ call \subseteq Task
    /\ burst \in [Task -> 0..MaxRetries]
    /\ attempt \in [Task -> 0..MaxAttempts]
    /\ saw \in [Task -> SUBSET (1..MaxAttempts)]
    /\ final \in [Task -> Finals]
    /\ loop \in {"running", "returned", "threw"}
    /\ dry \in [Task -> 0..MaxAttempts]

RetryInit ==
    /\ pending = Task
    /\ serialize = FALSE
    /\ call = {}
    /\ burst = [t \in Task |-> 0]
    /\ attempt = [t \in Task |-> 0]
    /\ saw = [t \in Task |-> {}]
    /\ final = [t \in Task |-> "none"]
    /\ loop = "running"
    /\ dry = [t \in Task |-> 0]

\* The first pass takes all pending tasks; after a rate limit the task that is
\* ready first goes alone, once its waiting time is over.
Batch == IF serialize THEN {{t} : t \in pending} ELSE {pending}

DispatchBatch(b) ==
    /\ loop = "running" /\ call = {} /\ pending # {}
    /\ b \in Batch
    /\ \A t \in b : attempt[t] < MaxAttempts
    /\ call' = b
    /\ pending' = pending \ b
    /\ attempt' = [t \in Task |-> IF t \in b THEN attempt[t] + 1 ELSE attempt[t]]
    /\ UNCHANGED <<serialize, burst, saw, final, loop, dry>>

\* The progress callback of an attempt, which may also be a late one.
Report(t, n) ==
    /\ n \in 1..attempt[t]
    /\ saw' = [saw EXCEPT ![t] = @ \cup {n}]
    /\ UNCHANGED <<pending, serialize, call, burst, attempt, final, loop, dry>>

\* sawProgressSinceRetry is read from the entry of the attempt just answered;
\* progress counts when there was a rate limit before (hadPriorRateLimit).
NewBurstOnAnyReport(t) == attempt[t] > 1 /\ saw[t] # {}
NewBurst(t) == attempt[t] > 1 /\ attempt[t] \in saw[t]
BurstRetriesUsed(t) == IF NewBurst(t) THEN 0 ELSE burst[t]

Limited(r) == {t \in call : r[t] = "limit"}
Again(r) == {t \in Limited(r) : BurstRetriesUsed(t) < MaxRetries}

\* The loop over the results of a call.  onRateLimitNotice may reject, and the
\* whole dispatch with it.
ProcessResults(r) ==
    /\ loop = "running" /\ call # {}
    /\ final' = [t \in Task |->
            IF t \notin call \/ t \in Again(r) THEN final[t]
            ELSE IF t \in Limited(r) THEN "exhausted"
            ELSE IF r[t] = "ok" THEN "ok" ELSE "failed"]
    /\ burst' = [t \in Task |-> IF t \in Again(r) THEN BurstRetriesUsed(t) + 1
                                ELSE burst[t]]
    /\ pending' = pending \cup Again(r)
    /\ serialize' = (serialize \/ Again(r) # {})
    /\ call' = {}
    /\ dry' = [t \in Task |-> IF t \notin Limited(r) \/ attempt[t] = 1 THEN dry[t]
                              ELSE IF attempt[t] \in saw[t] THEN 0 ELSE dry[t] + 1]
    /\ UNCHANGED <<attempt, saw>>
    /\ \/ loop' = IF pending' = {} THEN "returned" ELSE "running"
       \/ Again(r) # {} /\ loop' = "threw"

\* Alone, against any dispatch service.
RetryNext ==
    \/ \E b \in SUBSET Task : DispatchBatch(b)
    \/ \E t \in Task, n \in 1..MaxAttempts : Report(t, n)
    \/ \E r \in [Task -> {"ok", "fail", "limit"}] : ProcessResults(r)

RetrySpec == RetryInit /\ [][RetryNext]_retryVars

-----------------------------------------------------------------------------
(* Properties                                                              *)

\* Every task of a dispatch that returned has its one result: a task with a
\* result is neither pending nor under way.  A task gives up exactly when
\* MaxRetries retries in a row met the rate limit without having reported
\* progress by then; the reports of its first attempt, or late ones of an
\* earlier attempt, neither renew the budget nor use it up.
RetryBudget ==
    /\ loop = "returned" => \A t \in Task : final[t] # "none"
    /\ \A t \in pending \cup call : final[t] = "none"
    /\ \A t \in pending : dry[t] < MaxRetries \/ attempt[t] = 0
    /\ \A t \in Task : final[t] = "exhausted" => dry[t] = MaxRetries
=============================================================================
