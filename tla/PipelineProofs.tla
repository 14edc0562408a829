--------------------------- MODULE PipelineProofs ---------------------------
(***************************************************************************)
(* Theorems about the dispatch pipeline and the order of replay: the retry *)
(* loop against any dispatch service, the service under that loop, and     *)
(* topoSortGroups, for any tasks, workspaces, limits and plans.            *)
(***************************************************************************)
EXTENDS DispatchPipeline, GroupOrder, FiniteSetTheorems, FunctionTheorems, TLAPS

-----------------------------------------------------------------------------
(* The retry loop                                                          *)

\* What the entry of a task says while it waits: its retries in this burst are
\* one more than those that met the limit in a row.
WaitingEntry(t) ==
    \/ attempt[t] = 0 /\ burst[t] = 0 /\ dry[t] = 0
    \/ attempt[t] > 0 /\ dry[t] < attempt[t] /\ burst[t] = dry[t] + 1

\* ... and while its next attempt is under way.
CalledEntry(t) ==
    \/ attempt[t] = 1 /\ burst[t] = 0 /\ dry[t] = 0
    \/ attempt[t] > 1 /\ dry[t] + 1 < attempt[t] /\ burst[t] = dry[t] + 1

EntriesInv ==
    /\ \A t \in pending : WaitingEntry(t)
    /\ \A t \in call : CalledEntry(t)

\* A task is waiting, under way, or has its result.
PlaceInv ==
    /\ pending \cap call = {}
    /\ \A t \in Task : final[t] = "none" <=> t \in pending \cup call
    /\ loop = "returned" => pending = {} /\ call = {}
    /\ \A t \in Task : final[t] = "exhausted" => dry[t] = MaxRetries

RetryInv == RetryTypeOK /\ EntriesInv /\ PlaceInv

LEMMA RetryInitInv == RetryInit => RetryInv
<1> SUFFICES ASSUME RetryInit PROVE RetryInv
  OBVIOUS
<1>1. RetryTypeOK
  <2>1. 0 \in 0..MaxRetries /\ 0 \in 0..MaxAttempts
    BY RateLimitAssumption
  <2>2. /\ burst \in [Task -> 0..MaxRetries] /\ attempt \in [Task -> 0..MaxAttempts]
        /\ dry \in [Task -> 0..MaxAttempts] /\ saw \in [Task -> SUBSET (1..MaxAttempts)]
    BY <2>1 DEF RetryInit
  <2>3. pending \subseteq Task /\ call \subseteq Task /\ serialize \in BOOLEAN
    BY DEF RetryInit
  <2>4. final \in [Task -> Finals] /\ loop \in {"running", "returned", "threw"}
    BY DEF RetryInit, Finals
  <2> QED
    BY <2>2, <2>3, <2>4 DEF RetryTypeOK
<1>2. EntriesInv
  BY DEF RetryInit, EntriesInv, WaitingEntry
<1>3. PlaceInv
  BY DEF RetryInit, PlaceInv
<1> QED
  BY <1>1, <1>2, <1>3 DEF RetryInv

LEMMA DispatchKeepsRetryInv ==
    ASSUME RetryInv, NEW b, DispatchBatch(b)
    PROVE  RetryInv'
<1> USE RateLimitAssumption DEF RetryInv
<1>1. b \subseteq pending /\ pending \subseteq Task
  BY DEF DispatchBatch, Batch, RetryTypeOK
<1>2. attempt' \in [Task -> 0..MaxAttempts]
  BY <1>1 DEF DispatchBatch, RetryTypeOK
<1>3. RetryTypeOK'
  BY <1>1, <1>2 DEF DispatchBatch, RetryTypeOK
<1>4. EntriesInv'
  <2>1. ASSUME NEW t \in pending' PROVE WaitingEntry(t)'
    BY <2>1, <1>1 DEF DispatchBatch, EntriesInv, WaitingEntry
  <2>2. ASSUME NEW t \in b PROVE CalledEntry(t)'
    BY <2>2, <1>1 DEF DispatchBatch, EntriesInv, WaitingEntry, CalledEntry, RetryTypeOK
  <2> QED
    BY <2>1, <2>2 DEF EntriesInv, DispatchBatch
<1>5. PlaceInv'
  BY <1>1 DEF DispatchBatch, PlaceInv
<1> QED
  BY <1>3, <1>4, <1>5

LEMMA ReportKeepsRetryInv ==
    ASSUME RetryInv, NEW t \in Task, NEW n, Report(t, n)
    PROVE  RetryInv'
<1>1. n \in 1..MaxAttempts
  BY RateLimitAssumption DEF Report, RetryInv, RetryTypeOK
<1>2. saw' \in [Task -> SUBSET (1..MaxAttempts)]
  BY <1>1 DEF Report, RetryInv, RetryTypeOK
<1> QED
  BY <1>2 DEF Report, RetryInv, RetryTypeOK, EntriesInv, WaitingEntry, CalledEntry, PlaceInv

\* Of the results only those of the call count, whatever they are.
LEMMA ResultsKeepRetryInv ==
    ASSUME RetryInv, NEW r, ProcessResults(r)
    PROVE  RetryInv'
<1> USE RateLimitAssumption DEF RetryInv
<1>1. Limited(r) \subseteq call /\ Again(r) \subseteq Limited(r) /\ call \subseteq Task
  BY DEF Limited, Again, RetryTypeOK
<1>2. /\ pending' = pending \cup Again(r) /\ call' = {} /\ attempt' = attempt
      /\ saw' = saw /\ serialize' \in BOOLEAN
      /\ loop' \in {"running", "returned", "threw"}
      /\ loop' = "returned" => pending' = {}
  BY DEF ProcessResults, RetryTypeOK
<1>3. ASSUME NEW t \in Again(r)
      PROVE  /\ WaitingEntry(t)'
             /\ burst'[t] \in 0..MaxRetries /\ dry'[t] \in 0..MaxAttempts
  <2>1. t \in Task /\ t \in call /\ t \in Limited(r) /\ CalledEntry(t)
    BY <1>1 DEF EntriesInv
  <2>2. BurstRetriesUsed(t) < MaxRetries
    BY DEF Again
  <2>3. /\ burst'[t] = BurstRetriesUsed(t) + 1
        /\ dry'[t] = IF attempt[t] = 1 THEN dry[t]
                     ELSE IF attempt[t] \in saw[t] THEN 0 ELSE dry[t] + 1
    BY <2>1 DEF ProcessResults
  <2>4. attempt[t] \in 0..MaxAttempts /\ burst[t] \in 0..MaxRetries
        /\ dry[t] \in 0..MaxAttempts
    BY <2>1 DEF RetryTypeOK
  <2> QED
    BY <2>1, <2>2, <2>3, <2>4, <1>2
       DEF BurstRetriesUsed, NewBurst, CalledEntry, WaitingEntry
<1>4. ASSUME NEW t \in Task, t \notin Again(r)
      PROVE  burst'[t] = burst[t]
  BY <1>4 DEF ProcessResults
<1>5. ASSUME NEW t \in Task, t \notin Limited(r)
      PROVE  dry'[t] = dry[t]
  BY <1>5 DEF ProcessResults
<1>6. ASSUME NEW t \in Limited(r), t \notin Again(r)
      PROVE  dry'[t] = MaxRetries /\ dry'[t] \in 0..MaxAttempts
  <2>1. t \in Task /\ t \in call /\ CalledEntry(t)
    BY <1>1 DEF EntriesInv
  <2>2. ~(BurstRetriesUsed(t) < MaxRetries)
    BY <1>6 DEF Again
  <2>3. dry'[t] = IF attempt[t] = 1 THEN dry[t]
                  ELSE IF attempt[t] \in saw[t] THEN 0 ELSE dry[t] + 1
    BY <2>1 DEF ProcessResults
  <2>4. attempt[t] \in 0..MaxAttempts /\ burst[t] \in 0..MaxRetries
        /\ dry[t] \in 0..MaxAttempts
    BY <2>1 DEF RetryTypeOK
  <2> QED
    BY <2>1, <2>2, <2>3, <2>4 DEF BurstRetriesUsed, NewBurst, CalledEntry
<1>7. burst' \in [Task -> 0..MaxRetries]
  <2>1. burst' = [t \in Task |-> burst'[t]]
    BY DEF ProcessResults
  <2>2. \A t \in Task : burst'[t] \in 0..MaxRetries
    BY <1>3, <1>4 DEF RetryTypeOK
  <2> QED
    BY <2>1, <2>2
<1>8. dry' \in [Task -> 0..MaxAttempts]
  <2>1. dry' = [t \in Task |-> dry'[t]]
    BY DEF ProcessResults
  <2>2. \A t \in Task : dry'[t] \in 0..MaxAttempts
    BY <1>3, <1>5, <1>6 DEF RetryTypeOK
  <2> QED
    BY <2>1, <2>2
<1>9. \A t \in Task : final'[t] = IF t \notin call \/ t \in Again(r) THEN final[t]
                                  ELSE IF t \in Limited(r) THEN "exhausted"
                                  ELSE IF r[t] = "ok" THEN "ok" ELSE "failed"
  BY DEF ProcessResults
<1>10. final' \in [Task -> Finals]
  BY DEF ProcessResults, RetryTypeOK, Finals
<1>11. RetryTypeOK'
  BY <1>1, <1>2, <1>7, <1>8, <1>10 DEF RetryTypeOK
<1>12. EntriesInv'
  <2>1. ASSUME NEW t \in pending, t \notin Again(r) PROVE WaitingEntry(t)'
    <3>1. t \in Task /\ t \notin Limited(r) /\ WaitingEntry(t)
      BY <1>1 DEF EntriesInv, PlaceInv, RetryTypeOK
    <3>2. burst'[t] = burst[t] /\ dry'[t] = dry[t]
      BY <2>1, <3>1, <1>4, <1>5
    <3> QED
      BY <3>1, <3>2, <1>2 DEF WaitingEntry
  <2> QED
    BY <2>1, <1>2, <1>3 DEF EntriesInv
<1>13. PlaceInv'
  <2>1. \A t \in Task : final'[t] = "none" <=> t \in pending'
    BY <1>1, <1>2, <1>9 DEF PlaceInv
  <2>2. ASSUME NEW t \in Task, final'[t] = "exhausted" PROVE dry'[t] = MaxRetries
    <3>1. CASE t \in Limited(r) /\ t \notin Again(r)
      BY <3>1, <1>6
    <3>2. CASE ~(t \in Limited(r) /\ t \notin Again(r))
      <4>1. final[t] = "exhausted" /\ t \notin Limited(r)
        BY <3>2, <2>2, <1>1, <1>9 DEF PlaceInv
      <4> QED
        BY <4>1, <1>5 DEF PlaceInv
    <3> QED
      BY <3>1, <3>2
  <2> QED
    BY <2>1, <2>2, <1>2 DEF PlaceInv
<1> QED
  BY <1>11, <1>12, <1>13

LEMMA RetryInvBudget == RetryInv => RetryBudget
<1> SUFFICES ASSUME RetryInv PROVE RetryBudget
  OBVIOUS
<1>1. ASSUME NEW t \in pending PROVE dry[t] < MaxRetries \/ attempt[t] = 0
  BY RateLimitAssumption DEF RetryInv, EntriesInv, WaitingEntry, RetryTypeOK
<1> QED
  BY <1>1 DEF RetryInv, PlaceInv, RetryBudget, RetryTypeOK

\* Against any dispatch service, a task gives up exactly after MaxRetries retries in
\* a row that met the limit without a report, and a dispatch that returned has a
\* result of every task (rate-limit.ts, dispatchParallelWithRateLimitRetries).
THEOREM RetriesKeepTheirBudget == RetrySpec => []RetryBudget
<1>1. RetryInv /\ [RetryNext]_retryVars => RetryInv'
  <2> SUFFICES ASSUME RetryInv, [RetryNext]_retryVars PROVE RetryInv'
    OBVIOUS
  <2>1. CASE \E b \in SUBSET Task : DispatchBatch(b)
    BY <2>1, DispatchKeepsRetryInv
  <2>2. CASE \E t \in Task, n \in 1..MaxAttempts : Report(t, n)
    BY <2>2, ReportKeepsRetryInv
  <2>3. CASE \E r \in [Task -> {"ok", "fail", "limit"}] : ProcessResults(r)
    BY <2>3, ResultsKeepRetryInv
  <2>4. CASE UNCHANGED retryVars
    BY <2>4 DEF retryVars, RetryInv, RetryTypeOK, EntriesInv, WaitingEntry, CalledEntry,
                PlaceInv
  <2> QED
    BY <2>1, <2>2, <2>3, <2>4 DEF RetryNext
<1> QED
  BY <1>1, RetryInitInv, RetryInvBudget, PTL DEF RetrySpec
-----------------------------------------------------------------------------
(* The service                                                             *)

LEMMA LeastNatural ==
    ASSUME NEW S \in SUBSET Nat, S # {}
    PROVE  \E m \in S : \A n \in S : m <= n
<1>1. PICK m \in S : \A n \in S : ~(<<n, m>> \in OpToRel(<, Nat))
  BY NatLessThanWellFounded, WFMin
<1>2. \A n \in S : ~(n < m)
  BY <1>1 DEF OpToRel
<1> QED
  BY <1>2

\* The task that is next in an idle workspace is one of those that may be.
LEMMA NextIsEligible ==
    ASSUME BridgeTypeOK, NEW w, Left(w) # {}
    PROVE  Next1(w) \in Eligible(w) /\ Eligible(w) \subseteq Left(w)
<1>1. Left(w) \in SUBSET Members(w) /\ Members(w) \subseteq Task
  BY DEF Left, Members, BridgeTypeOK
<1>2. Eligible(w) # {} /\ Eligible(w) \subseteq Left(w)
  <2>1. CASE Cyclic(w)
    BY <2>1 DEF Eligible
  <2>2. CASE ~Cyclic(w)
    <3>1. \E t \in Left(w) : Needs[t] \cap Left(w) = {}
      BY <1>1, <2>2 DEF Cyclic
    <3> QED
      BY <2>2, <3>1 DEF Eligible
  <2> QED
    BY <2>1, <2>2
<1>3. \E t \in Eligible(w) : \A u \in Eligible(w) : Index[t] <= Index[u]
  <2> DEFINE S == {Index[t] : t \in Eligible(w)}
  <2>1. S \in SUBSET Nat /\ S # {}
    BY <1>1, <1>2, BridgeAssumption
  <2>2. PICK m \in S : \A n \in S : m <= n
    BY <2>1, LeastNatural
  <2> QED
    BY <2>2
<1> QED
  BY <1>2, <1>3 DEF Next1

\* Before the pool has started nothing has been done, and after it nothing is.
StageInv ==
    /\ stage # "work" => open = {}
    /\ stage \in {"idle", "routed", "setup"} =>
          /\ taken = {}
          /\ \A t \in Task : answer[t] = "none"
    /\ stage \in {"idle", "routed"} => made = {}
    /\ made \subseteq Plans
    /\ stage = "work" => made = Plans
    /\ stage = "settled" => \A t \in request : answer[t] # "none"

\* As long as a workspace goes on, its worktree and the commit it starts from hold
\* the work of all its tasks that are through, and those have succeeded.
SpaceInv ==
    /\ \A w \in Workspace \ taken : tree[w] = {} /\ base[w] = {}
    /\ stage = "work" =>
          \A w \in Workspace \ taken : Left(w) = Members(w)
    /\ \A w \in open \ halted : Left(w) # {} =>
          tree[w] = Members(w) \ Left(w) /\ base[w] = Members(w) \ Left(w)
    /\ \A w \in Workspace : \A t \in base[w] : answer[t] = "ok"

\* A running task is the only one of its workspace, and waits for no other there.
RunningInv ==
    /\ \A t \in running : home[t] \in open \ halted /\ answer[t] = "none"
    /\ \A t, u \in running : home[t] = home[u] => t = u
    /\ \A t \in running : Cyclic(home[t]) \/ Needs[t] \cap Left(home[t]) = {}

PatchInv ==
    \A t \in Task :
        /\ answer[t] = "none" => patch[t] = NoPatch
        /\ answer[t] = "ok" /\ patch[t].kept => patch[t].holds = {t}

BridgeInv == BridgeTypeOK /\ StageInv /\ SpaceInv /\ RunningInv /\ PatchInv

LEMMA HomeIsWorkspace ==
    ASSUME BridgeTypeOK
    PROVE  /\ home \in [Task -> Workspace]
           /\ \A w : Members(w) \subseteq Task
           /\ Plans \subseteq Workspace
           /\ \A t, u \in Task : home[t] = home[u] /\ home[t] \notin Staging => t = u
BY BridgeAssumption DEF BridgeTypeOK, Members, Plans

LEMMA FreshIsBridgeInv ==
    ASSUME Fresh, service \in Services, home \in Homes, stage = "idle", request = {},
           limit = 0, baseRef \in [Task -> Ref \cup {NoRef}]
    PROVE  BridgeInv
<1>1. BridgeTypeOK
  <2>1. base \in [Workspace -> SUBSET Task] /\ tree \in [Workspace -> SUBSET Task]
    BY DEF Fresh, Empty
  <2>2. answer \in [Task -> Answers] /\ patch \in [Task -> [kept : BOOLEAN, holds : SUBSET Task]]
    BY DEF Fresh, Answers, NoPatch
  <2> QED
    BY <2>1, <2>2 DEF Fresh, BridgeTypeOK
<1>2. StageInv /\ RunningInv /\ PatchInv
  BY DEF Fresh, StageInv, RunningInv, PatchInv, Plans, NoPatch
<1>3. SpaceInv
  BY DEF Fresh, SpaceInv, Empty
<1> QED
  BY <1>1, <1>2, <1>3 DEF BridgeInv

\* A call that is answered as a whole has done nothing.
LEMMA AllFailKeepsBridgeInv ==
    ASSUME BridgeInv, stage \in {"routed", "setup"}, stage' = "settled",
           NEW r \in [request -> {"ok", "fail", "limit"}],
           answer' = [t \in Task |-> IF t \in request THEN r[t] ELSE answer[t]],
           made' \in {made, {}},
           UNCHANGED <<callShape, taken, open, running, halted, base, tree, patch>>
    PROVE  BridgeInv'
<1> USE DEF BridgeInv, callShape
<1>1. request \subseteq Task /\ running = {} /\ taken = {} /\ open = {} /\ halted = {}
  BY DEF BridgeTypeOK, StageInv, RunningInv
<1>2. answer' \in [Task -> Answers]
  BY DEF BridgeTypeOK, Answers
<1>3. BridgeTypeOK'
  BY <1>1, <1>2 DEF BridgeTypeOK
<1>4. StageInv'
  BY <1>1 DEF StageInv, Plans
<1>5. SpaceInv'
  BY <1>1 DEF SpaceInv
<1>6. RunningInv' /\ PatchInv'
  <2>1. \A t \in Task : patch[t].kept = FALSE /\ patch[t] = NoPatch
    BY DEF StageInv, PatchInv, NoPatch
  <2> QED
    BY <1>1, <2>1 DEF RunningInv, PatchInv
<1> QED
  BY <1>3, <1>4, <1>5, <1>6

LEMMA AllFailAnswers ==
    ASSUME AllFail, BridgeTypeOK
    PROVE  \E r \in [request -> {"ok", "fail", "limit"}] :
              answer' = [t \in Task |-> IF t \in request THEN r[t] ELSE answer[t]]
<1> DEFINE r == [t \in request |-> "fail"]
<1>1. r \in [request -> {"ok", "fail", "limit"}]
  OBVIOUS
<1>2. answer' = [t \in Task |-> IF t \in request THEN r[t] ELSE answer[t]]
  BY DEF AllFail
<1> QED
  BY <1>1, <1>2

LEMMA AcceptKeepsBridgeInv ==
    ASSUME BridgeInv, NEW S \in SUBSET Task, NEW n \in Nat, Accept(S, n)
    PROVE  BridgeInv'
<1> USE DEF BridgeInv, Accept, workVars
<1>1. BridgeTypeOK'
  <2>1. running = {}
    BY DEF StageInv, RunningInv
  <2> QED
    BY <2>1 DEF BridgeTypeOK
<1>2. StageInv' /\ PatchInv'
  BY DEF StageInv, PatchInv
<1>3. SpaceInv'
  BY DEF SpaceInv, StageInv
<1>4. RunningInv'
  BY DEF RunningInv, StageInv
<1> QED
  BY <1>1, <1>2, <1>3, <1>4

LEMMA SetupKeepsBridgeInv ==
    ASSUME BridgeInv,
           Refuse \/ ForkAnswers \/ PlanWorkspaces \/ StartPool
             \/ \E w \in Workspace : SetUpWorktree(w)
    PROVE  BridgeInv'
<1> USE DEF BridgeInv
<1>1. CASE Refuse
  BY <1>1, AllFailAnswers, AllFailKeepsBridgeInv DEF Refuse, AllFail
<1>2. CASE ForkAnswers
  BY <1>2, AllFailKeepsBridgeInv DEF ForkAnswers
<1>3. CASE PlanWorkspaces
  <2>1. CASE AllFail
    BY <1>3, <2>1, AllFailAnswers, AllFailKeepsBridgeInv DEF PlanWorkspaces, AllFail
  <2>2. CASE stage' = "setup" /\ UNCHANGED answer
    <3>1. stage = "routed"
          /\ UNCHANGED <<callShape, made, taken, open, running, halted, base, tree, patch, answer>>
      BY <1>3, <2>2 DEF PlanWorkspaces
    <3> USE <2>2, <3>1 DEF callShape
    <3>2. BridgeTypeOK' /\ StageInv' /\ PatchInv'
      BY DEF BridgeTypeOK, StageInv, Plans, PatchInv
    <3>3. SpaceInv'
      BY DEF SpaceInv, StageInv
    <3>4. RunningInv'
      BY DEF RunningInv, StageInv
    <3> QED
      BY <3>2, <3>3, <3>4
  <2> QED
    BY <1>3, <2>1, <2>2 DEF PlanWorkspaces
<1>4. CASE StartPool
  <2> USE <1>4 DEF StartPool, callShape, workVars
  <2>1. BridgeTypeOK' /\ StageInv' /\ PatchInv'
    BY DEF BridgeTypeOK, StageInv, Plans, PatchInv
  <2>2. SpaceInv'
    <3>1. \A w : Left(w)' = Members(w)'
      BY HomeIsWorkspace DEF StageInv, Left, Members
    <3> QED
      BY <3>1 DEF SpaceInv, StageInv
  <2>3. RunningInv'
    BY DEF RunningInv, StageInv
  <2> QED
    BY <2>1, <2>2, <2>3
<1>5. ASSUME NEW w \in Workspace, SetUpWorktree(w) PROVE BridgeInv'
  <2>1. CASE AllFail /\ made' = {}
    BY <1>5, <2>1, AllFailAnswers, AllFailKeepsBridgeInv DEF SetUpWorktree, AllFail
  <2>2. CASE made' = made \cup {w} /\ UNCHANGED <<stage, answer>>
    <3>1. stage = "setup" /\ w \in Plans
          /\ UNCHANGED <<callShape, taken, open, running, halted, base, tree, patch>>
      BY <1>5 DEF SetUpWorktree, Earliest
    <3> USE <2>2, <3>1 DEF callShape
    <3>2. BridgeTypeOK' /\ StageInv' /\ PatchInv'
      BY DEF BridgeTypeOK, StageInv, Plans, PatchInv
    <3>3. SpaceInv'
      BY DEF SpaceInv, StageInv
    <3>4. RunningInv'
      BY DEF RunningInv, StageInv
    <3> QED
      BY <3>2, <3>3, <3>4
  <2> QED
    BY <1>5, <2>1, <2>2 DEF SetUpWorktree
<1> QED
  BY <1>1, <1>2, <1>3, <1>4, <1>5
\* Answering a task takes it from what is left of its workspace.
LEMMA AnswerLeft ==
    ASSUME BridgeTypeOK, NEW t \in Task, NEW a \in {"ok", "fail", "limit"},
           answer' = [answer EXCEPT ![t] = a], UNCHANGED callShape
    PROVE  /\ \A w : Members(w)' = Members(w) /\ Left(w)' = Left(w) \ {t}
           /\ \A w : Cyclic(w)' = Cyclic(w)
           /\ Plans' = Plans
           /\ answer' \in [Task -> Answers]
<1> USE DEF callShape
<1>1. answer \in [Task -> Answers] /\ request \subseteq Task
  BY DEF BridgeTypeOK
<1>2. \A w : Members(w)' = Members(w)
  BY DEF Members
<1>3. \A w : Left(w)' = Left(w) \ {t}
  BY <1>1, <1>2 DEF Left, Members
<1>4. \A w : Cyclic(w)' = Cyclic(w)
  BY <1>2 DEF Cyclic
<1>5. Plans' = Plans
  BY DEF Plans
<1> QED
  BY <1>1, <1>2, <1>3, <1>4, <1>5 DEF Answers

\* What the invariants say of a workspace depends on these only.
LEMMA SameLeft ==
    ASSUME UNCHANGED <<callShape, answer>>
    PROVE  /\ \A w : Members(w)' = Members(w) /\ Left(w)' = Left(w)
           /\ \A w : Cyclic(w)' = Cyclic(w)
           /\ Plans' = Plans
BY DEF callShape, Members, Left, Cyclic, Plans

\* A running task, its workspace, and what this has so far.
LEMMA RunningFacts ==
    ASSUME BridgeInv, NEW t \in running
    PROVE  /\ t \in Task /\ t \in request /\ stage = "work"
           /\ home[t] \in Workspace /\ home[t] \in open \ halted /\ home[t] \in taken
           /\ answer[t] = "none" /\ t \in Left(home[t]) /\ t \in Members(home[t])
           /\ tree[home[t]] = Members(home[t]) \ Left(home[t])
           /\ base[home[t]] = Members(home[t]) \ Left(home[t])
<1> USE DEF BridgeInv
<1>1. t \in Task /\ t \in request /\ home[t] \in open \ halted /\ answer[t] = "none"
      /\ home[t] \in taken
  BY DEF BridgeTypeOK, RunningInv
<1>2. stage = "work"
  BY <1>1 DEF StageInv
<1>3. home[t] \in Workspace
  BY <1>1, HomeIsWorkspace
<1>4. t \in Left(home[t]) /\ t \in Members(home[t])
  BY <1>1 DEF Left, Members
<1>5. tree[home[t]] = Members(home[t]) \ Left(home[t])
      /\ base[home[t]] = Members(home[t]) \ Left(home[t])
  BY <1>1, <1>4 DEF SpaceInv
<1> QED
  BY <1>1, <1>2, <1>3, <1>4, <1>5

LEMMA TakeKeepsBridgeInv ==
    ASSUME BridgeInv, NEW w \in Workspace, TakeWorkspace(w)
    PROVE  BridgeInv'
<1> USE DEF BridgeInv
<1>1. /\ stage = "work" /\ w \in Plans \ taken
      /\ taken' = taken \cup {w} /\ open' = open \cup {w}
      /\ UNCHANGED <<callShape, stage, made, running, halted, base, tree, answer, patch>>
  BY DEF TakeWorkspace, Earliest
<1>2. /\ \A v : Members(v)' = Members(v) /\ Left(v)' = Left(v)
      /\ \A v : Cyclic(v)' = Cyclic(v)
      /\ Plans' = Plans
  BY <1>1, SameLeft
<1>3. BridgeTypeOK' /\ StageInv' /\ PatchInv'
  BY <1>1, <1>2 DEF BridgeTypeOK, StageInv, PatchInv, callShape
<1>4. SpaceInv'
  <2>1. Left(w) = Members(w) /\ tree[w] = {} /\ base[w] = {}
    BY <1>1 DEF SpaceInv
  <2> QED
    BY <2>1, <1>1, <1>2 DEF SpaceInv
<1>5. RunningInv'
  BY <1>1, <1>2 DEF RunningInv, callShape
<1> QED
  BY <1>3, <1>4, <1>5

LEMMA CloseKeepsBridgeInv ==
    ASSUME BridgeInv, NEW w \in Workspace, CloseWorkspace(w)
    PROVE  BridgeInv'
<1> USE DEF BridgeInv
<1>1. /\ w \in open /\ Left(w) = {} /\ open' = open \ {w}
      /\ UNCHANGED <<callShape, stage, made, taken, running, halted, base, tree, answer, patch>>
  BY DEF CloseWorkspace
<1>2. /\ \A v : Members(v)' = Members(v) /\ Left(v)' = Left(v)
      /\ \A v : Cyclic(v)' = Cyclic(v)
      /\ Plans' = Plans
  BY <1>1, SameLeft
<1>3. BridgeTypeOK' /\ StageInv' /\ PatchInv'
  BY <1>1, <1>2 DEF BridgeTypeOK, StageInv, PatchInv, callShape
<1>4. SpaceInv'
  BY <1>1, <1>2 DEF SpaceInv
<1>5. RunningInv'
  <2>1. \A t \in running : home[t] # w
    BY <1>1, RunningFacts
  <2> QED
    BY <1>1, <1>2, <2>1 DEF RunningInv, callShape
<1> QED
  BY <1>3, <1>4, <1>5

LEMMA BeginKeepsBridgeInv ==
    ASSUME BridgeInv, NEW t \in Task, BeginTask(t)
    PROVE  BridgeInv'
<1> USE DEF BridgeInv
<1>1. /\ home[t] \in open \ halted /\ Left(home[t]) # {} /\ t = Next1(home[t])
      /\ \A u \in running : home[u] # home[t]
      /\ running' = running \cup {t}
      /\ UNCHANGED <<callShape, stage, made, taken, open, halted, base, tree, answer, patch>>
  BY DEF BeginTask, Idle
<1>2. /\ \A v : Members(v)' = Members(v) /\ Left(v)' = Left(v)
      /\ \A v : Cyclic(v)' = Cyclic(v)
      /\ Plans' = Plans
  BY <1>1, SameLeft
<1>3. t \in Eligible(home[t]) /\ t \in Left(home[t])
  BY <1>1, NextIsEligible
<1>4. t \in request /\ answer[t] = "none"
  BY <1>3 DEF Left, Members
<1>5. BridgeTypeOK' /\ PatchInv'
  BY <1>1, <1>4 DEF BridgeTypeOK, PatchInv, callShape
<1>6. StageInv' /\ SpaceInv'
  BY <1>1, <1>2 DEF StageInv, SpaceInv
<1>7. RunningInv'
  <2>1. Cyclic(home[t]) \/ Needs[t] \cap Left(home[t]) = {}
    BY <1>3 DEF Eligible
  <2> QED
    BY <1>1, <1>2, <1>4, <2>1 DEF RunningInv, callShape
<1> QED
  BY <1>5, <1>6, <1>7

LEMMA SkipKeepsBridgeInv ==
    ASSUME BridgeInv, NEW t \in Task, SkipTask(t)
    PROVE  BridgeInv'
<1> USE DEF BridgeInv
<1>1. /\ home[t] \in open /\ home[t] \in halted /\ Left(home[t]) # {} /\ t = Next1(home[t])
      /\ \A u \in running : home[u] # home[t]
      /\ answer' = [answer EXCEPT ![t] = "fail"]
      /\ UNCHANGED <<callShape, stage, made, taken, open, running, halted, base, tree, patch>>
  BY DEF SkipTask, Idle
<1>2. /\ \A v : Members(v)' = Members(v) /\ Left(v)' = Left(v) \ {t}
      /\ \A v : Cyclic(v)' = Cyclic(v)
      /\ Plans' = Plans /\ answer' \in [Task -> Answers]
  BY <1>1, AnswerLeft
<1>3. answer[t] = "none" /\ t \in Members(home[t]) /\ home[t] \in taken /\ stage = "work"
      /\ t \notin running
  BY <1>1, NextIsEligible DEF Left, StageInv, BridgeTypeOK
<1>4. /\ \A u \in Task \ {t} : answer'[u] = answer[u]
      /\ answer'[t] = "fail"
  BY <1>1 DEF BridgeTypeOK
<1>5. BridgeTypeOK' /\ StageInv' /\ PatchInv'
  BY <1>1, <1>2, <1>3, <1>4 DEF BridgeTypeOK, StageInv, PatchInv, callShape
<1>6. SpaceInv'
  <2>1. \A w : w # home[t] => Left(w)' = Left(w)
    BY <1>2 DEF Left, Members
  <2>2. \A w \in Workspace : base[w] \subseteq Task /\ t \notin base[w]
    BY <1>3 DEF SpaceInv, BridgeTypeOK
  <2> QED
    BY <1>1, <1>2, <1>3, <1>4, <2>1, <2>2 DEF SpaceInv
<1>7. RunningInv'
  <2>1. running \subseteq Task
    BY DEF BridgeTypeOK
  <2> QED
    BY <1>1, <1>2, <1>3, <1>4, <2>1 DEF RunningInv, callShape
<1> QED
  BY <1>5, <1>6, <1>7

LEMMA FinishKeepsBridgeInv ==
    ASSUME BridgeInv, NEW t \in Task, FinishTask(t)
    PROVE  BridgeInv'
<1> USE DEF BridgeInv
<1> DEFINE w == home[t]
           now == tree[w] \cup {t}
<1>1. /\ t \in running /\ running' = running \ {t}
      /\ answer' = [answer EXCEPT ![t] = "ok"]
      /\ UNCHANGED <<callShape, stage, made, taken, halted>>
  BY DEF FinishTask
<1>2. /\ t \in request /\ stage = "work" /\ w \in Workspace /\ w \in open \ halted
      /\ w \in taken /\ answer[t] = "none" /\ t \in Left(w) /\ t \in Members(w)
      /\ tree[w] = Members(w) \ Left(w) /\ base[w] = Members(w) \ Left(w)
  BY <1>1, RunningFacts
<1>3. /\ \A v : Members(v)' = Members(v) /\ Left(v)' = Left(v) \ {t}
      /\ \A v : Cyclic(v)' = Cyclic(v)
      /\ Plans' = Plans /\ answer' \in [Task -> Answers]
  BY <1>1, AnswerLeft
<1>4. /\ \A u \in Task \ {t} : answer'[u] = answer[u]
      /\ answer'[t] = "ok"
  BY <1>1 DEF BridgeTypeOK
<1>5. /\ tree' = [tree EXCEPT ![w] = now] /\ tree'[w] = now
      /\ \A v \in Workspace \ {w} : tree'[v] = tree[v]
  BY <1>2 DEF FinishTask, BridgeTypeOK
<1>6. patch' = [patch EXCEPT ![t] = [kept |-> TRUE, holds |-> now \ base[w]]]
  BY <1>5 DEF FinishTask, Captured
<1>7. /\ open' = open \/ open' = open \ {w}
      /\ base' = base \/ (base' = [base EXCEPT ![w] = now])
      /\ w \in Staging => base'[w] = now \/ open' = open \ {w}
  BY <1>2, <1>5 DEF FinishTask, Checkpoint, BridgeTypeOK
<1>8. now \subseteq Task /\ Members(w) \subseteq Task
  BY <1>2, HomeIsWorkspace
<1>9. BridgeTypeOK'
  <2>1. tree' \in [Workspace -> SUBSET Task] /\ base' \in [Workspace -> SUBSET Task]
    BY <1>5, <1>7, <1>8 DEF BridgeTypeOK
  <2>2. patch' \in [Task -> [kept : BOOLEAN, holds : SUBSET Task]]
    BY <1>6, <1>8 DEF BridgeTypeOK
  <2> QED
    BY <1>1, <1>3, <1>7, <2>1, <2>2 DEF BridgeTypeOK, callShape
<1>10. StageInv'
  BY <1>1, <1>2, <1>3, <1>7 DEF StageInv
<1>11. PatchInv'
  <2>1. now \ base[w] = {t}
    BY <1>2
  <2>2. patch'[t].kept /\ patch'[t].holds = {t}
    BY <1>6, <2>1 DEF BridgeTypeOK
  <2>3. \A u \in Task \ {t} : patch'[u] = patch[u]
    BY <1>6 DEF BridgeTypeOK
  <2> QED
    BY <2>2, <2>3, <1>4 DEF PatchInv
<1>12. SpaceInv'
  <2>1. \A v \in Workspace \ {w} : base'[v] = base[v]
    BY <1>7 DEF BridgeTypeOK
  <2>2. \A v : v # w => Left(v)' = Left(v)
    BY <1>3 DEF Left, Members
  <2>3. \A v \in Workspace \ taken' : tree'[v] = {} /\ base'[v] = {}
                                     /\ Left(v)' = Members(v)'
    BY <1>1, <1>2, <1>3, <1>5, <2>1, <2>2 DEF SpaceInv
  <2>4. ASSUME NEW v \in open' \ halted', Left(v)' # {}
        PROVE  tree'[v] = Members(v)' \ Left(v)' /\ base'[v] = Members(v)' \ Left(v)'
    <3>0. v \in Workspace /\ v \in open \ halted
      BY <2>4, <1>1, <1>7 DEF BridgeTypeOK
    <3>1. CASE v # w
      BY <3>0, <3>1, <2>1, <2>2, <2>4, <1>3, <1>5 DEF SpaceInv
    <3>2. CASE v = w
      <4>1. w \in Staging
        BY <3>2, <2>4, <1>2, <1>3, HomeIsWorkspace DEF Left, Members
      <4>2. base'[w] = now
        BY <4>1, <3>2, <1>7
      <4>3. Members(v)' = Members(w) /\ Left(v)' = Left(w) \ {t}
        BY <3>2, <1>3
      <4>4. now = Members(v)' \ Left(v)'
        BY <4>3, <1>2
      <4> QED
        BY <3>2, <4>2, <4>4, <1>5
    <3> QED
      BY <3>1, <3>2
  <2>5. ASSUME NEW v \in Workspace, NEW u \in base'[v] PROVE answer'[u] = "ok"
    <3>1. base[v] \subseteq Task /\ \A x \in base[v] : answer[x] = "ok" /\ x # t
      BY <1>2 DEF SpaceInv, BridgeTypeOK
    <3>2. base'[v] = base[v] \/ (v = w /\ base'[v] = base[v] \cup {t})
      BY <1>2, <1>7, <2>1 DEF BridgeTypeOK
    <3> QED
      BY <3>1, <3>2, <1>4
  <2> QED
    BY <2>3, <2>4, <2>5 DEF SpaceInv
<1>13. RunningInv'
  <2>1. \A u \in running \ {t} : home[u] # w /\ u \in Task
    BY <1>1 DEF RunningInv, BridgeTypeOK
  <2> QED
    BY <1>1, <1>3, <1>4, <1>7, <2>1 DEF RunningInv, callShape
<1> QED
  BY <1>9, <1>10, <1>11, <1>12, <1>13

LEMMA FailKeepsBridgeInv ==
    ASSUME BridgeInv, NEW t \in Task, FailTask(t)
    PROVE  BridgeInv'
<1> USE DEF BridgeInv
<1> DEFINE w == home[t]
<1>1. /\ t \in running /\ running' = running \ {t} /\ halted' = halted \cup {w}
      /\ UNCHANGED <<callShape, stage, made, taken, open, base>>
  BY DEF FailTask
<1>2. /\ t \in request /\ stage = "work" /\ w \in Workspace /\ w \in open \ halted
      /\ w \in taken /\ answer[t] = "none" /\ t \in Left(w) /\ t \in Members(w)
      /\ tree[w] \subseteq Task
  BY <1>1, RunningFacts DEF BridgeTypeOK
<1>3. PICK a \in {"fail", "limit"} : answer' = [answer EXCEPT ![t] = a]
  BY DEF FailTask
<1>4. /\ \A v : Members(v)' = Members(v) /\ Left(v)' = Left(v) \ {t}
      /\ \A v : Cyclic(v)' = Cyclic(v)
      /\ Plans' = Plans /\ answer' \in [Task -> Answers]
  BY <1>1, <1>3, AnswerLeft
<1>5. /\ \A u \in Task \ {t} : answer'[u] = answer[u]
      /\ answer'[t] # "ok" /\ answer'[t] # "none"
  BY <1>3 DEF BridgeTypeOK
<1>6. PICK part \in SUBSET {t} :
          /\ tree' = [tree EXCEPT ![w] = @ \cup part]
          /\ \/ patch' = [patch EXCEPT ![t] = Captured(w, tree'[w])]
             \/ UNCHANGED patch
  BY DEF FailTask
<1>7. tree' \in [Workspace -> SUBSET Task] /\ \A v \in Workspace \ {w} : tree'[v] = tree[v]
  BY <1>2, <1>6 DEF BridgeTypeOK
<1>8. patch' \in [Task -> [kept : BOOLEAN, holds : SUBSET Task]]
      /\ \A u \in Task \ {t} : patch'[u] = patch[u]
  <2>1. Captured(w, tree'[w]) \in [kept : BOOLEAN, holds : SUBSET Task]
    BY <1>2, <1>7 DEF Captured
  <2>2. patch \in [Task -> [kept : BOOLEAN, holds : SUBSET Task]]
    BY DEF BridgeTypeOK
  <2>3. CASE patch' = [patch EXCEPT ![t] = Captured(w, tree'[w])]
    BY <2>1, <2>2, <2>3
  <2> QED
    BY <1>6, <2>2, <2>3
<1>9. BridgeTypeOK'
  BY <1>1, <1>2, <1>4, <1>7, <1>8 DEF BridgeTypeOK, callShape
<1>10. StageInv'
  BY <1>1, <1>2, <1>4 DEF StageInv
<1>11. PatchInv'
  BY <1>5, <1>8 DEF PatchInv
<1>12. SpaceInv'
  <2>1. \A v : v # w => Left(v)' = Left(v)
    BY <1>4 DEF Left, Members
  <2>2. \A v \in Workspace : base[v] \subseteq Task /\ t \notin base[v]
    BY <1>2 DEF SpaceInv, BridgeTypeOK
  <2>3. open \subseteq Workspace
    BY DEF BridgeTypeOK
  <2> QED
    BY <1>1, <1>2, <1>4, <1>5, <1>7, <2>1, <2>2, <2>3 DEF SpaceInv
<1>13. RunningInv'
  <2>1. \A u \in running \ {t} : home[u] # w /\ u \in Task
    BY <1>1 DEF RunningInv, BridgeTypeOK
  <2> QED
    BY <1>1, <1>4, <1>5, <2>1 DEF RunningInv, callShape
<1> QED
  BY <1>9, <1>10, <1>11, <1>12, <1>13

LEMMA SettleKeepsBridgeInv ==
    ASSUME BridgeInv, Settle
    PROVE  BridgeInv'
<1> USE DEF BridgeInv
<1>1. /\ stage = "work" /\ stage' = "settled" /\ open = {} /\ taken = Plans
      /\ answer' = [t \in Task |-> IF t \in request /\ answer[t] = "none" THEN "fail"
                                   ELSE answer[t]]
      /\ UNCHANGED <<callShape, made, taken, open, running, halted, base, tree, patch>>
  BY DEF Settle
<1>2. running = {}
  BY <1>1 DEF RunningInv
<1>3. answer' \in [Task -> Answers]
  BY <1>1 DEF BridgeTypeOK, Answers
<1>4. BridgeTypeOK' /\ StageInv' /\ RunningInv'
  BY <1>1, <1>2, <1>3 DEF BridgeTypeOK, StageInv, RunningInv, callShape, Plans
<1>5. \A t \in Task : answer'[t] # answer[t] => answer[t] = "none" /\ answer'[t] = "fail"
  BY <1>1 DEF BridgeTypeOK
<1>6. PatchInv'
  BY <1>1, <1>5 DEF PatchInv
<1>7. SpaceInv'
  <2>1. \A w \in Workspace : base[w] \subseteq Task
    BY DEF BridgeTypeOK
  <2> QED
    BY <1>1, <1>5, <2>1 DEF SpaceInv
<1> QED
  BY <1>4, <1>6, <1>7

LEMMA ReturnKeepsBridgeInv ==
    ASSUME BridgeInv, Return
    PROVE  BridgeInv'
<1>1. Fresh' /\ service' = service /\ home' = home /\ baseRef' = baseRef
      /\ stage' = "idle" /\ request' = {} /\ limit' = 0
  BY DEF Return, Fresh, Empty
<1>2. service \in Services /\ home \in Homes /\ baseRef \in [Task -> Ref \cup {NoRef}]
  BY DEF BridgeInv, BridgeTypeOK
<1>3. BridgeTypeOK'
  <2>1. base' \in [Workspace -> SUBSET Task] /\ tree' \in [Workspace -> SUBSET Task]
    BY <1>1 DEF Fresh, Empty
  <2>2. answer' \in [Task -> Answers]
        /\ patch' \in [Task -> [kept : BOOLEAN, holds : SUBSET Task]]
    BY <1>1 DEF Fresh, Answers, NoPatch
  <2> QED
    BY <1>1, <1>2, <2>1, <2>2 DEF Fresh, BridgeTypeOK
<1>4. StageInv' /\ RunningInv' /\ PatchInv'
  BY <1>1 DEF Fresh, StageInv, RunningInv, PatchInv, Plans, NoPatch
<1>5. SpaceInv'
  BY <1>1 DEF Fresh, SpaceInv, Empty
<1> QED
  BY <1>3, <1>4, <1>5 DEF BridgeInv

LEMMA ServeKeepsBridgeInv == BridgeInv /\ Serve => BridgeInv'
BY SetupKeepsBridgeInv, TakeKeepsBridgeInv, CloseKeepsBridgeInv, SkipKeepsBridgeInv,
   FinishKeepsBridgeInv, FailKeepsBridgeInv, SettleKeepsBridgeInv DEF Serve
-----------------------------------------------------------------------------
(* The loop over the service                                               *)

\* The loop and the service agree on the tasks of the call, and the pool on how
\* many workspaces may be open.
LoopInv ==
    /\ request = call
    /\ stage = "idle" => request = {}
    /\ stage # "idle" => (serialize => limit = 1)

PoolInv == stage = "work" => Cardinality(open) <= PoolSize

PipelineInv == RetryInv /\ BridgeInv /\ LoopInv /\ PoolInv

LEMMA PlansAreFinite ==
    ASSUME BridgeTypeOK
    PROVE  IsFiniteSet(Plans) /\ Cardinality(Plans) \in Nat /\ IsFiniteSet(request)
<1>1. IsFiniteSet(request)
  BY TaskAssumption, FS_Subset DEF BridgeTypeOK
<1> DEFINE f == [t \in request |-> home[t]]
<1>2. f \in Surjection(request, Plans)
  <2>1. f \in [request -> Plans]
    BY DEF Plans
  <2>2. \A w \in Plans : \E t \in request : f[t] = w
    BY DEF Plans
  <2> QED
    BY <2>1, <2>2, Fun_IsSurj
<1>3. IsFiniteSet(Plans)
  BY <1>1, <1>2, FS_Surjection
<1> QED
  BY <1>1, <1>3, FS_CardinalityType

\* The pool is no larger than the limit of the call, and has room for one.
LEMMA PoolSizeBound ==
    ASSUME BridgeTypeOK
    PROVE  PoolSize \in Nat /\ PoolSize <= (IF limit < 1 THEN 1 ELSE limit)
BY PlansAreFinite DEF PoolSize, BridgeTypeOK

LEMMA SamePool ==
    ASSUME UNCHANGED callShape
    PROVE  PoolSize' = PoolSize
BY DEF callShape, PoolSize, Plans

LEMMA OpenIsFinite ==
    ASSUME BridgeInv
    PROVE  IsFiniteSet(open) /\ Cardinality(open) \in Nat
<1>1. open \in SUBSET Plans
  BY DEF BridgeInv, BridgeTypeOK, StageInv
<1> QED
  BY <1>1, PlansAreFinite, FS_Subset, FS_CardinalityType DEF BridgeInv

\* Each running task has an open workspace of its own.
LEMMA RunningFitsPool ==
    ASSUME BridgeInv
    PROVE  /\ Cardinality(running) \in Nat
           /\ Cardinality(running) <= Cardinality(open)
<1> DEFINE f == [t \in running |-> home[t]]
<1>1. f \in Injection(running, open)
  <2>1. f \in [running -> open]
    BY DEF BridgeInv, RunningInv
  <2>2. \A t, u \in running : f[t] = f[u] => t = u
    BY DEF BridgeInv, RunningInv
  <2> QED
    BY <2>1, <2>2, Fun_IsInj
<1>2. IsFiniteSet(running) /\ Cardinality(running) <= Cardinality(open)
  BY <1>1, OpenIsFinite, FS_Injection
<1> QED
  BY <1>2, FS_CardinalityType

LEMMA PipelineInitInv == PipelineInit => PipelineInv
<1> SUFFICES ASSUME PipelineInit PROVE PipelineInv
  OBVIOUS
<1>1. RetryInv
  BY RetryInitInv DEF PipelineInit
<1>2. BridgeInv
  BY FreshIsBridgeInv DEF PipelineInit, BridgeInit
<1>3. LoopInv /\ PoolInv
  BY DEF PipelineInit, RetryInit, BridgeInit, LoopInv, PoolInv
<1> QED
  BY <1>1, <1>2, <1>3 DEF PipelineInv

LEMMA CallKeepsPipelineInv == PipelineInv /\ Call => PipelineInv'
<1> SUFFICES ASSUME PipelineInv, Call PROVE PipelineInv'
  OBVIOUS
<1> DEFINE n == IF serialize THEN 1 ELSE Concurrency
<1>1. PICK b \in Batch : DispatchBatch(b)
  BY DEF Call
<1>2. call' = b /\ b \subseteq Task /\ serialize' = serialize
  BY <1>1 DEF DispatchBatch, Batch, PipelineInv, RetryInv, RetryTypeOK
<1>3. n \in Nat /\ Accept(b, n)
  BY <1>2, PipelineAssumption DEF Call
<1>4. RetryInv'
  BY <1>1, DispatchKeepsRetryInv DEF PipelineInv
<1>5. BridgeInv'
  BY <1>2, <1>3, AcceptKeepsBridgeInv DEF PipelineInv
<1>6. LoopInv' /\ PoolInv'
  BY <1>2, <1>3 DEF Accept, LoopInv, PoolInv
<1> QED
  BY <1>4, <1>5, <1>6 DEF PipelineInv

LEMMA WorkingKeepsPipelineInv == PipelineInv /\ Working => PipelineInv'
<1> SUFFICES ASSUME PipelineInv, Working PROVE PipelineInv'
  OBVIOUS
<1>1. Serve /\ UNCHANGED retryVars
  BY DEF Working
<1>2. RetryInv'
  BY <1>1 DEF PipelineInv, RetryInv, retryVars, RetryTypeOK, EntriesInv, WaitingEntry,
              CalledEntry, PlaceInv
<1>3. BridgeInv'
  BY <1>1, ServeKeepsBridgeInv DEF PipelineInv
<1>4. UNCHANGED callShape /\ stage # "idle" /\ stage' # "idle"
  <2>1. stage # "idle"
    <3>1. stage = "idle" => open = {} /\ running = {}
      BY DEF PipelineInv, BridgeInv, StageInv, RunningInv
    <3> QED
      BY <1>1, <3>1 DEF Serve, Refuse, ForkAnswers, PlanWorkspaces, StartPool, Settle,
         SetUpWorktree, TakeWorkspace, CloseWorkspace, SkipTask, Idle, FinishTask, FailTask
  <2>2. UNCHANGED callShape
    BY <1>1 DEF Serve, Refuse, ForkAnswers, PlanWorkspaces, StartPool,
       Settle, SetUpWorktree, TakeWorkspace, CloseWorkspace, SkipTask, FinishTask, FailTask
  <2>3. stage' # "idle"
    BY <1>1, <2>1 DEF Serve, Refuse, ForkAnswers, PlanWorkspaces, StartPool,
       Settle, SetUpWorktree, TakeWorkspace, CloseWorkspace, SkipTask, FinishTask,
       FailTask, AllFail
  <2> QED
    BY <2>1, <2>2, <2>3
<1>5. LoopInv'
  BY <1>1, <1>4 DEF PipelineInv, LoopInv, callShape, retryVars
<1>6. PoolInv'
  <2>1. PoolSize' = PoolSize /\ PoolSize \in Nat
    BY <1>4, SamePool, PoolSizeBound DEF PipelineInv, BridgeInv
  <2>2. IsFiniteSet(open) /\ Cardinality(open) \in Nat
    BY OpenIsFinite DEF PipelineInv
  <2>3. CASE \E w \in Workspace : TakeWorkspace(w)
    <3>1. PICK w \in Workspace : TakeWorkspace(w)
      BY <2>3
    <3>2. open' = open \cup {w} /\ Cardinality(open) < PoolSize
      BY <3>1 DEF TakeWorkspace
    <3>3. Cardinality(open') <= Cardinality(open) + 1 /\ Cardinality(open') \in Nat
      <4>1. IsFiniteSet(open \cup {w})
            /\ Cardinality(open \cup {w}) \in {Cardinality(open), Cardinality(open) + 1}
        BY <2>2, FS_AddElement
      <4> QED
        BY <3>2, <4>1, <2>2
    <3> QED
      BY <2>1, <2>2, <3>2, <3>3 DEF PoolInv
  <2>4. CASE StartPool
    <3>1. Cardinality(open') = 0
      BY <2>4, FS_EmptySet DEF StartPool, workVars, PipelineInv, BridgeInv, StageInv
    <3> QED
      BY <2>1, <3>1 DEF PoolInv
  <2>5. CASE ~StartPool /\ ~\E w \in Workspace : TakeWorkspace(w)
    <3>1. stage' = "work" => stage = "work" /\ open' \in SUBSET open
      BY <1>1, <2>5 DEF Serve, Refuse, ForkAnswers, PlanWorkspaces, Settle, SetUpWorktree,
         CloseWorkspace, SkipTask, FinishTask, FailTask, Checkpoint, AllFail
    <3>2. open' \in SUBSET open => Cardinality(open') <= Cardinality(open)
                                   /\ Cardinality(open') \in Nat
      BY <2>2, FS_Subset, FS_CardinalityType
    <3> QED
      BY <2>1, <2>2, <3>1, <3>2 DEF PoolInv, PipelineInv
  <2> QED
    BY <2>3, <2>4, <2>5
<1> QED
  BY <1>2, <1>3, <1>5, <1>6 DEF PipelineInv

LEMMA AnsweredKeepsPipelineInv == PipelineInv /\ Answered => PipelineInv'
<1> SUFFICES ASSUME PipelineInv, Answered PROVE PipelineInv'
  OBVIOUS
<1>1. ProcessResults(answer) /\ Return
  BY DEF Answered
<1>2. RetryInv'
  BY <1>1, ResultsKeepRetryInv DEF PipelineInv
<1>3. BridgeInv'
  BY <1>1, ReturnKeepsBridgeInv DEF PipelineInv
<1>4. LoopInv' /\ PoolInv'
  BY <1>1 DEF ProcessResults, Return, LoopInv, PoolInv
<1> QED
  BY <1>2, <1>3, <1>4 DEF PipelineInv

LEMMA ReportsKeepPipelineInv ==
    ASSUME PipelineInv, NEW t \in Task, NEW n,
           Begin(t) \/ WorkerReports(t) \/ LateReport(t, n)
    PROVE  PipelineInv'
<1>1. \E m : Report(t, m)
  BY DEF Begin, WorkerReports, LateReport
<1>2. RetryInv'
  BY <1>1, ReportKeepsRetryInv DEF PipelineInv
<1>3. CASE BeginTask(t)
  <2>1. BridgeInv'
    BY <1>3, BeginKeepsBridgeInv DEF PipelineInv
  <2>2. UNCHANGED <<callShape, stage, open, call, serialize>>
    BY <1>1, <1>3 DEF BeginTask, Report
  <2>3. LoopInv' /\ PoolInv'
    BY <2>2, SamePool DEF PipelineInv, LoopInv, PoolInv, callShape
  <2> QED
    BY <1>2, <2>1, <2>3 DEF PipelineInv
<1>4. CASE UNCHANGED bridgeVars
  <2>1. UNCHANGED <<callShape, stage, open, call, serialize, answer>>
    BY <1>1, <1>4 DEF bridgeVars, workVars, Report
  <2>2. /\ \A w : Members(w)' = Members(w) /\ Left(w)' = Left(w)
        /\ \A w : Cyclic(w)' = Cyclic(w)
        /\ Plans' = Plans
    BY <2>1, SameLeft
  <2>3. BridgeInv'
    BY <1>4, <2>2 DEF bridgeVars, callShape, workVars, PipelineInv, BridgeInv,
       BridgeTypeOK, StageInv, SpaceInv, RunningInv, PatchInv
  <2>4. LoopInv' /\ PoolInv'
    BY <2>1, SamePool DEF PipelineInv, LoopInv, PoolInv, callShape
  <2> QED
    BY <1>2, <2>3, <2>4 DEF PipelineInv
<1> QED
  BY <1>3, <1>4 DEF Begin, WorkerReports, LateReport

LEMMA PipelineInvAlways == PipelineSpec => []PipelineInv
<1>1. PipelineInv /\ [PipelineNext]_pipelineVars => PipelineInv'
  <2> SUFFICES ASSUME PipelineInv, [PipelineNext]_pipelineVars PROVE PipelineInv'
    OBVIOUS
  <2>1. CASE UNCHANGED pipelineVars
    <3>1. UNCHANGED <<retryVars, bridgeVars>> /\ UNCHANGED callShape /\ UNCHANGED answer
      BY <2>1 DEF pipelineVars, bridgeVars, workVars
    <3>2. /\ \A w : Members(w)' = Members(w) /\ Left(w)' = Left(w)
          /\ \A w : Cyclic(w)' = Cyclic(w)
          /\ Plans' = Plans /\ PoolSize' = PoolSize
      BY <3>1, SameLeft, SamePool
    <3>3. RetryInv'
      BY <3>1 DEF PipelineInv, RetryInv, retryVars, RetryTypeOK, EntriesInv, WaitingEntry,
                  CalledEntry, PlaceInv
    <3>4. BridgeInv'
      BY <3>1, <3>2 DEF bridgeVars, callShape, workVars, PipelineInv, BridgeInv,
         BridgeTypeOK, StageInv, SpaceInv, RunningInv, PatchInv
    <3>5. LoopInv' /\ PoolInv'
      BY <3>1, <3>2 DEF PipelineInv, LoopInv, PoolInv, callShape, bridgeVars, retryVars,
         workVars
    <3> QED
      BY <3>3, <3>4, <3>5 DEF PipelineInv
  <2> QED
    BY <2>1, CallKeepsPipelineInv, WorkingKeepsPipelineInv, AnsweredKeepsPipelineInv,
       ReportsKeepPipelineInv DEF PipelineNext
<1> QED
  BY <1>1, PipelineInitInv, PTL DEF PipelineSpec

\* The budget also holds of the loop over the dispatch service it is used with, which
\* reports at the begin of every attempt (runParallelCompatWorktree).
THEOREM PipelineKeepsBudget == PipelineSpec => []RetryBudget
<1>1. PipelineInv => RetryBudget
  BY RetryInvBudget DEF PipelineInv
<1> QED
  BY <1>1, PipelineInvAlways, PTL

\* The entries of the loop and the workspaces, answers and worktrees of the service stay
\* within their types, whichever tasks are called again (dispatchWithRateLimitRetry over
\* runParallel).
THEOREM PipelineTypeCorrect == PipelineSpec => [](RetryTypeOK /\ BridgeTypeOK)
<1>1. PipelineInv => RetryTypeOK /\ BridgeTypeOK
  BY DEF PipelineInv, RetryInv, BridgeInv
<1> QED
  BY <1>1, PipelineInvAlways, PTL

\* Whichever tasks share a workspace, fail in it or are committed to it, the patch of
\* a task that succeeded is its own work, and what the next one starts from is the
\* work of tasks that succeeded (captureCompatPatchAgainstBase, checkpointSharedWorkspace).
THEOREM PatchesHoldOwnWork == PipelineSpec => []PatchesAreOwnWork
<1>1. PipelineInv => PatchesAreOwnWork
  BY DEF PipelineInv, BridgeInv, PatchInv, SpaceInv, PatchesAreOwnWork
<1> QED
  BY <1>1, PipelineInvAlways, PTL

\* The service runs the loop's tasks only, within the limit the loop asks for and one
\* at a time in each workspace, behind the tasks they depend on there (runParallel and
\* the pool of runParallelCompatWorktree).
THEOREM WorkersAreApart == PipelineSpec => []WorkersKeepApart
<1>1. PipelineInv => WorkersKeepApart
  <2> SUFFICES ASSUME PipelineInv PROVE WorkersKeepApart
    OBVIOUS
  <2> USE DEF PipelineInv
  <2>1. Cardinality(running) \in Nat /\ Cardinality(running) <= Cardinality(open)
        /\ Cardinality(open) \in Nat
    BY RunningFitsPool, OpenIsFinite
  <2>2. PoolSize \in Nat /\ PoolSize <= (IF limit < 1 THEN 1 ELSE limit) /\ limit \in Nat
    BY PoolSizeBound DEF BridgeInv, BridgeTypeOK
  <2>3. running # {} => Cardinality(running) <= IF limit < 1 THEN 1 ELSE limit
    <3>1. running # {} => stage = "work"
      BY DEF BridgeInv, RunningInv, StageInv
    <3> QED
      BY <2>1, <2>2, <3>1 DEF PoolInv
  <2>4. serialize => Cardinality(running) <= 1
    <3>1. CASE running = {}
      BY <3>1, FS_EmptySet
    <3>2. CASE running # {}
      <4>1. stage # "idle"
        BY <3>2 DEF BridgeInv, RunningInv, StageInv
      <4> QED
        BY <2>3, <3>2, <4>1 DEF LoopInv
    <3> QED
      BY <3>1, <3>2
  <2>5. ASSUME NEW t \in running
        PROVE  /\ tree[home[t]] = base[home[t]]
               /\ \A u \in tree[home[t]] : answer[u] = "ok"
               /\ ~Cyclic(home[t]) =>
                     Needs[t] \cap Members(home[t]) \subseteq tree[home[t]]
    <3>1. /\ home[t] \in Workspace
          /\ tree[home[t]] = Members(home[t]) \ Left(home[t])
          /\ base[home[t]] = Members(home[t]) \ Left(home[t])
      BY RunningFacts
    <3>2. \A u \in base[home[t]] : answer[u] = "ok"
      BY <3>1 DEF BridgeInv, SpaceInv
    <3>3. Cyclic(home[t]) \/ Needs[t] \cap Left(home[t]) = {}
      BY DEF BridgeInv, RunningInv
    <3> QED
      BY <3>1, <3>2, <3>3
  <2>6. request = call /\ \A t, u \in running : home[t] = home[u] => t = u
    BY DEF LoopInv, BridgeInv, RunningInv
  <2> QED
    BY <2>3, <2>4, <2>5, <2>6 DEF WorkersKeepApart
<1> QED
  BY <1>1, PipelineInvAlways, PTL
\* Over this service, which answers every task of a call, the loop takes no step that
\* it could not take over some other (dispatchParallelWithRateLimitRetries is written
\* against the interface of the dispatch service alone).
THEOREM PipelineImplementsRetry == PipelineSpec => RetrySpec
<1>1. PipelineInit => RetryInit
  BY DEF PipelineInit
<1>2. PipelineInv /\ [PipelineNext]_pipelineVars => [RetryNext]_retryVars
  <2> SUFFICES ASSUME PipelineInv, [PipelineNext]_pipelineVars
               PROVE  [RetryNext]_retryVars
    OBVIOUS
  <2>1. CASE Call
    BY <2>1 DEF Call, RetryNext, Batch, PipelineInv, RetryInv, RetryTypeOK
  <2>2. CASE Working
    BY <2>2 DEF Working
  <2>3. CASE Answered
    <3> DEFINE r == [t \in Task |-> IF t \in call THEN answer[t] ELSE "ok"]
    <3>1. stage = "settled" /\ ProcessResults(answer)
      BY <2>3 DEF Answered
    <3>2. \A t \in call : answer[t] \in {"ok", "fail", "limit"}
      BY <3>1 DEF PipelineInv, BridgeInv, BridgeTypeOK, StageInv, LoopInv, Answers
    <3>3. r \in [Task -> {"ok", "fail", "limit"}]
      BY <3>2
    <3>4. call \subseteq Task /\ \A t \in call : r[t] = answer[t]
      BY DEF PipelineInv, RetryInv, RetryTypeOK
    <3> HIDE DEF r
    <3>5. Limited(r) = Limited(answer) /\ Again(r) = Again(answer)
      BY <3>4 DEF Limited, Again
    <3>6. [t \in Task |-> IF t \notin call \/ t \in Again(r) THEN final[t]
                          ELSE IF t \in Limited(r) THEN "exhausted"
                          ELSE IF r[t] = "ok" THEN "ok" ELSE "failed"]
          = [t \in Task |-> IF t \notin call \/ t \in Again(answer) THEN final[t]
                            ELSE IF t \in Limited(answer) THEN "exhausted"
                            ELSE IF answer[t] = "ok" THEN "ok" ELSE "failed"]
      BY <3>4, <3>5
    <3>7. ProcessResults(r)
      BY <3>1, <3>5, <3>6 DEF ProcessResults
    <3> QED
      BY <3>3, <3>7 DEF RetryNext
  <2>4. ASSUME NEW t \in Task, Begin(t) \/ WorkerReports(t) PROVE [RetryNext]_retryVars
    <3>1. Report(t, attempt[t])
      BY <2>4 DEF Begin, WorkerReports
    <3>2. attempt[t] \in 1..MaxAttempts
      BY <3>1, RateLimitAssumption DEF Report, PipelineInv, RetryInv, RetryTypeOK
    <3> QED
      BY <3>1, <3>2 DEF RetryNext
  <2>5. ASSUME NEW t \in Task, NEW n \in 1..MaxAttempts, LateReport(t, n)
        PROVE  [RetryNext]_retryVars
    BY <2>5 DEF LateReport, RetryNext
  <2>6. CASE UNCHANGED pipelineVars
    BY <2>6 DEF pipelineVars
  <2> QED
    BY <2>1, <2>2, <2>3, <2>4, <2>5, <2>6 DEF PipelineNext
<1> QED
  BY <1>1, <1>2, PipelineInvAlways, PTL DEF PipelineSpec, RetrySpec
-----------------------------------------------------------------------------
(* Ownership and coalescing                                                *)

\* The groups the walk from g comes by, g itself among them if it is in a cycle.
Reaches(g, k) == \A S \in SUBSET Group : deps[g] \subseteq S /\ Closed(S) => k \in S

LEMMA ReachesDeps ==
    ASSUME NEW g, NEW k, k \in deps[g]
    PROVE  Reaches(g, k)
BY DEF Reaches

LEMMA ReachesOn ==
    ASSUME NEW g, NEW k \in Group, NEW j, Reaches(g, k), j \in deps[k]
    PROVE  Reaches(g, j)
BY DEF Reaches, Closed

LEMMA ReachesFrom ==
    ASSUME NEW g, NEW k \in deps[g], k \in Group, NEW h, k = h \/ Reaches(k, h)
    PROVE  Reaches(g, h)
<1> SUFFICES ASSUME NEW S \in SUBSET Group, deps[g] \subseteq S, Closed(S)
             PROVE  h \in S
  BY DEF Reaches
<1>1. k \in S /\ deps[k] \subseteq S
  BY DEF Closed
<1> QED
  BY <1>1 DEF Reaches

LEMMA DependsIsReaches ==
    ASSUME NEW g, NEW h
    PROVE  DependsOn(g, h) <=> g # h /\ Reaches(g, h)
BY DEF DependsOn, Reaches

LEMMA JoinedIsSymmetric ==
    ASSUME NEW g, NEW h, Joined(g, h)
    PROVE  Joined(h, g)
BY DEF Joined, Overlap

\* The components are the classes of an equivalence.
LEMMA InOwnComponent == \A g \in Group : g \in Component(g) /\ Component(g) \subseteq Group
BY DEF Component

LEMMA ComponentIsClass ==
    ASSUME NEW g \in Group, NEW h \in Component(g)
    PROVE  Component(h) = Component(g)
<1>1. h \in Group
  BY DEF Component
<1>2. ASSUME NEW x \in Component(h) PROVE x \in Component(g)
  <2>1. x \in Group
    BY <1>2 DEF Component
  <2>2. ASSUME NEW S \in SUBSET Group, g \in S,
               \A i \in S, j \in Group : Joined(i, j) => j \in S
        PROVE  x \in S
    <3>1. h \in S
      BY <2>2 DEF Component
    <3> QED
      BY <1>2, <2>2, <3>1 DEF Component
  <2> QED
    BY <2>1, <2>2 DEF Component
<1>3. g \in Component(h)
  <2> SUFFICES ASSUME NEW S \in SUBSET Group, h \in S,
                      \A i \in S, j \in Group : Joined(i, j) => j \in S
               PROVE  g \in S
    BY DEF Component
  <2> DEFINE R == Group \ S
  <2>1. \A i \in R, j \in Group : Joined(i, j) => j \in R
    BY JoinedIsSymmetric
  <2>2. g \in R => h \in R
    BY <2>1 DEF Component
  <2> QED
    BY <2>2
<1>4. ASSUME NEW x \in Component(g) PROVE x \in Component(h)
  <2>1. x \in Group
    BY <1>4 DEF Component
  <2>2. ASSUME NEW S \in SUBSET Group, h \in S,
               \A i \in S, j \in Group : Joined(i, j) => j \in S
        PROVE  x \in S
    <3>1. g \in S
      BY <1>3, <2>2 DEF Component
    <3> QED
      BY <1>4, <2>2, <3>1 DEF Component
  <2> QED
    BY <2>1, <2>2 DEF Component
<1> QED
  BY <1>2, <1>4

\* A plan that is not refused leaves nothing to coalesce.
LEMMA ValidPlanIsCoalesced ==
    ASSUME ValidPlan
    PROVE  Coalesced = {{g} : g \in Group}
<1>1. ASSUME NEW g \in Group, NEW h \in Group PROVE ~Joined(g, h)
  BY DEF ValidPlan, Resolved, ShareExplicitWorkspace, Joined
<1>2. ASSUME NEW g \in Group PROVE Component(g) = {g}
  <2> DEFINE S == {g}
  <2>1. S \in SUBSET Group /\ g \in S
        /\ \A i \in S, j \in Group : Joined(i, j) => j \in S
    BY <1>1
  <2>2. Component(g) \subseteq S
    BY <2>1 DEF Component
  <2> QED
    BY <2>2, InOwnComponent
<1>3. \A c : c \in Coalesced <=> \E g \in Group : c = Component(g)
  BY DEF Coalesced
<1> QED
  BY <1>2, <1>3

\* Following dependencies between groups, one follows them between components.
LEMMA FollowsComponents ==
    ASSUME deps \in [Group -> SUBSET Group],
           NEW g \in Group, NEW h \in Group, DependsOn(g, h),
           Component(g) # Component(h)
    PROVE  Follows(Component(g), Component(h))
<1> DEFINE c == Component(g)
<1> SUFFICES ASSUME NEW S \in SUBSET Coalesced, CoalescedDeps(c) \subseteq S,
                    \A e \in S : CoalescedDeps(e) \subseteq S
             PROVE  Component(h) \in S
  BY DEF Follows
<1> DEFINE U == {k \in Group : Component(k) \in S \cup {c}}
<1>1. ASSUME NEW k \in U, NEW x \in deps[k] PROVE x \in U
  <2>1. k \in Group /\ x \in Group /\ k \in Component(k)
    BY InOwnComponent
  <2>2. Component(x) \in CoalescedDeps(Component(k)) \cup {Component(k)}
    BY <2>1 DEF CoalescedDeps
  <2>3. CoalescedDeps(Component(k)) \subseteq S
    OBVIOUS
  <2> QED
    BY <2>1, <2>2, <2>3
<1>2. g \in U
  OBVIOUS
<1>3. U \in SUBSET Group /\ deps[g] \subseteq U /\ Closed(U)
  BY <1>1, <1>2 DEF Closed
<1>4. h \in U
  BY <1>3 DEF DependsOn
<1> QED
  BY <1>4

LEMMA CoalescingOrders ==
    ASSUME OrderTypeOK
    PROVE  CoalescedHaveOrder
<1> SUFFICES ASSUME NEW c \in Coalesced, NEW d \in Coalesced, c # d,
                    CoalescedFiles(c) \cap CoalescedFiles(d) # {},
                    (c \cup d) \cap shared = {}
             PROVE  Follows(c, d) \/ Follows(d, c)
  BY DEF CoalescedHaveOrder
<1>1. PICK p \in Group, q \in Group : c = Component(p) /\ d = Component(q)
  BY DEF Coalesced
<1>2. PICK g \in c, h \in d : files[g] \cap files[h] # {}
  <2>1. PICK f : f \in CoalescedFiles(c) /\ f \in CoalescedFiles(d)
    OBVIOUS
  <2>2. (\E g \in c : f \in files[g]) /\ (\E h \in d : f \in files[h])
    BY <2>1 DEF CoalescedFiles
  <2> QED
    BY <2>2
<1>3. g \in Group /\ h \in Group /\ Component(g) = c /\ Component(h) = d
  BY <1>1, <1>2, InOwnComponent, ComponentIsClass
<1>4. g # h /\ Overlap(g, h) /\ g \notin shared /\ h \notin shared
  BY <1>2, <1>3 DEF Overlap
<1>5. ~Joined(g, h)
  <2>1. Joined(g, h) => h \in Component(g)
    BY <1>3 DEF Component
  <2> QED
    BY <2>1, <1>3, ComponentIsClass
<1>6. DependsOn(g, h) \/ DependsOn(h, g)
  BY <1>4, <1>5 DEF Joined
<1> QED
  BY <1>3, <1>6, FollowsComponents DEF OrderTypeOK

-----------------------------------------------------------------------------
(* Kahn's algorithm                                                        *)

\* The in-degree counts what a group still waits for; a group has its stamp once it
\* waits for nothing, and then a later one than all it depends on.
DegreeInv ==
    \A h \in listed : inDegree[h] = Cardinality(Waiting(h))

StampInv ==
    /\ \A h \in Group : stamp[h] <= pushed
    /\ \A h \in listed : stamp[h] > 0 <=> Waiting(h) = {}
    /\ \A h \in Group : stamp[h] > 0 => h \in listed
    /\ \A g \in placed : stamp[g] > 0
    /\ \A h \in listed : stamp[h] > 0 =>
          \A g \in deps[h] \cap listed : stamp[g] > 0 /\ stamp[g] < stamp[h]

EndInv ==
    /\ order = "refused" <=> ~ValidPlan
    /\ Convex(listed)
    /\ order = "sorted" => placed = listed
    /\ order = "cyclic" => Queue = {} /\ placed # listed

OrderInv == OrderTypeOK /\ DegreeInv /\ StampInv /\ EndInv

\* What is waited for is finite, and empty when its count is.
LEMMA WaitingIsFinite ==
    ASSUME OrderTypeOK, NEW h \in Group
    PROVE  /\ IsFiniteSet(Waiting(h)) /\ Cardinality(Waiting(h)) \in Nat
           /\ Cardinality(Waiting(h)) = 0 <=> Waiting(h) = {}
<1>1. Waiting(h) \in SUBSET Group
  BY DEF Waiting, OrderTypeOK
<1>2. IsFiniteSet(Waiting(h))
  BY <1>1, GroupOrderAssumption, FS_Subset
<1> QED
  BY <1>2, FS_CardinalityType, FS_EmptySet

\* Places are counted from one.
LEMMA PlaceBounds ==
    ASSUME NEW S \in SUBSET Group
    PROVE  /\ Cardinality(S) \in Nat
           /\ \A g \in S : Place(g, S) \in 1..Cardinality(S)
<1>1. IsFiniteSet(S) /\ Cardinality(S) \in Nat
  BY GroupOrderAssumption, FS_Subset, FS_CardinalityType
<1>2. ASSUME NEW g \in S PROVE Place(g, S) \in 1..Cardinality(S)
  <2> DEFINE P == {h \in S : Rank[h] <= Rank[g]}
  <2>1. P \in SUBSET S /\ g \in P
    BY GroupOrderAssumption
  <2>2. IsFiniteSet(P) /\ Cardinality(P) <= Cardinality(S)
    BY <1>1, <2>1, FS_Subset
  <2>3. Cardinality(P) \in Nat /\ Cardinality(P) # 0
    BY <2>1, <2>2, FS_CardinalityType, FS_EmptySet
  <2> QED
    BY <1>1, <2>2, <2>3 DEF Place
<1> QED
  BY <1>1, <1>2

LEMMA OrderInitInv == OrderInit => OrderInv
<1> SUFFICES ASSUME OrderInit PROVE OrderInv
  OBVIOUS
<1> DEFINE roots == {g \in listed : inDegree[g] = 0}
<1>1. /\ files \in [Group -> SUBSET File] /\ deps \in [Group -> SUBSET Group]
      /\ shared \in SUBSET Group /\ listed \in SUBSET Group /\ Convex(listed)
      /\ placed = {}
      /\ inDegree = [g \in Group |-> Cardinality(deps[g] \cap listed)]
      /\ stamp = [g \in Group |-> IF g \in roots THEN Place(g, roots) ELSE 0]
      /\ pushed = Cardinality(roots)
      /\ order = IF ValidPlan THEN "sorting" ELSE "refused"
  BY DEF OrderInit
<1>2. \A h \in Group : Waiting(h) = deps[h] \cap listed
  BY <1>1 DEF Waiting
<1>3. ASSUME NEW h \in Group
      PROVE  /\ inDegree[h] = Cardinality(Waiting(h)) /\ inDegree[h] \in Nat
             /\ inDegree[h] = 0 <=> Waiting(h) = {}
  <2>1. IsFiniteSet(deps[h] \cap listed)
    BY <1>1, GroupOrderAssumption, FS_Subset
  <2>2. Cardinality(deps[h] \cap listed) \in Nat
        /\ (Cardinality(deps[h] \cap listed) = 0 <=> deps[h] \cap listed = {})
    BY <2>1, FS_CardinalityType, FS_EmptySet
  <2> QED
    BY <1>1, <1>2, <2>2
<1>4. roots \in SUBSET Group /\ roots \subseteq listed
  BY <1>1
<1>5. pushed \in Nat /\ \A g \in roots : Place(g, roots) \in 1..pushed
  BY <1>1, <1>4, PlaceBounds
<1>6. \A g \in Group : /\ g \in roots => stamp[g] \in 1..pushed
                       /\ g \notin roots => stamp[g] = 0
  BY <1>1, <1>5
<1> HIDE DEF roots
<1>7. stamp \in [Group -> Nat] /\ inDegree \in [Group -> Nat]
  BY <1>1, <1>3, <1>5, <1>6
<1>8. OrderTypeOK
  BY <1>1, <1>5, <1>7 DEF OrderTypeOK
<1>9. DegreeInv
  BY <1>1, <1>3 DEF DegreeInv
<1>10. StampInv
  <2>1. \A h \in listed : h \in roots <=> Waiting(h) = {}
    BY <1>1, <1>3 DEF roots
  <2>2. \A h \in Group : stamp[h] <= pushed /\ (stamp[h] > 0 <=> h \in roots)
    BY <1>5, <1>6
  <2>3. \A h \in listed : stamp[h] > 0 => deps[h] \cap listed = {}
    BY <1>1, <1>2, <2>1, <2>2
  <2> QED
    BY <1>1, <1>4, <2>1, <2>2, <2>3 DEF StampInv
<1>11. EndInv
  BY <1>1 DEF EndInv
<1> QED
  BY <1>8, <1>9, <1>10, <1>11 DEF OrderInv

LEMMA PlaceNextKeepsOrderInv ==
    ASSUME OrderInv, NEW g \in Group, PlaceNext(g)
    PROVE  OrderInv'
<1> USE DEF OrderInv
<1> DEFINE new == NewlyReady(g)
<1>1. /\ order = "sorting" /\ g \in listed /\ stamp[g] > 0 /\ g \notin placed
      /\ placed' = placed \cup {g} /\ inDegree' = Lowered(g)
      /\ stamp' = Stamped(new) /\ pushed' = pushed + Cardinality(new)
      /\ UNCHANGED <<files, deps, shared, listed, order>>
  BY DEF PlaceNext, Front, Queue, planVars
<1>2. \A h \in Group : Waiting(h)' = Waiting(h) \ {g}
  BY <1>1 DEF Waiting
<1>3. new \in SUBSET Group /\ new \subseteq listed
  BY DEF NewlyReady, OrderTypeOK
<1>4. Cardinality(new) \in Nat /\ pushed \in Nat /\ pushed' \in Nat
  BY <1>1, <1>3, PlaceBounds DEF OrderTypeOK
<1>5. \A h \in listed : g \in deps[h] => g \in Waiting(h)
  BY <1>1 DEF Waiting
<1>6. ASSUME NEW h \in listed
      PROVE  /\ Cardinality(Waiting(h) \ {g}) \in Nat
             /\ inDegree'[h] = Cardinality(Waiting(h) \ {g})
             /\ inDegree'[h] \in Nat
             /\ h \in new <=> g \in deps[h] /\ Waiting(h) \ {g} = {}
  <2>1. h \in Group /\ IsFiniteSet(Waiting(h)) /\ Cardinality(Waiting(h)) \in Nat
        /\ inDegree[h] = Cardinality(Waiting(h))
    BY WaitingIsFinite DEF OrderTypeOK, DegreeInv
  <2>2. /\ IsFiniteSet(Waiting(h) \ {g})
        /\ Cardinality(Waiting(h) \ {g}) =
              IF g \in Waiting(h) THEN Cardinality(Waiting(h)) - 1 ELSE Cardinality(Waiting(h))
    BY <2>1, FS_RemoveElement
  <2>3. Cardinality(Waiting(h) \ {g}) \in Nat
        /\ (Cardinality(Waiting(h) \ {g}) = 0 <=> Waiting(h) \ {g} = {})
    BY <2>2, FS_CardinalityType, FS_EmptySet
  <2>4. g \in Waiting(h) <=> g \in deps[h]
    BY <1>1, <1>5 DEF Waiting
  <2>5. inDegree'[h] = IF g \in deps[h] THEN inDegree[h] - 1 ELSE inDegree[h]
    BY <1>1, <2>1 DEF Lowered
  <2>6. h \in new <=> g \in deps[h] /\ inDegree[h] = 1
    BY DEF NewlyReady
  <2> QED
    BY <2>1, <2>2, <2>3, <2>4, <2>5, <2>6
<1>7. \A h \in new : stamp[h] = 0 /\ Waiting(h) # {}
  BY <1>3, <1>5, <1>6 DEF StampInv, OrderTypeOK, NewlyReady
<1>8. \A h \in new : Place(h, new) \in 1..Cardinality(new)
  BY <1>3, PlaceBounds
<1>9. \A h \in Group : /\ h \in new => stamp'[h] \in pushed + 1..pushed'
                       /\ h \notin new => stamp'[h] = stamp[h]
  BY <1>1, <1>4, <1>8 DEF Stamped
<1>10. stamp' \in [Group -> Nat]
  <2>1. stamp' = [h \in Group |-> stamp'[h]]
    BY <1>1 DEF Stamped
  <2>2. \A h \in Group : stamp'[h] \in Nat
    BY <1>4, <1>9 DEF OrderTypeOK
  <2> QED
    BY <2>1, <2>2
<1>11. inDegree' \in [Group -> Nat]
  <2>1. inDegree' = [h \in Group |-> inDegree'[h]]
    BY <1>1 DEF Lowered
  <2>2. \A h \in Group : h \notin listed => inDegree'[h] = inDegree[h]
    BY <1>1 DEF Lowered
  <2>3. \A h \in Group : inDegree'[h] \in Nat
    BY <1>6, <2>2 DEF OrderTypeOK
  <2> QED
    BY <2>1, <2>3
<1> HIDE DEF new
<1>12. OrderTypeOK'
  BY <1>1, <1>4, <1>10, <1>11 DEF OrderTypeOK
<1>13. DegreeInv'
  BY <1>1, <1>2, <1>6 DEF DegreeInv, OrderTypeOK
<1>14. StampInv'
  <2>1. \A h \in Group : stamp[h] \in Nat /\ stamp[h] <= pushed
    BY DEF StampInv, OrderTypeOK
  <2>2. \A h \in Group : stamp'[h] <= pushed' /\ (stamp'[h] > 0 <=> stamp[h] > 0 \/ h \in new)
    BY <1>4, <1>1, <1>9, <2>1
  <2>3. \A h \in listed : stamp'[h] > 0 <=> Waiting(h) \ {g} = {}
    <3> TAKE h \in listed
    <3>1. h \in Group /\ (stamp[h] > 0 <=> Waiting(h) = {})
      BY DEF StampInv, OrderTypeOK
    <3>2. h \in new <=> g \in deps[h] /\ Waiting(h) \ {g} = {}
      BY <1>6
    <3>3. g \notin deps[h] => Waiting(h) \ {g} = Waiting(h)
      BY DEF Waiting
    <3> QED
      BY <3>1, <3>2, <3>3, <2>2
  <2>4. \A h \in Group : stamp'[h] > 0 => h \in listed
    BY <1>3, <2>2 DEF StampInv
  <2>5. \A k \in placed' : stamp'[k] > 0
    BY <1>1, <2>2 DEF StampInv, OrderTypeOK
  <2>6. ASSUME NEW h \in listed, stamp'[h] > 0, NEW k \in deps[h] \cap listed
        PROVE  stamp'[k] > 0 /\ stamp'[k] < stamp'[h]
    <3>0. h \in Group /\ k \in Group
      BY DEF OrderTypeOK
    <3>1. k \in placed \cup {g}
      BY <2>3, <2>6 DEF Waiting
    <3>2. stamp[k] > 0 /\ k \notin new
      BY <3>0, <3>1, <1>1, <1>7, <2>1 DEF StampInv
    <3>3. stamp'[k] = stamp[k]
      BY <3>0, <3>2, <1>9
    <3>4. CASE h \in new
      BY <3>0, <3>2, <3>3, <3>4, <1>4, <1>9, <2>1
    <3>5. CASE h \notin new
      <4>1. stamp'[h] = stamp[h]
        BY <3>0, <3>5, <1>9
      <4> QED
        BY <4>1, <3>3, <2>6 DEF StampInv
    <3> QED
      BY <3>4, <3>5
  <2> QED
    BY <1>1, <1>2, <2>2, <2>3, <2>4, <2>5, <2>6 DEF StampInv, OrderTypeOK
<1>15. EndInv'
  BY <1>1 DEF EndInv, ValidPlan, Overlap, Resolved, DependsOn, Closed,
              ShareExplicitWorkspace, Convex
<1> QED
  BY <1>12, <1>13, <1>14, <1>15

LEMMA EndSortKeepsOrderInv == OrderInv /\ EndSort => OrderInv'
<1> SUFFICES ASSUME OrderInv, EndSort PROVE OrderInv'
  OBVIOUS
<1> USE DEF OrderInv
<1>1. /\ order = "sorting" /\ Queue = {}
      /\ order' = IF placed = listed THEN "sorted" ELSE "cyclic"
      /\ UNCHANGED <<files, deps, shared, listed, inDegree, stamp, pushed, placed>>
  BY DEF EndSort, planVars
<1>2. OrderTypeOK' /\ DegreeInv' /\ StampInv'
  BY <1>1 DEF OrderTypeOK, DegreeInv, StampInv, Waiting
<1>3. EndInv'
  <2>1. ValidPlan' = ValidPlan /\ Convex(listed)' = Convex(listed) /\ Queue' = Queue
    BY <1>1 DEF ValidPlan, Overlap, Resolved, DependsOn, Closed, ShareExplicitWorkspace,
                Convex, Queue
  <2> QED
    BY <1>1, <2>1 DEF EndInv
<1> QED
  BY <1>2, <1>3

LEMMA OrderInvAlways == OrderSpec => []OrderInv
<1>1. OrderInv /\ [OrderNext]_orderVars => OrderInv'
  <2> SUFFICES ASSUME OrderInv, [OrderNext]_orderVars PROVE OrderInv'
    OBVIOUS
  <2>1. CASE UNCHANGED orderVars
    <3>1. UNCHANGED <<files, deps, shared, listed, inDegree, stamp, pushed, placed, order>>
      BY <2>1 DEF orderVars, planVars
    <3>2. OrderTypeOK' /\ DegreeInv' /\ StampInv'
      BY <3>1 DEF OrderInv, OrderTypeOK, DegreeInv, StampInv, Waiting
    <3>3. ValidPlan' = ValidPlan /\ Convex(listed)' = Convex(listed) /\ Queue' = Queue
      BY <3>1 DEF ValidPlan, Overlap, Resolved, DependsOn, Closed, ShareExplicitWorkspace,
                  Convex, Queue
    <3> QED
      BY <3>1, <3>2, <3>3 DEF OrderInv, EndInv
  <2> QED
    BY <2>1, PlaceNextKeepsOrderInv, EndSortKeepsOrderInv DEF OrderNext
<1> QED
  BY <1>1, OrderInitInv, PTL DEF OrderSpec

\* Along any dependency between two groups of a convex list, also one that goes
\* through other groups, the stamps go down.
LEMMA DependencyIsBefore ==
    ASSUME OrderInv, placed = listed,
           NEW g \in listed, NEW h \in listed, DependsOn(g, h)
    PROVE  Before(h, g)
<1>1. /\ deps \in [Group -> SUBSET Group] /\ listed \subseteq Group
      /\ stamp \in [Group -> Nat] /\ Convex(listed)
  BY DEF OrderInv, OrderTypeOK, EndInv
<1>2. \A k \in listed : \A j \in deps[k] \cap listed : stamp[j] < stamp[k]
  BY DEF OrderInv, StampInv
<1>3. g # h /\ Reaches(g, h)
  BY DependsIsReaches
<1> DEFINE S == {k \in Group : /\ Reaches(g, k)
                               /\ k = h \/ Reaches(k, h) =>
                                     k \in listed /\ stamp[k] < stamp[g]}
<1>4. ASSUME NEW k \in Group, NEW j \in deps[k], k = g \/ k \in S
      PROVE  j \in S
  <2>1. j \in Group
    BY <1>1
  <2>2. Reaches(g, j)
    BY <1>4, ReachesDeps, ReachesOn
  <2>3. ASSUME j = h \/ Reaches(j, h)
        PROVE  j \in listed /\ stamp[j] < stamp[g]
    <3>1. Reaches(k, h)
      BY <2>1, <2>3, ReachesFrom
    <3>2. k \in listed /\ (k = g \/ stamp[k] < stamp[g])
      BY <1>4, <3>1
    <3>3. j # g
      BY <1>1, <1>2, <1>4, <3>2
    <3>4. j \in listed
      <4>1. CASE j = h
        BY <4>1
      <4>2. CASE j # h
        <5>1. DependsOn(g, j) /\ DependsOn(j, h)
          BY <4>2, <3>3, <2>2, <2>3, DependsIsReaches
        <5> QED
          BY <5>1, <1>1, <2>1 DEF Convex
      <4> QED
        BY <4>1, <4>2
    <3>5. stamp[j] < stamp[k]
      BY <3>2, <3>4, <1>2
    <3> QED
      BY <3>2, <3>4, <3>5, <1>1, <2>1
  <2> QED
    BY <2>1, <2>2, <2>3
<1>5. S \in SUBSET Group /\ deps[g] \subseteq S /\ Closed(S)
  <2>1. S \in SUBSET Group
    OBVIOUS
  <2>2. g \in Group
    BY <1>1
  <2> HIDE DEF S
  <2> QED
    BY <2>1, <2>2, <1>4 DEF Closed
<1>6. h \in S
  BY <1>3, <1>5 DEF Reaches
<1> QED
  BY <1>6 DEF Before

\* In a plan that was not refused, groups with a common file are replayed in the order
\* of their dependency, whichever part of the plan is replayed; a sort that fails has
\* found a cycle; and coalescing leaves no two groups with one file without an order
\* (ownership-validator.ts, topoSortGroups; execution-groups.ts).
THEOREM ReplayOrderIsSound == OrderSpec => []OrderSound
<1>1. OrderInv => OrderSound
  <2> SUFFICES ASSUME OrderInv PROVE OrderSound
    OBVIOUS
  <2>1. IF order = "refused" THEN CoalescedHaveOrder
        ELSE Coalesced = {{g} : g \in Group}
    BY CoalescingOrders, ValidPlanIsCoalesced DEF OrderInv, EndInv
  <2>2. ASSUME order = "sorted", NEW h \in listed, NEW g \in deps[h] \cap listed
        PROVE  Before(g, h)
    BY <2>2 DEF OrderInv, EndInv, StampInv, Before
  <2>3. ASSUME order = "sorted", NEW g \in listed, NEW h \in listed, g # h,
               Overlap(g, h), ~ShareExplicitWorkspace(g, h)
        PROVE  /\ Before(g, h) \/ Before(h, g)
               /\ DependsOn(g, h) => Before(h, g)
    <3>1. placed = listed /\ ValidPlan
      BY <2>3 DEF OrderInv, EndInv
    <3>2. DependsOn(g, h) \/ DependsOn(h, g)
      BY <2>3, <3>1 DEF ValidPlan, Resolved, OrderInv, OrderTypeOK
    <3> QED
      BY <3>1, <3>2, DependencyIsBefore
  <2>4. ASSUME order = "cyclic"
        PROVE  \E S \in SUBSET listed : S # {} /\ \A g \in S : deps[g] \cap S # {}
    <3> DEFINE S == listed \ placed
    <3>1. Queue = {} /\ S # {}
      BY <2>4 DEF OrderInv, EndInv, OrderTypeOK
    <3>2. ASSUME NEW g \in S PROVE deps[g] \cap S # {}
      <4>1. ~(stamp[g] > 0)
        BY <3>1 DEF Queue
      <4>2. Waiting(g) # {}
        BY <4>1 DEF OrderInv, StampInv
      <4> QED
        BY <4>2 DEF Waiting
    <3> QED
      BY <3>1, <3>2
  <2> QED
    BY <2>1, <2>2, <2>3, <2>4 DEF OrderSound
<1> QED
  BY <1>1, OrderInvAlways, PTL
=============================================================================
