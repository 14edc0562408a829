----------------------------- MODULE FixWorkflow -----------------------------
(***************************************************************************)
(* /zflow-change-fix: findings of a code review are chosen by the user and *)
(* handed to fix workers in rounds of batches, one batch for a family of   *)
(* findings, batches without common files at a time (fix/workflow.ts,      *)
(* runDirectFixWorkflow).  What a worker did is judged by a checker and,   *)
(* for batches that matter, by a focused review.                           *)
(*                                                                         *)
(* Batches are numbered anew in every round, and so are the files their    *)
(* results are in.  Severity, recurrence and size decide the order of the  *)
(* batches, the worker and whether there is a focused review: they may be  *)
(* anything here.  Workers, checkers and reviewers are external.           *)
(***************************************************************************)
EXTENDS Naturals, SequencesExt, Sublists

CONSTANTS
    Finding,        \* findings, each with its own id
    FamilyOf,       \* the family a finding belongs to
    FileOf,         \* the file it names, or "none"
    Reports,        \* what code-review-findings.md may hold, in its order
    MaxAttempts,    \* maxAttemptsPerFinding
    MaxRounds       \* maxGlobalRounds

ASSUME FixWorkflowAssumption ==
    /\ IsFiniteSet(Finding)
    /\ \A r \in Reports : IsInjective(r) /\ r \in Seq(Finding)
    /\ MaxAttempts \in Nat \ {0} /\ MaxRounds \in Nat \ {0}

VARIABLES
    fixing,         \* where the command is
    report,         \* code-review-findings.md
    chosen,         \* the findings the user chose, as places in the report
    selected,       \* the findings of the fix plan
    pending,        \* pendingFindings
    nextPending,
    rounds,         \* roundsUsed
    batches,        \* the batches of the round
    waves,          \* ... numbers of those that run together
    stage,          \* where each batch of the present wave is
    attempts,
    outcome,        \* fixed and unresolved findings of each batch that ended
    checks,         \* batch-<n>-satisfaction-check.md: a verdict
    fixedById,
    unresolvedById,
    given           \* ghost: findings a checker of theirs said are satisfied

fixVars == <<fixing, report, chosen, selected, pending, nextPending, rounds, batches,
             waves, stage, attempts, outcome, checks, fixedById, unresolvedById, given>>

MaxBatches == Cardinality(Finding)
Numbers == 1..MaxBatches

\* A verdict names findings one by one, or has one status for all.
NoVerdict == [names |-> {}, satisfied |-> {}, overall |-> "none"]
Verdicts(S) ==
    {[names |-> {}, satisfied |-> {}, overall |-> o] : o \in {"fixed", "partial"}}
    \cup UNION {{[names |-> N, satisfied |-> T, overall |-> "partial"] : T \in SUBSET N} :
                N \in (SUBSET S) \ {{}}}

Open == [fixed |-> {}, unresolved |-> {}]

FixTypeOK ==
    /\ fixing \in {"no", "choosing", "round", "wave"}
    /\ report \in Reports
    /\ chosen \subseteq 1..MaxBatches
    /\ selected \subseteq Finding
    /\ pending \in Seq(Finding) /\ nextPending \in Seq(Finding)
    /\ IsInjective(pending) /\ IsInjective(nextPending)
    /\ rounds \in 0..MaxRounds
    /\ Len(batches) <= MaxBatches
    /\ \A n \in DOMAIN batches : batches[n] \subseteq Finding /\ batches[n] # {}
    /\ \A w \in DOMAIN waves : waves[w] \subseteq DOMAIN batches /\ waves[w] # {}
    /\ stage \in [Numbers -> {"none", "work", "check", "ended"}]
    /\ attempts \in [Numbers -> 0..MaxAttempts]
    /\ fixedById \subseteq Finding /\ unresolvedById \subseteq Finding
    /\ given \subseteq Finding

Idle == [n \in Numbers |-> "none"]
Zero == [n \in Numbers |-> 0]
NoChecks == [n \in Numbers |-> NoVerdict]
NoOutcome == [n \in Numbers |-> Open]

FixInit ==
    /\ fixing = "no"
    /\ report \in Reports
    /\ chosen = {} /\ selected = {} /\ pending = <<>> /\ nextPending = <<>>
    /\ rounds = 0 /\ batches = <<>> /\ waves = <<>>
    /\ stage = Idle /\ attempts = Zero /\ outcome = NoOutcome /\ checks = NoChecks
    /\ fixedById = {} /\ unresolvedById = {} /\ given = {}

roundVars == <<pending, nextPending, rounds, batches, waves, stage, attempts, outcome,
               checks, fixedById, unresolvedById, given>>

\* The handler parses the report and asks the user, unless he said --apply.
OpenFix ==
    /\ fixing = "no" /\ report # <<>>
    /\ fixing' = "choosing"
    /\ chosen' \in SUBSET DOMAIN report
    /\ selected' = {} /\ pending' = <<>> /\ nextPending' = <<>> /\ rounds' = 0
    /\ batches' = <<>> /\ waves' = <<>>
    /\ fixedById' = {} /\ unresolvedById' = {} /\ given' = {}
    /\ UNCHANGED <<report, stage, attempts, outcome, checks>>

CancelFix ==
    /\ fixing = "choosing" /\ fixing' = "no" /\ chosen' = {}
    /\ UNCHANGED <<report, selected, roundVars>>

\* Meanwhile a review in another session writes the report anew.
RewriteReport ==
    /\ fixing = "choosing"
    /\ report' \in Reports \ {report}
    /\ UNCHANGED <<fixing, chosen, selected, roundVars>>

\* runChangeFixWorkflow parses the report again and takes the places chosen; the
\* first round begins.
LoadFindings ==
    /\ fixing = "choosing"
    /\ LET taken == IF chosen = {} THEN report ELSE Picked(report, chosen \cap DOMAIN report)
       IN  selected' = ToSet(taken) /\ pending' = taken
    /\ chosen' = {}
    /\ fixing' = "round"
    /\ UNCHANGED <<report, nextPending, rounds, batches, waves, stage, attempts, outcome,
                   checks, fixedById, unresolvedById, given>>

-----------------------------------------------------------------------------
(* Batches and waves                                                       *)

\* buildDirectFixBatches: one batch a family, numbered as their findings come.
FirstOfFamily(p) ==
    Picked(p, {i \in DOMAIN p : \A j \in 1..(i - 1) : FamilyOf[p[j]] # FamilyOf[p[i]]})
Batches(p) ==
    LET firsts == FirstOfFamily(p)
    IN  [n \in DOMAIN firsts |-> {f \in ToSet(p) : FamilyOf[f] = FamilyOf[firsts[n]]}]

FilesNamed(S) == {FileOf[f] : f \in S} \ {"none"}
BatchesConflict(S, T) == FilesNamed(S) = {} \/ FilesNamed(T) = {} \/ FilesNamed(S) \cap FilesNamed(T) # {}

\* partitionBatchesIntoWaves, of batches bs in the order o: each goes to the first wave
\* of w that has no conflict with it so far.
Fits(bs, o, w, i, v) ==
    \A j \in 1..(i - 1) : w[o[j]] = v => ~BatchesConflict(bs[o[j]], bs[o[i]])
Placements(bs, o) ==
    {w \in [DOMAIN bs -> DOMAIN bs] :
        \A i \in DOMAIN o : \A v \in 1..w[o[i]] : Fits(bs, o, w, i, v) <=> v = w[o[i]]}
Partition(bs, o) ==
    {[v \in 1..Max(Range(w)) |-> {n \in DOMAIN bs : w[n] = v}] : w \in Placements(bs, o)}

Start(ws) == [n \in Numbers |-> IF ws # <<>> /\ n \in Head(ws) THEN "work" ELSE "none"]

StartRound ==
    /\ fixing = "round" /\ pending # <<>> /\ rounds < MaxRounds
    /\ rounds' = rounds + 1
    /\ batches' = Batches(pending)
    /\ \E o \in SetToSeqs(DOMAIN Batches(pending)) : waves' \in Partition(Batches(pending), o)
    /\ stage' = Start(waves') /\ attempts' = Zero /\ outcome' = NoOutcome
    /\ nextPending' = <<>>
    /\ fixing' = "wave"
    /\ UNCHANGED <<report, chosen, selected, pending, checks, fixedById, unresolvedById,
                   given>>

\* A worker is tried again until it succeeds, or says what it did.
WorkerAttempt(n) ==
    /\ fixing = "wave" /\ stage[n] = "work"
    /\ attempts' = [attempts EXCEPT ![n] = @ + 1]
    /\ \/ stage' = [stage EXCEPT ![n] = "check"]
       \/ attempts[n] + 1 < MaxAttempts /\ UNCHANGED stage
    /\ UNCHANGED <<fixing, report, chosen, selected, pending, nextPending, rounds, batches,
                   waves, outcome, checks, fixedById, unresolvedById, given>>

Named(v, f) == f \in v.names \/ v.names = {}
Satisfied(v, f) ==
    IF v.names = {} THEN v.overall = "fixed" ELSE f \in v.names \cap v.satisfied

JudgedByVerdict(S, v, turnedDown) ==
    LET fixed == {f \in S : Satisfied(v, f)}
        open  == {f \in S : Named(v, f) /\ ~Satisfied(v, f)}
    IN  IF v = NoVerdict \/ (turnedDown /\ fixed # {} /\ open = {})
        THEN [fixed |-> {}, unresolved |-> S]
        ELSE [fixed |-> fixed, unresolved |-> open]

\* applyStructuredFixResults and what runBatch makes of it: a focused review may turn
\* down a batch that is fixed as far as the verdict goes, and findings the verdict
\* leaves out are unresolved.
Judged(S, v, turnedDown) ==
    LET fixed == {f \in S : Satisfied(v, f)}
        open  == {f \in S : Named(v, f) /\ ~Satisfied(v, f)}
    IN  IF v = NoVerdict \/ (turnedDown /\ fixed # {} /\ open = {})
        THEN [fixed |-> {}, unresolved |-> S]
        ELSE [fixed |-> fixed, unresolved |-> S \ fixed]

\* The checker's answer is judged by what is in its file, which an answer that is
\* only raw output does not replace.  Without an answer the file counts that an
\* earlier round left there.
Check(n) ==
    /\ fixing = "wave" /\ stage[n] = "check"
    /\ \E v \in Verdicts(batches[n]) \cup {NoVerdict, checks[n]}, turnedDown \in BOOLEAN :
          /\ outcome' = [outcome EXCEPT ![n] = Judged(batches[n], v, turnedDown)]
          /\ \/ /\ v \in Verdicts(batches[n])
                /\ checks' = [checks EXCEPT ![n] = v]
                /\ given' = (given \ batches[n]) \cup {f \in batches[n] : Satisfied(v, f)}
             \/ /\ v \in {NoVerdict, checks[n]}
                /\ given' = given \ batches[n] /\ UNCHANGED checks
    /\ stage' = [stage EXCEPT ![n] = "ended"]
    /\ UNCHANGED <<fixing, report, chosen, selected, pending, nextPending, rounds, batches,
                   waves, attempts, fixedById, unresolvedById>>

EndWave ==
    /\ fixing = "wave" /\ waves # <<>>
    /\ \A n \in Head(waves) : stage[n] = "ended"
    /\ LET fixed == UNION {outcome[n].fixed : n \in Head(waves)}
           open  == UNION {outcome[n].unresolved : n \in Head(waves)}
       IN  /\ fixedById' = fixedById \cup fixed
           /\ unresolvedById' = (unresolvedById \ fixed) \cup open
           /\ nextPending' = nextPending \o Picked(pending, {i \in DOMAIN pending : pending[i] \in open})
    /\ waves' = Tail(waves)
    /\ stage' = Start(Tail(waves))
    /\ UNCHANGED <<fixing, report, chosen, selected, pending, rounds, batches, attempts,
                   outcome, checks, given>>

EndRound ==
    /\ fixing = "wave" /\ waves = <<>>
    /\ pending' = nextPending /\ nextPending' = <<>>
    /\ fixing' = "round"
    /\ batches' = <<>> /\ attempts' = Zero /\ outcome' = NoOutcome
    /\ UNCHANGED <<report, chosen, selected, rounds, waves, stage, checks, fixedById,
                   unresolvedById, given>>

\* The report: what is pending when the rounds are used up, or else what is recorded.
\* The next command removes the result files before its first round.
Unresolved == IF pending # <<>> THEN ToSet(pending) ELSE unresolvedById
FinishFix ==
    /\ fixing = "round" /\ (pending = <<>> \/ rounds = MaxRounds)
    /\ fixing' = "no"
    /\ unresolvedById' = Unresolved
    /\ pending' = <<>> /\ checks' = NoChecks
    /\ UNCHANGED <<report, chosen, selected, nextPending, rounds, batches, waves, stage,
                   attempts, outcome, fixedById, given>>

FixStep ==
    \/ LoadFindings \/ StartRound \/ EndWave \/ EndRound \/ FinishFix
    \/ \E n \in Numbers : WorkerAttempt(n) \/ Check(n)

FixNext == OpenFix \/ CancelFix \/ RewriteReport \/ FixStep

FixSpec == FixInit /\ [][FixNext]_fixVars /\ WF_fixVars(FixStep)

-----------------------------------------------------------------------------
(* Properties                                                              *)

\* When the command has run its rounds, each finding of the plan is reported once:
\* as fixed or as unresolved, whatever its checkers said or left out.
FixAccounts ==
    fixing = "no" /\ rounds > 0 =>
        /\ fixedById \cup unresolvedById = selected
        /\ fixedById \cap unresolvedById = {}

FixEnds == fixing \in {"round", "wave"} ~> fixing = "no"

\* A finding is reported as fixed only if, the last time it was in a batch, its
\* independent checker answered that it is satisfied.
FixedWasChecked == fixing = "no" => fixedById \subseteq given
=============================================================================
