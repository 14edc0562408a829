------------------------------- MODULE Cleaning ------------------------------
(***************************************************************************)
(* /zflow-clean, and the cleanup that /zflow-change-implement --abandon    *)
(* starts: runCleanWorkflow abandons the unfinished runs of a change, then *)
(* looks at the immediate children of the runtime state directory (.zflow) *)
(* and removes those that were not modified for so many days.              *)
(*                                                                         *)
(* A directory is modified when one of its own entries comes or goes: runs *)
(* when a run is created, not when a run goes on, for run.json lies one    *)
(* level deeper.  All runs lie in that one child.  Runs of other sessions  *)
(* are created and go on while the command works.                          *)
(***************************************************************************)
EXTENDS Naturals

CONSTANTS
    Tracked,      \* run ids
    ChangeOf,     \* the change each is a run of
    Children,     \* of the runtime state directory: "runs", "index", others
    FailedNames,  \* those named like a failed or interrupted worktree
    MentionedIn,  \* pairs of a child and a run whose id is in the child's path
    StaleDays, FailedDays,
    OlderThan,    \* values given with --older-than
    LastDay,      \* bound: days that pass
    MaxCleans     \* bound: cleanups

ASSUME CleaningAssumption ==
    /\ {"runs", "index"} \subseteq Children
    /\ FailedNames \subseteq Children \ {"runs", "index"}
    /\ MentionedIn \subseteq Children \X Tracked
    /\ StaleDays \in Nat /\ FailedDays \in Nat /\ OlderThan \subseteq Nat
    /\ LastDay \in Nat /\ MaxCleans \in Nat

VARIABLES
    today,
    modified,     \* the day each child was last modified; Gone: it is not there
    phase,        \* of each run.json; "none": there is none
    listed,       \* state-index.json: runs with an entry, and unfinished ones
    cleaning,     \* the cleanup under way
    cleans,       \* how many there were
    born          \* ghost: the day each run was created

cleaningVars == <<today, modified, phase, listed, cleaning, cleans, born>>

Gone == LastDay + 1
EmptyList == [entries |-> {}, unfinished |-> {}]
NotCleaning == [at |-> "idle"]

CleaningInit ==
    /\ today = 0
    /\ modified = [c \in Children |-> IF c \in {"runs", "index"} THEN Gone ELSE 0]
    /\ phase = [r \in Tracked |-> "none"]
    /\ listed = EmptyList
    /\ cleaning = NotCleaning
    /\ cleans = 0
    /\ born = [r \in Tracked |-> 0]

There(c) == modified[c] # Gone
Touch(c) == modified' = [modified EXCEPT ![c] = today]

-----------------------------------------------------------------------------
(* Runs                                                                    *)

NewDay ==
    /\ today < LastDay
    /\ today' = today + 1
    /\ UNCHANGED <<modified, phase, listed, cleaning, cleans, born>>

CreateRunInPlace(r) ==
    /\ phase[r] = "none" /\ r \notin listed.entries
    /\ phase' = [phase EXCEPT ![r] = "pending"]
    /\ born' = [born EXCEPT ![r] = today]
    /\ modified' = [modified EXCEPT !["runs"] = IF There("runs") THEN @ ELSE today]
    /\ UNCHANGED <<today, listed, cleaning, cleans>>

\* createRun: a new directory in runs, which is made when it is not there.
CreateRunDirectory(r) ==
    /\ phase[r] = "none" /\ r \notin listed.entries
    /\ phase' = [phase EXCEPT ![r] = "pending"]
    /\ born' = [born EXCEPT ![r] = today]
    /\ Touch("runs")
    /\ UNCHANGED <<today, listed, cleaning, cleans>>

\* setRunPhase: the run is taken up, and later completed.
RunGoesOn(r) ==
    /\ phase[r] \in {"pending", "executing"}
    /\ phase' = [phase EXCEPT ![r] = IF @ = "pending" THEN "executing" ELSE "completed"]
    /\ UNCHANGED <<today, modified, listed, cleaning, cleans, born>>

\* addStateIndexEntry with upsertChangeLifecycle, and the delisting of a run that
\* is completed.  Each saves the whole index.
ListRunStarted(r) ==
    /\ phase[r] = "executing" /\ r \notin listed.entries
    /\ listed' = [entries |-> listed.entries \cup {r}, unfinished |-> listed.unfinished \cup {r}]
    /\ Touch("index")
    /\ UNCHANGED <<today, phase, cleaning, cleans, born>>

DelistRun(r) ==
    /\ phase[r] = "completed" /\ r \in listed.unfinished
    /\ listed' = [listed EXCEPT !.unfinished = @ \ {r}]
    /\ Touch("index")
    /\ UNCHANGED <<today, phase, cleaning, cleans, born>>

-----------------------------------------------------------------------------
(* The command                                                             *)

\* The runs of the change it was given, if any, are abandoned.
OfChange(ch) == {r \in listed.unfinished : ChangeOf[r] = ch}

StartClean(toAbandon, dry, orphans, limit) ==
    /\ cleaning.at = "idle" /\ cleans < MaxCleans
    /\ cleans' = cleans + 1
    /\ cleaning' = [at |-> "abandon", left |-> IF dry THEN {} ELSE toAbandon, dry |-> dry,
                    orphans |-> orphans, limit |-> limit, found |-> {}, seen |-> {},
                    day |-> 0]
    /\ UNCHANGED <<today, modified, phase, listed, born>>

Clean(dry, orphans, limit) ==
    \/ StartClean({}, dry, orphans, limit)
    \/ \E r \in Tracked : StartClean(OfChange(ChangeOf[r]), dry, orphans, limit)

\* /zflow-change-implement --abandon, for a change with unfinished runs.
CleanOnEntry(ch) ==
    /\ OfChange(ch) # {}
    /\ StartClean(OfChange(ch), FALSE, FALSE, StaleDays)

\* abandonWorkflow: without an entry it fails, and the loop goes on.
AbandonListed(r) ==
    /\ cleaning.at = "abandon" /\ r \in cleaning.left
    /\ cleaning' = [cleaning EXCEPT !.left = @ \ {r}]
    /\ IF r \in listed.entries
       THEN /\ listed' = [listed EXCEPT !.unfinished = @ \ {r}]
            /\ Touch("index")
       ELSE UNCHANGED <<listed, modified>>
    /\ UNCHANGED <<today, phase, cleans, born>>

\* scanForCleanup.
Expired(c) ==
    There(c) /\ today - modified[c] > (IF c \in FailedNames THEN FailedDays ELSE cleaning.limit)

\* filterOrphanCandidates: a path that contains the id of an entry is no orphan.
Known(c) == \E r \in listed.entries : <<c, r>> \in MentionedIn

ScanChildren ==
    /\ cleaning.at = "abandon" /\ cleaning.left = {}
    /\ cleaning' = [cleaning EXCEPT
                      !.at = IF cleaning.dry THEN "done" ELSE "remove",
                      !.found = {c \in Children : Expired(c) /\ (cleaning.orphans => ~Known(c))},
                      !.seen = {r \in Tracked : phase[r] # "none"},
                      !.day = today]
    /\ UNCHANGED <<today, modified, phase, listed, cleans, born>>

\* cleanupArtifacts takes the candidates as they are now.  A removal that fails
\* is counted as kept.
RemoveChild(c) ==
    /\ cleaning.at = "remove" /\ c \in cleaning.found
    /\ There(c)
    /\ cleaning' = [cleaning EXCEPT !.found = @ \ {c}]
    /\ modified' = [modified EXCEPT ![c] = Gone]
    /\ phase' = IF c = "runs" THEN [r \in Tracked |-> "none"] ELSE phase
    /\ listed' = IF c = "index" THEN EmptyList ELSE listed
    /\ UNCHANGED <<today, cleans, born>>

KeepChild(c) ==
    /\ cleaning.at = "remove" /\ c \in cleaning.found
    /\ cleaning' = [cleaning EXCEPT !.found = @ \ {c}]
    /\ UNCHANGED <<today, modified, phase, listed, cleans, born>>

\* It has gone through its candidates, or its session ends.
EndClean ==
    /\ cleaning.at # "idle"
    /\ cleaning' = NotCleaning
    /\ UNCHANGED <<today, modified, phase, listed, cleans, born>>

CleaningNext ==
    \/ NewDay
    \/ \E r \in Tracked :
          \/ CreateRunDirectory(r) \/ RunGoesOn(r) \/ ListRunStarted(r) \/ DelistRun(r)
          \/ CleanOnEntry(ChangeOf[r]) \/ AbandonListed(r)
    \/ \E dry \in BOOLEAN, orphans \in BOOLEAN, limit \in {StaleDays} \cup OlderThan :
          Clean(dry, orphans, limit)
    \/ ScanChildren
    \/ \E c \in Children : RemoveChild(c) \/ KeepChild(c)
    \/ EndClean

CleaningSpec == CleaningInit /\ [][CleaningNext]_cleaningVars

-----------------------------------------------------------------------------
(* Properties                                                              *)

CleaningTypeOK ==
    /\ modified \in [Children -> 0..Gone]
    /\ phase \in [Tracked -> {"none", "pending", "executing", "completed"}]
    /\ listed \in [entries : SUBSET Tracked, unfinished : SUBSET Tracked]
    /\ cleaning.at \in {"idle", "abandon", "remove", "done"}

Removed(r) == phase[r] # "none" /\ phase'[r] = "none"

\* The age of runs speaks for its youngest run: no cleanup takes the run.json of
\* a run that was there when it looked and had been created within the days it
\* was to spare.
RecentRunsKept ==
    [][\A r \in Tracked :
          Removed(r) /\ r \in cleaning.seen => cleaning.day - born[r] > cleaning.limit]_cleaningVars

\* The mode fragment of the command: runs marked as running or pending are never
\* cleaned.
RunsUnderWayKept ==
    [][\A r \in Tracked : Removed(r) => phase[r] = "completed"]_cleaningVars
=============================================================================
