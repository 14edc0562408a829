---------------------------- MODULE GroupCapture ----------------------------
(***************************************************************************)
(* captureGroupResult (group-result.ts): after a worker has ended, what it *)
(* changed in its worktree becomes the patch of its group: the difference  *)
(* between the base and HEAD, and that between HEAD and the files, with    *)
(* untracked files made known to the index for the time of the second.     *)
(*                                                                         *)
(* A worktree is captured again after a fix or a resume; the process may   *)
(* stop between two commands of git, each of which may fail, which the     *)
(* capture takes for no difference.                                        *)
(***************************************************************************)
EXTENDS Naturals

CONSTANTS
    Files,
    InScope,        \* scopedFiles: the files of the group's plan
    Excluded,       \* PATCH_EXCLUDE_PATTERNS
    NoPatch

ASSUME GroupCaptureAssumption == InScope \subseteq Files /\ Excluded \subseteq Files

VARIABLES
    committed,      \* files that differ between the base and HEAD
    edited,         \* files that differ between HEAD and the worktree
    index,          \* what the index knows of each file
    capturing,      \* where the capture is
    added,          \* hadIntentToAdd
    changedFiles,
    parts,          \* the differences it has
    patchFile,      \* patches/<group>.patch
    gitFailed       \* ghost: has a command failed in this capture

workVars == <<committed, edited, index>>
captureVars == <<workVars, capturing, added, changedFiles, parts, patchFile, gitFailed>>

Layers == {"committed", "edited"}
Diffs == SUBSET (Files \X Layers)

CaptureTypeOK ==
    /\ committed \subseteq Files /\ edited \subseteq Files
    /\ index \in [Files -> {"tracked", "staged", "intent", "untracked"}]
    /\ capturing \in {"no", "list", "base", "intent", "head", "reset", "write", "done"}
    /\ added \in BOOLEAN /\ gitFailed \in BOOLEAN
    /\ changedFiles \subseteq Files /\ parts \in Diffs /\ patchFile \in Diffs \cup {NoPatch}

CaptureInit ==
    /\ committed = {} /\ edited = {}
    /\ index \in [Files -> {"tracked", "untracked"}]
    /\ capturing = "no" /\ added = FALSE /\ changedFiles = {} /\ parts = {}
    /\ patchFile = NoPatch /\ gitFailed = FALSE

\* The worker edits or creates a file, stages a new one, or commits what git tracks.
WorkerWorks ==
    /\ capturing \in {"no", "done"} /\ capturing' = "no"
    /\ \/ \E f \in Files \ edited : edited' = edited \cup {f} /\ UNCHANGED <<committed, index>>
       \/ \E f \in edited :
            /\ index[f] \in {"untracked", "intent"}
            /\ index' = [index EXCEPT ![f] = "staged"] /\ UNCHANGED <<committed, edited>>
       \/ LET S == {f \in edited : index[f] \in {"tracked", "staged"}} IN
            /\ S # {}
            /\ committed' = committed \cup S /\ edited' = edited \ S
            /\ index' = [f \in Files |-> IF f \in S THEN "tracked" ELSE index[f]]
    /\ UNCHANGED <<added, changedFiles, parts, patchFile, gitFailed>>

BeginCapture ==
    /\ capturing \in {"no", "done"} /\ capturing' = "list"
    /\ changedFiles' = {} /\ parts' = {} /\ added' = FALSE /\ gitFailed' = FALSE
    /\ UNCHANGED <<workVars, patchFile>>

Untracked == {f \in edited : index[f] = "untracked"}
Tracked == {f \in edited : index[f] # "untracked"}

\* git diff with the scope, without it when that fails, and nothing when both fail.
Diffed(S, D) == \/ D = (S \cap InScope) \ Excluded /\ UNCHANGED gitFailed
                \/ D \in {S \ Excluded, {}} /\ gitFailed' = TRUE

\* getChangedFiles: untracked files are listed in the scope or not.
ListChanged ==
    /\ capturing = "list" /\ capturing' = "base"
    /\ \E D \in SUBSET Files, U \in {Untracked, {}} :
        /\ changedFiles' = D \cup U
        /\ IF U = Untracked THEN Diffed(committed \cup Tracked, D)
                            ELSE gitFailed' = TRUE /\ D = (committed \cap InScope) \ Excluded
    /\ UNCHANGED <<workVars, added, parts, patchFile>>

\* writeBinaryPatch
DiffBase ==
    /\ capturing = "base" /\ capturing' = "intent"
    /\ \E D \in SUBSET committed : parts' = D \X {"committed"} /\ Diffed(committed, D)
    /\ UNCHANGED <<workVars, added, changedFiles, patchFile>>

\* git add -N, file by file, of all untracked files.
AddIntent ==
    /\ capturing = "intent" /\ capturing' = "head"
    /\ \E S \in SUBSET Untracked :
        /\ index' = [f \in Files |-> IF f \in S THEN "intent" ELSE index[f]]
        /\ added' = (S = Untracked /\ S # {})
        /\ gitFailed' = (gitFailed \/ S # Untracked)
    /\ UNCHANGED <<committed, edited, changedFiles, parts, patchFile>>

DiffHeadOfKnown ==
    /\ capturing = "head" /\ capturing' = "reset"
    /\ LET known == {f \in edited : index[f] = "tracked"} IN
       \E D \in SUBSET known : parts' = parts \cup (D \X {"edited"}) /\ Diffed(known, D)
    /\ UNCHANGED <<workVars, added, changedFiles, patchFile>>
DiffHead ==
    /\ capturing = "head" /\ capturing' = "reset"
    /\ \E D \in SUBSET Tracked : parts' = parts \cup (D \X {"edited"}) /\ Diffed(Tracked, D)
    /\ UNCHANGED <<workVars, added, changedFiles, patchFile>>

\* git reset unstages what the worker had staged as well.
ResetIndex ==
    /\ capturing = "reset" /\ capturing' = "write"
    /\ \/ /\ added
          /\ index' = [f \in Files |-> IF index[f] = "tracked" THEN "tracked" ELSE "untracked"]
          /\ UNCHANGED gitFailed
       \/ /\ gitFailed' = (gitFailed \/ added) /\ UNCHANGED index
    /\ UNCHANGED <<committed, edited, added, changedFiles, parts, patchFile>>

WritePatch ==
    /\ capturing = "write" /\ capturing' = "done"
    /\ patchFile' = parts
    /\ UNCHANGED <<workVars, added, changedFiles, parts, gitFailed>>

CaptureStops ==
    /\ capturing \notin {"no", "done"} /\ capturing' = "no"
    /\ UNCHANGED <<workVars, added, changedFiles, parts, patchFile, gitFailed>>

CaptureNext ==
    \/ WorkerWorks \/ BeginCapture \/ ListChanged \/ DiffBase \/ AddIntent \/ DiffHead \/ ResetIndex
    \/ WritePatch \/ CaptureStops

CaptureSpec == CaptureInit /\ [][CaptureNext]_captureVars

-----------------------------------------------------------------------------
\* Unless git failed, a patch holds all that the worker committed, changed, staged or
\* created within the scope and nothing else, and the files of the patch are listed; also
\* when an earlier capture of the worktree stopped and left its marks in the index.
CaptureIsWhole ==
    capturing = "done" /\ ~gitFailed =>
        LET scope == InScope \ Excluded IN
        /\ patchFile = ((committed \cap scope) \X {"committed"}) \cup ((edited \cap scope) \X {"edited"})
        /\ (committed \cup edited) \cap scope \subseteq changedFiles
=============================================================================
