------------------------------ MODULE MCPatches ------------------------------
(* How the work of groups becomes one change of the repository and is read   *)
(* by reviewers: the capture of a worktree, the merge of the groups in a     *)
(* worktree of its own, the resolution of conflict markers by rules, the     *)
(* review of code and that of a pull request.  They share nothing but files: *)
(* focus chooses the one a behaviour is about, and the others stand still in *)
(* one of their first states.                                                *)
EXTENDS GroupCapture, IntegrationMerge, StructuredMerge, CodeReview, PrReview

VARIABLE focus

mcVars == <<focus, captureVars, integrationVars, structuredVars, reviewVars, prVars>>

\* Two forms of one import, two values of one key, another key, a list item, text and
\* the underline of a title.
TextLines == {"import a", "import 'a'", "a: 1", "a: 2", "b: 1", "-x", "y", "=="}
SameImports == [l \in TextLines |-> IF l = "import 'a'" THEN "import a" ELSE l]
LineKeys == [l \in TextLines |->
    CASE l \in {"a: 1", "a: 2"} -> "a" [] l = "b: 1" -> "b" [] OTHER -> "none"]
ConflictSides ==
    {<<>>} \cup {<<l>> : l \in TextLines \ {"=="}}
           \cup {<<"import a", "y">>, <<"-x", "y">>, <<"y", Divider>>, <<"y", "==">>}

\* Patches of one hunk and of two, with lines removed, added and kept, a removed line
\* that looks like a file's name, the names themselves, and a binary file's.
Line(c) == [sign |-> c, start |-> 0]
Hunk(n) == [sign |-> Header, start |-> n]
PatchesOfFiles ==
    {<<Hunk(3), Line(" "), Line("-"), Line("+"), Line(Aside)>>,
     <<Line("---"), Line("+++"), Hunk(1), Line("-"), Line("+"), Line("+"),
       Hunk(9), Line("---"), Line("-"), Line(" ")>>,
     <<Hunk(1), Line("+")>>, <<>>}

NoConflict == [ours |-> <<>>, theirs |-> <<"y">>]

MCInit ==
    /\ focus \in {"capture", "merge", "rules", "review", "pull request"}
    /\ CaptureInit /\ (focus # "capture" => index = [f \in Files |-> "tracked"])
    /\ IF focus = "merge"
       THEN IntegrationInit
       ELSE /\ patchOf = [g \in MergeGroups |-> 0] /\ shared = {} /\ clashing = {} /\ stacked = {}
            /\ branch = [b \in BranchNames |-> Absent] /\ worktree = Absent
            /\ merging = "no" /\ turn = 1 /\ consolidated = Absent
    /\ IF focus = "rules"
       THEN StructuredInit
       ELSE /\ conflict = <<NoConflict, NoConflict>> /\ configFile = FALSE
            /\ text = <<>> /\ merged = "no" /\ sorted = {} /\ currentLines = <<>>
    /\ ReviewInit
    /\ PrReviewInit /\ (focus # "pull request" => runner = "shell")

MCNext ==
    \/ /\ focus = "capture" /\ CaptureNext
       /\ UNCHANGED <<focus, integrationVars, structuredVars, reviewVars, prVars>>
    \/ /\ focus = "merge" /\ IntegrationNext
       /\ UNCHANGED <<focus, captureVars, structuredVars, reviewVars, prVars>>
    \/ /\ focus = "rules" /\ StructuredNext
       /\ UNCHANGED <<focus, captureVars, integrationVars, reviewVars, prVars>>
    \/ /\ focus = "review" /\ ReviewNext
       /\ UNCHANGED <<focus, captureVars, integrationVars, structuredVars, prVars>>
    \/ /\ focus = "pull request" /\ PrReviewNext
       /\ UNCHANGED <<focus, captureVars, integrationVars, structuredVars, reviewVars>>

MCSpec == MCInit /\ [][MCNext]_mcVars
=============================================================================
