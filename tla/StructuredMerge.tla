--------------------------- MODULE StructuredMerge ---------------------------
(***************************************************************************)
(* The second strategy of the apply-back cascade: files in which git left  *)
(* conflict markers are rewritten, region by region, by the first of three *)
(* rules that applies (structured-merge-strategy.ts).                      *)
(*                                                                         *)
(* A file is a sequence of lines.  Of a line only these count: whether it  *)
(* is an import, which lines are the same import, which key of a           *)
(* configuration it sets, whether it starts with a minus sign, and whether *)
(* it starts as a divider does.                                            *)
(***************************************************************************)
EXTENDS Integers, SequencesExt, Sublists

CONSTANTS
    Lines,        \* lines that are no markers
    Imports,      \* import and require lines
    SameImport,   \* the dedup key of a line
    KeyOf,        \* the key a line sets, or NoKey
    NoKey,
    Dashed,       \* lines that start with "-"
    LikeDivider,  \* lines that start with a divider and go on
    Sides         \* what a side of a conflict may be; a line may be that of a divider

\* The markers of git.
Ours == "<<<<<<< "
Divider == "="    \* stands for seven of them
Theirs == ">>>>>>> "
FileLines == Lines \cup {Ours, Divider, Theirs}

ASSUME StructuredMergeAssumption ==
    /\ {Ours, Divider, Theirs} \cap Lines = {} /\ \E l \in Lines : l \notin Imports
    /\ Sides \subseteq Seq(Lines \cup {Divider})
    /\ Imports \cup Dashed \cup LikeDivider \subseteq Lines
    /\ DOMAIN SameImport = Lines /\ DOMAIN KeyOf = Lines

VARIABLES
    conflict,     \* ghost: the sides of the two conflicts that git left
    configFile,   \* is it one of the configuration files with keys
    text,         \* the file
    merged,       \* where resolveFileConflicts is, or what it returned
    sorted,       \* the regions that a rule applies to and that are not replaced yet
    currentLines  \* the lines to be written

structuredVars == <<conflict, configFile, text, merged, sorted, currentLines>>

\* What git leaves of two conflicts, with a line of neither between them.
Marked(c) == <<Ours>> \o c.ours \o <<Divider>> \o c.theirs \o <<Theirs>>
Between == CHOOSE l \in Lines : l \notin Imports
WithConflicts(cs) == Marked(cs[1]) \o <<Between>> \o Marked(cs[2])

StructuredInit ==
    /\ conflict \in [1..2 -> {c \in [ours : Sides, theirs : Sides] : c.ours # c.theirs}]
    /\ configFile \in BOOLEAN
    /\ text = WithConflicts(conflict)
    /\ merged = "no" /\ sorted = {} /\ currentLines = <<>>

\* ---- detectConflictRegions

\* The first line from i on that is one of some, or the end of the file.
IsFirstFrom(ls, i, j) ==
    /\ j \in i..Len(text) /\ text[j] \in ls
    /\ \A h \in i..j - 1 : text[h] \notin ls
FirstFrom(ls, i) ==
    IF \E j \in i..Len(text) : text[j] \in ls
    THEN CHOOSE j \in i..Len(text) : IsFirstFrom(ls, i, j)
    ELSE Len(text) + 1

\* The sides end at the first line that starts as their marker does.
RegionAt(i) ==
    LET mid == FirstFrom({Divider} \cup LikeDivider, i + 1)
        end == FirstFrom({Theirs}, mid + 1)
    IN  [start |-> i, end |-> end,
         ours |-> SubSeq(text, i + 1, mid - 1), theirs |-> SubSeq(text, mid + 1, end - 1)]

Regions == {RegionAt(i) : i \in {j \in DOMAIN text : text[j] = Ours}}

StructuredTypeOK ==
    /\ conflict \in [1..2 -> [ours : Sides, theirs : Sides]] /\ configFile \in BOOLEAN
    /\ text \in Seq(FileLines) /\ currentLines \in Seq(FileLines)
    /\ merged \in {"no", "replacing", "resolved", "conflicted"}
    /\ sorted \subseteq Regions

\* ---- the rules, of which Refused says that a rule does not apply

Refused == <<Ours>>
IsMarker(l) == l \in {Ours, Divider, Theirs}
IsImport(l) == ~IsMarker(l) /\ l \in Imports

SameLine(l, m) == l = m \/ (~IsMarker(l) /\ ~IsMarker(m) /\ SameImport[l] = SameImport[m])

\* The first of the lines that are the same, imports or not.
Deduplicated(s) ==
    Picked(s, {i \in DOMAIN s : ~\E j \in 1..i - 1 : SameLine(s[j], s[i])})

AllImports(s) == \A i \in DOMAIN s : IsImport(s[i])
ResolveImports(r) ==
    IF (\E l \in Range(r.ours \o r.theirs) : IsImport(l)) /\ (AllImports(r.ours) \/ AllImports(r.theirs))
    THEN Deduplicated(r.ours \o r.theirs)
    ELSE Refused

KeysIn(s) == {KeyOf[l] : l \in Range(s) \cap Lines} \ {NoKey}
ResolveConfig(r) ==
    IF configFile /\ KeysIn(r.ours \o r.theirs) # {} /\ KeysIn(r.ours) \cap KeysIn(r.theirs) = {}
    THEN r.ours \o r.theirs
    ELSE Refused

\* Lines the two sides share make it refuse, and minus signs on both sides.
ResolveAdditions(r) ==
    LET removes(s) == Range(s) \cap Dashed # {}
    IN  IF (removes(r.ours) /\ removes(r.theirs)) \/ Range(r.ours) \cap Range(r.theirs) # {}
        THEN Refused
        ELSE r.ours \o r.theirs

Resolution(r) ==
    CASE ResolveImports(r) # Refused -> ResolveImports(r)
      [] ResolveConfig(r) # Refused -> ResolveConfig(r)
      [] OTHER -> ResolveAdditions(r)

\* ---- writeResolvedContent

ReplacedPastEnd(s, r) ==
    SubSeq(s, 1, r.start - 1) \o Resolution(r) \o SubSeq(s, r.end + 2, Len(s))
Replaced(s, r) == SubSeq(s, 1, r.start - 1) \o Resolution(r) \o SubSeq(s, r.end + 1, Len(s))

HasMarkers(s) == \E i \in DOMAIN s : IsMarker(s[i])

\* ---- resolveFileConflicts: the regions are found in the file as it is, replaced from
\* the bottom up, and the file is written

FindRegions ==
    /\ merged = "no"
    /\ sorted' = {r \in Regions : Resolution(r) # Refused}
    /\ currentLines' = text
    /\ merged' = "replacing"
    /\ UNCHANGED <<conflict, configFile, text>>

ReplaceRegion(r) ==
    /\ merged = "replacing" /\ r \in sorted
    /\ \A q \in sorted : q.start <= r.start
    /\ currentLines' = Replaced(currentLines, r)
    /\ sorted' = sorted \ {r}
    /\ UNCHANGED <<conflict, configFile, text, merged>>

WriteResolved ==
    /\ merged = "replacing" /\ sorted = {}
    /\ text' = currentLines
    /\ merged' = IF HasMarkers(text') THEN "conflicted" ELSE "resolved"
    /\ UNCHANGED <<conflict, configFile, sorted, currentLines>>

StructuredNext == FindRegions \/ (\E r \in sorted : ReplaceRegion(r)) \/ WriteResolved

StructuredSpec == StructuredInit /\ [][StructuredNext]_structuredVars

-----------------------------------------------------------------------------
\* Each line of the sides is there, imports in one form or another.
Keeps(s, side) ==
    \A i \in DOMAIN side : \E j \in DOMAIN s : SameLine(s[j], side[i])

\* A file that is called resolved has every line of both sides of every conflict and
\* what stood between them in its place: between the lines of the first conflict and
\* those of the second, also when the first has grown or shrunk.
ResolvedLosesNothing ==
    merged = "resolved" =>
        \E m \in DOMAIN text :
            /\ text[m] = Between
            /\ Keeps(SubSeq(text, 1, m - 1), conflict[1].ours \o conflict[1].theirs)
            /\ Keeps(SubSeq(text, m + 1, Len(text)), conflict[2].ours \o conflict[2].theirs)

\* "What this strategy does NOT resolve: Same config key changed to different values"
\* (structured-merge-strategy.ts:18-20).
SameKeyIsLeftAlone ==
    \A i \in 1..2 :
        configFile /\ merged = "resolved" => KeysIn(conflict[i].ours) \cap KeysIn(conflict[i].theirs) = {}
=============================================================================
