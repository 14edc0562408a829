---------------------------- MODULE AnalysisCache ----------------------------
(***************************************************************************)
(* repo-map.md and reconnaissance.md, which planners read instead of the   *)
(* repository: orchestration/planning/repo-analysis.ts builds them,        *)
(* repo-map-cache.ts and recon-cache.ts say whether the ones on disk may   *)
(* be used again.  A description is written in place, then the hash of the *)
(* structure is taken and written, in place, with its metadata.            *)
(*                                                                         *)
(* Sessions prepare plans on one repository at the same time, which        *)
(* changes meanwhile: branches are switched, commits made.  A session may  *)
(* end anywhere.  A structure is what computeRepoStructureHash sees; two   *)
(* of them differ in their hash.  A directory outside git has a hash of    *)
(* its own at every look, and is never described from the cache.           *)
(***************************************************************************)
EXTENDS Naturals

CONSTANTS
    Analysts,       \* sessions that prepare plans
    Descriptions,   \* "map" and "recon"
    Paths,          \* change paths a reconnaissance may be about
    Structures,     \* structures the repository goes through, back and forth
    MaxMoves,       \* bound: changes of the structure
    MaxAnalyses,    \* bound: descriptions asked for
    Nothing         \* no file, no change path, no metadata

ASSUME AnalysisAssumption ==
    /\ Descriptions \subseteq {"map", "recon"}
    /\ MaxMoves \in Nat /\ MaxAnalyses \in Nat
    /\ Nothing \notin Structures \cup Paths

VARIABLES
    structure,  \* of the repository now
    written,    \* each description on disk: the structure and path it shows
    metadata,   \* its cache file: hash and path
    analyst,    \* what each session is doing
    moves,      \* changes and analyses so far
    author,     \* ghost: the session that last wrote each description
    spoilt,     \* ghost: is a description not known to belong to its metadata
    answer      \* ghost: the last description told fresh

analysisVars == <<structure, written, metadata, analyst, moves, author, spoilt, answer>>

\* A file that is being written, or was when its writer ended, shows Torn.
HalfWritten == "torn"
Shown == [of : Structures \cup {Nothing, HalfWritten},
          path : Paths \cup {Nothing}]
Metadata == [hash : Structures, path : Paths \cup {Nothing}] \cup {Nothing}

NoAnalysis == [at |-> "idle"]
Asked(d, p) == [at |-> "look", what |-> d, path |-> p, seen |-> Nothing,
                shows |-> Nothing, overtaken |-> FALSE]

AnalysisInit ==
    /\ structure \in Structures
    /\ written = [d \in Descriptions |-> [of |-> Nothing, path |-> Nothing]]
    /\ metadata = [d \in Descriptions |-> Nothing]
    /\ analyst = [a \in Analysts |-> NoAnalysis]
    /\ moves = [changes |-> 0, analyses |-> 0]
    /\ author = [d \in Descriptions |-> Nothing]
    /\ spoilt = [d \in Descriptions |-> FALSE]
    /\ answer = Nothing

At(a, l) == analyst[a].at = l
GoesOn(a, l) == analyst' = [analyst EXCEPT ![a].at = l]
Ends(a) == analyst' = [analyst EXCEPT ![a] = NoAnalysis]

-----------------------------------------------------------------------------
(* Is the description on disk fresh?                                       *)

\* The map is about the whole repository.
Ask(a, d, p) ==
    /\ At(a, "idle") /\ moves.analyses < MaxAnalyses
    /\ d = "map" => p = Nothing
    /\ analyst' = [analyst EXCEPT ![a] = Asked(d, p)]
    /\ moves' = [moves EXCEPT !.analyses = @ + 1]
    /\ UNCHANGED <<structure, written, metadata, author, spoilt, answer>>

\* readRepoMapCache, readReconCache: what cannot be parsed is no metadata.
LookUp(a) ==
    /\ At(a, "look")
    /\ LET m == metadata[analyst[a].what]
       IN  analyst' = [analyst EXCEPT ![a].seen = m,
                                      ![a].at = IF m = Nothing THEN "read" ELSE "decide"]
    /\ UNCHANGED <<structure, written, metadata, moves, author, spoilt, answer>>

IsFreshForAnyPath(b) ==
    /\ written[b.what].of # Nothing
    /\ b.seen.hash = structure

\* The file is there, it is about the path asked for, if any was, and the
\* structure has the hash it had.
IsFresh(b) ==
    /\ written[b.what].of # Nothing
    /\ b.path # Nothing => b.seen.path = b.path
    /\ b.seen.hash = structure

\* buildRepoMap reads the metadata again for the path of the map.
StillDescribed(b) == b.what = "map" => metadata[b.what] # Nothing

DecideFresh(a) ==
    LET b == analyst[a]
    IN  /\ At(a, "decide")
        /\ IF IsFresh(b) /\ StillDescribed(b)
           THEN /\ answer' = [shown |-> written[b.what], now |-> structure, path |-> b.path,
                              settled |-> ~spoilt[b.what] /\ metadata[b.what] = b.seen]
                /\ Ends(a)
           ELSE GoesOn(a, "read") /\ UNCHANGED answer
        /\ UNCHANGED <<structure, written, metadata, moves, author, spoilt>>

-----------------------------------------------------------------------------
(* Building it                                                             *)

\* Branch, HEAD, tree and status, then files of the repository; for a
\* reconnaissance the change path and what lies about it.
Read(a) ==
    /\ At(a, "read")
    /\ analyst' = [analyst EXCEPT ![a].at = "write", ![a].shows = structure]
    /\ UNCHANGED <<structure, written, metadata, moves, author, spoilt, answer>>

ReadForMap(a) == Read(a) /\ analyst[a].what = "map"
ReadForReconnaissance(a) == Read(a) /\ analyst[a].what = "recon"

\* fs.writeFile empties the file first.
BeginDescription(a) ==
    LET d == analyst[a].what
    IN  /\ At(a, "write")
        /\ written' = [written EXCEPT ![d] = [of |-> HalfWritten, path |-> Nothing]]
        /\ author' = [author EXCEPT ![d] = a]
        /\ spoilt' = [spoilt EXCEPT ![d] = TRUE]
        /\ GoesOn(a, "writing")
        /\ UNCHANGED <<structure, metadata, moves, answer>>

EndDescription(a) ==
    LET b == analyst[a]
    IN  /\ At(a, "writing")
        /\ written' = [written EXCEPT ![b.what] = [of |-> b.shows, path |-> b.path]]
        /\ author' = [author EXCEPT ![b.what] = a]
        /\ spoilt' = [spoilt EXCEPT ![b.what] = TRUE]
        /\ GoesOn(a, "hash")
        /\ UNCHANGED <<structure, metadata, moves, answer>>

\* computeRepoStructureHash, now and not when the repository was read; then the
\* metadata file is emptied ...
HashAndBegin(a) ==
    /\ At(a, "hash")
    /\ metadata' = [metadata EXCEPT ![analyst[a].what] = Nothing]
    /\ analyst' = [analyst EXCEPT ![a].at = "noting", ![a].seen = structure]
    /\ UNCHANGED <<structure, written, moves, author, spoilt, answer>>

\* ... and written.
EndMetadata(a) ==
    LET b == analyst[a]
    IN  /\ At(a, "noting")
        /\ metadata' = [metadata EXCEPT ![b.what] = [hash |-> b.seen, path |-> b.path]]
        /\ spoilt' = [spoilt EXCEPT ![b.what] = b.overtaken \/ author[b.what] # a]
        /\ Ends(a)
        /\ UNCHANGED <<structure, written, moves, author, answer>>

-----------------------------------------------------------------------------
(* What happens around it                                                  *)

Building(a) == \E l \in {"write", "writing", "hash"} : At(a, l)

\* A checkout, a commit, a file added or removed.
ChangeStructure ==
    /\ moves.changes < MaxMoves
    /\ structure' \in Structures \ {structure}
    /\ moves' = [moves EXCEPT !.changes = @ + 1]
    /\ analyst' = [a \in Analysts |->
                     IF Building(a) THEN [analyst[a] EXCEPT !.overtaken = TRUE] ELSE analyst[a]]
    /\ UNCHANGED <<written, metadata, author, spoilt, answer>>

\* A session ends, or its preparation throws.
StopAnalysis(a) ==
    /\ ~At(a, "idle")
    /\ Ends(a)
    /\ UNCHANGED <<structure, written, metadata, moves, author, spoilt, answer>>

\* /zflow-clean, or the user, removes a description no session is writing.
LoseDescription(d) ==
    /\ \A a \in Analysts : ~At(a, "writing")
    /\ written[d].of # Nothing
    /\ written' = [written EXCEPT ![d] = [of |-> Nothing, path |-> Nothing]]
    /\ UNCHANGED <<structure, metadata, analyst, moves, author, spoilt, answer>>

AnalysisNext ==
    \/ \E a \in Analysts :
          \/ \E d \in Descriptions, p \in Paths \cup {Nothing} : Ask(a, d, p)
          \/ LookUp(a) \/ DecideFresh(a) \/ ReadForMap(a) \/ ReadForReconnaissance(a)
          \/ BeginDescription(a) \/ EndDescription(a) \/ HashAndBegin(a) \/ EndMetadata(a)
          \/ StopAnalysis(a)
    \/ \E d \in Descriptions : LoseDescription(d)
    \/ ChangeStructure

AnalysisSpec == AnalysisInit /\ [][AnalysisNext]_analysisVars

-----------------------------------------------------------------------------
(* Properties                                                              *)

AnalysisTypeOK ==
    /\ structure \in Structures
    /\ written \in [Descriptions -> Shown]
    /\ metadata \in [Descriptions -> Metadata]
    /\ spoilt \in [Descriptions -> BOOLEAN]

\* A description that isRepoMapFresh or isReconFresh lets a planner use again
\* shows the repository as it is, whole and for the change path asked for,
\* whatever branches were switched and sessions cut off before, unless the build
\* behind it was overtaken by a change or by another build, or never ended; the
\* first build that is not, puts things right again.
FreshShowsPresent ==
    answer # Nothing /\ answer.settled =>
        /\ answer.shown.of = answer.now
        /\ answer.path # Nothing => answer.shown.path = answer.path
=============================================================================
