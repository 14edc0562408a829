------------------------------- MODULE PrReview -------------------------------
(***************************************************************************)
(* The review of a pull request (pi-zflow-review: pr.ts, chunking.ts,      *)
(* runPrReview).  Its changed files are fetched page by page and cut into  *)
(* chunks that reviewers read one each, and what they find is brought from *)
(* places in a patch to lines of the new file.                             *)
(*                                                                         *)
(* A file is its patch, and a patch its lines: of a line only its first    *)
(* characters count, and the start of the hunk if it is a header.  The     *)
(* hosting platform, its command line tool and the reviewers are external. *)
(***************************************************************************)
EXTENDS Integers, SequencesExt, Sublists

CONSTANTS
    Patches,        \* the patches a file may have
    MaxFiles,       \* bound: files of a pull request
    PageSize,       \* per_page
    MaxPages,       \* maxPages
    ChunkFiles,     \* maxFilesPerChunk
    ChunkLines,     \* maxLinesPerChunk
    Runners         \* who runs the fetch commands: "shell", "caller"

Header == "@@"      \* the header of a hunk
Aside == "\\"       \* "\ No newline at end of file"
Kept == {"+", "+++", " "}   \* lines of the new file; other lines are not

PatchLines == [sign : {Header, Aside, "-", "---"} \cup Kept, start : Nat]

ASSUME PrReviewAssumption ==
    /\ Patches \subseteq Seq(PatchLines)
    /\ MaxFiles \in Nat /\ PageSize \in Nat \ {0} /\ MaxPages \in Nat \ {0}
    /\ ChunkFiles \in Nat \ {0} /\ ChunkLines \in Nat
    /\ Runners \subseteq {"shell", "caller"} /\ Runners # {}

VARIABLES
    prStage,
    files,          \* the pull request: the patch of each file
    runner,         \* what runs the fetch commands
    fetched,        \* the files fetched, by their numbers
    page,
    chunks,         \* sequences of files
    packed,         \* how many of the fetched files are in a chunk or in the group
    group,          \* currentFileGroup, with its currentLines
    groupLines,
    lineMaps,       \* for each fetched file the line of each place; 0 where there is none
    scan,           \* the file and the line buildLineMap reads, inHunk, newLineNum
    unread,         \* chunks whose review has not settled
    comments        \* [file, index, line]: the place found, the line it is given

packVars == <<chunks, packed, group, groupLines>>
mapVars == <<lineMaps, scan>>
readVars == <<unread, comments>>
prVars == <<prStage, files, runner, fetched, page, packVars, mapVars, readVars>>

PatchOf(k) == files[fetched[k]]
ToRead(k) == [file |-> k, line |-> 1, inHunk |-> FALSE, next |-> 0]

PrReviewTypeOK ==
    /\ prStage \in {"no", "fetch", "chunk", "map", "read"}
    /\ files \in BoundedSeq(Patches, MaxFiles) /\ runner \in Runners
    /\ fetched \in Seq(DOMAIN files)
    /\ page \in 0..MaxPages + 1
    /\ chunks \in Seq(Seq(DOMAIN files)) /\ packed \in 0..Len(fetched)
    /\ group \in Seq(DOMAIN files) /\ groupLines \in 0..ChunkLines
    /\ lineMaps \in Seq(Seq(Nat))
    /\ scan \in [file : Nat, line : Nat, inHunk : BOOLEAN, next : Nat]
    /\ unread \subseteq DOMAIN chunks
    /\ comments \subseteq [file : DOMAIN files, index : Nat, line : Nat]

PrReviewInit ==
    /\ prStage = "no" /\ files = <<>> /\ runner \in Runners
    /\ fetched = <<>> /\ page = 0
    /\ chunks = <<>> /\ packed = 0 /\ group = <<>> /\ groupLines = 0
    /\ lineMaps = <<>> /\ scan = ToRead(1)
    /\ unread = {} /\ comments = {}

\* The URL is parsed and the user's login checked: without either the command ends.
OpenPr ==
    /\ prStage = "no"
    /\ files' \in BoundedSeq(Patches, MaxFiles)
    /\ prStage' = "fetch" /\ page' = 1
    /\ UNCHANGED <<runner, fetched, packVars, mapVars, readVars>>

-----------------------------------------------------------------------------
(* Fetching                                                                *)

PageOf(n) ==
    Picked([i \in DOMAIN files |-> i],
           {f \in DOMAIN files : f > (n - 1) * PageSize /\ f <= n * PageSize})

\* The commands of later pages end in "&page=n", which a shell takes for a command of
\* its own: what it prints is the first page again.
Served(n) == IF runner = "shell" THEN PageOf(1) ELSE PageOf(n)

\* A full first page is followed by others, until one is empty, or fails to load, or
\* there are as many as may be.  The first must load.
FetchPage ==
    /\ prStage = "fetch"
    /\ \/ /\ fetched' = fetched \o Served(page)
          /\ page' = page + 1
          /\ prStage' = IF \/ Served(page) = <<>> \/ page = MaxPages
                           \/ page = 1 /\ Len(Served(1)) < PageSize
                        THEN "chunk" ELSE "fetch"
       \/ /\ page > 1 /\ prStage' = "chunk"
          /\ UNCHANGED <<fetched, page>>
    /\ UNCHANGED <<files, runner, packVars, mapVars, readVars>>

NothingFetched ==
    /\ prStage = "fetch" /\ page = 1
    /\ prStage' = "no" /\ files' = <<>> /\ page' = 0
    /\ UNCHANGED <<runner, fetched, packVars, mapVars, readVars>>

-----------------------------------------------------------------------------
(* Chunks: chunkDiff, one file a step                                      *)

\* estimateChunkSize: a changed line that looks like the name of a file is not counted.
Changed(patch) == {i \in DOMAIN patch : patch[i].sign \in {"+", "-"}}
Size(f) == Cardinality(Changed(files[f]))

Flushed == IF group = <<>> THEN chunks ELSE Append(chunks, group)

\* A file over the limit is a chunk of its own, after the open group.
OwnChunkUnflushed(f) ==
    /\ Size(f) > ChunkLines
    /\ chunks' = Append(chunks, <<f>>)
    /\ UNCHANGED <<group, groupLines>>
OwnChunk(f) ==
    /\ Size(f) > ChunkLines
    /\ chunks' = Append(Flushed, <<f>>)
    /\ group' = <<>> /\ groupLines' = 0

HasRoom(f) == Len(group) < ChunkFiles /\ groupLines + Size(f) <= ChunkLines

JoinGroup(f) ==
    /\ Size(f) <= ChunkLines /\ HasRoom(f)
    /\ group' = Append(group, f) /\ groupLines' = groupLines + Size(f)
    /\ UNCHANGED chunks
OpenGroup(f) ==
    /\ Size(f) <= ChunkLines /\ ~HasRoom(f)
    /\ chunks' = Flushed
    /\ group' = <<f>> /\ groupLines' = Size(f)

PackFile ==
    /\ prStage = "chunk" /\ packed < Len(fetched)
    /\ packed' = packed + 1
    /\ LET f == fetched[packed + 1] IN OwnChunk(f) \/ JoinGroup(f) \/ OpenGroup(f)
    /\ UNCHANGED <<prStage, files, runner, fetched, page, mapVars, readVars>>

\* The last group is flushed, and buildChunkLineMaps goes over the files.
FlushLast ==
    /\ prStage = "chunk" /\ packed = Len(fetched)
    /\ chunks' = Flushed /\ group' = <<>> /\ groupLines' = 0
    /\ lineMaps' = [k \in DOMAIN fetched |-> <<>>] /\ scan' = ToRead(1)
    /\ prStage' = "map"
    /\ UNCHANGED <<files, runner, fetched, page, packed, readVars>>

-----------------------------------------------------------------------------
(* Line maps: buildLineMap, one line a step                                *)

Reading(signs) ==
    /\ prStage = "map" /\ scan.file <= Len(fetched)
    /\ scan.line <= Len(PatchOf(scan.file))
    /\ PatchOf(scan.file)[scan.line].sign \in signs

ReadHeader ==
    /\ Reading({Header})
    /\ scan' = [scan EXCEPT !.line = @ + 1, !.inHunk = TRUE,
                            !.next = PatchOf(scan.file)[scan.line].start]
    /\ UNCHANGED lineMaps

\* What precedes the first hunk is no place, nor is the note on the end of the file.
SkipLine ==
    /\ Reading(IF scan.inHunk THEN {Aside} ELSE Kept \cup {"-", "---", Aside})
    /\ scan' = [scan EXCEPT !.line = @ + 1]
    /\ UNCHANGED lineMaps

ReadKept ==
    /\ scan.inHunk /\ Reading(Kept)
    /\ lineMaps' = [lineMaps EXCEPT ![scan.file] = Append(@, scan.next)]
    /\ scan' = [scan EXCEPT !.line = @ + 1, !.next = @ + 1]

\* A removed line is a place, but no line of the new file.
ReadRemovedAsLine ==
    /\ scan.inHunk /\ Reading({"-", "---"})
    /\ lineMaps' = [lineMaps EXCEPT ![scan.file] = Append(@, 0)]
    /\ scan' = [scan EXCEPT !.line = @ + 1, !.next = @ + 1]
ReadRemoved ==
    /\ scan.inHunk /\ Reading({"-", "---"})
    /\ lineMaps' = [lineMaps EXCEPT ![scan.file] = Append(@, 0)]
    /\ scan' = [scan EXCEPT !.line = @ + 1]

NextPatch ==
    /\ prStage = "map" /\ scan.file <= Len(fetched)
    /\ scan.line > Len(PatchOf(scan.file))
    /\ scan' = ToRead(scan.file + 1)
    /\ UNCHANGED lineMaps

MapLines ==
    /\ ReadHeader \/ SkipLine \/ ReadKept \/ ReadRemoved \/ NextPatch
    /\ UNCHANGED <<prStage, files, runner, fetched, page, packVars, readVars>>

\* All chunks are sent to reviewers at once.
SendChunks ==
    /\ prStage = "map" /\ scan.file > Len(fetched)
    /\ unread' = DOMAIN chunks
    /\ prStage' = "read"
    /\ UNCHANGED <<files, runner, fetched, page, packVars, mapVars, comments>>

-----------------------------------------------------------------------------
(* Comments                                                                *)

\* A reviewer names the file and the place in its patch, or the file's line: which is
\* looked up, to the same end.  A file that is not named is known when it is alone.
\* What names neither place nor line (index 0) is taken to be about the first place.
ReadChunk(n) ==
    /\ prStage = "read" /\ n \in unread
    /\ unread' = unread \ {n}
    /\ \/ UNCHANGED comments
       \/ \E k \in DOMAIN fetched : \E i \in DOMAIN lineMaps[k] :
            /\ \E j \in DOMAIN chunks[n] : chunks[n][j] = fetched[k]
            /\ \E named \in {i} \cup (IF i = 1 THEN {0} ELSE {}) :
                 comments' = comments \cup
                     {[file |-> fetched[k], index |-> named, line |-> lineMaps[k][i]]}
    /\ UNCHANGED <<prStage, files, runner, fetched, page, packVars, mapVars>>

\* The comments are written to the report of this review, and the command is over.
FinishPr ==
    /\ prStage = "read" /\ unread = {}
    /\ prStage' = "no" /\ files' = <<>> /\ fetched' = <<>> /\ page' = 0
    /\ chunks' = <<>> /\ packed' = 0 /\ lineMaps' = <<>> /\ scan' = ToRead(1)
    /\ comments' = {}
    /\ UNCHANGED <<runner, group, groupLines, unread>>

PrReviewNext ==
    \/ OpenPr \/ FetchPage \/ NothingFetched
    \/ PackFile \/ FlushLast \/ MapLines \/ SendChunks
    \/ (\E n \in DOMAIN chunks : ReadChunk(n)) \/ FinishPr

PrReviewSpec == PrReviewInit /\ [][PrReviewNext]_prVars

-----------------------------------------------------------------------------
(* Properties                                                              *)

\* How many elements the sets of a sequence have together.
SizeOfAll(sets) == Cardinality(UNION {{k} \X sets[k] : k \in DOMAIN sets})

FilesIn(cs) == SizeOfAll([n \in DOMAIN cs |-> DOMAIN cs[n]])
ChangedIn(chunk) == SizeOfAll([k \in DOMAIN chunk |-> Changed(files[chunk[k]])])
Before(n) == FilesIn(SubSeq(chunks, 1, n - 1))

\* Whatever was fetched, every file of it is in the chunks as often and in the order
\* it was fetched, and no chunk is over a limit unless it is one file.
ChunksKeepFiles ==
    prStage = "read" =>
        /\ FilesIn(chunks) = Len(fetched)
        /\ \A n \in DOMAIN chunks :
              /\ \A j \in DOMAIN chunks[n] : chunks[n][j] = fetched[Before(n) + j]
              /\ Len(chunks[n]) \in 1..ChunkFiles
              /\ Len(chunks[n]) = 1 \/ ChangedIn(chunks[n]) <= ChunkLines

\* The places of a patch: its lines, but for headers, what precedes the first one, and
\* notes.
HeaderBefore(patch, i, h) == h \in 1..i - 1 /\ patch[h].sign = Header
Places(patch) ==
    {i \in DOMAIN patch : /\ patch[i].sign \notin {Header, Aside}
                          /\ \E h \in DOMAIN patch : HeaderBefore(patch, i, h)}

\* What a comment's line must be: lines of the new file are counted from the start of
\* the hunk the place is in.
HunkOf(patch, i) ==
    CHOOSE h \in DOMAIN patch :
        HeaderBefore(patch, i, h) /\ \A g \in DOMAIN patch : HeaderBefore(patch, i, g) => g <= h
NewLine(patch, i) ==
    IF patch[i].sign \in Kept
    THEN patch[HunkOf(patch, i)].start
         + Cardinality({l \in HunkOf(patch, i)..i - 1 : patch[l].sign \in Kept})
    ELSE 0

\* A comment is put on the line of the new file that it was made about, across hunks
\* and removed lines, and on none when that line was removed.  One that was made about
\* no line is put on that of the first place.
About(c) == IF c.index = 0 THEN 1 ELSE c.index
CommentsHitTheirLines ==
    \A c \in comments :
        c.line = NewLine(files[c.file], PositionAt(Places(files[c.file]), About(c)))

\* "Array of all PrFile entries across all pages" (pr.ts:428): each file of the pull
\* request is fetched once.
EachFileFetchedOnce == IsInjective(fetched)
=============================================================================
