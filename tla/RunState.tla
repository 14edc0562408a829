------------------------------ MODULE RunState ------------------------------
(***************************************************************************)
(* pi-zflow-artifacts/src/run-state.ts: concurrent calls on one run.json   *)
(* of one Node process.  A call is a sequence of steps separated by        *)
(* awaits; between two of them any other call may run.                     *)
(*                                                                         *)
(*   updateRun(partial)     joins a chain of promises, one link per call,  *)
(*                          waits for the link before it, reads run.json,  *)
(*                          writes the merge to a temporary file, renames  *)
(*                          it over run.json and resolves its own link.    *)
(*   addGroupToRun, addRetainedArtifact (and the ledger writers built on   *)
(*   updateRun)             first read run.json OUTSIDE the chain, append  *)
(*                          to the array they saw, and hand the whole      *)
(*                          array to updateRun.                            *)
(*   createRun              checks that run.json is absent and writes the  *)
(*                          first document, outside the chain.             *)
(*                                                                         *)
(* A field value is the set of calls whose entry it holds.  readFile,      *)
(* writeFile and rename may fail; the process may crash at any point and   *)
(* a new process serves the calls not yet started.  The temporary file has *)
(* a name no other call uses (a UUID) and nobody reads it: of              *)
(* writeJsonAtomically only its two awaits and their failures remain.      *)
(***************************************************************************)
EXTENDS Naturals, FiniteSets

CONSTANTS
    Task,       \* calls on this run.json
    Field,      \* fields of the document that calls replace
    Creator,    \* the call to createRun (run ids are unique, so there is one)
    Appender,   \* the calls that read the array before joining the chain
    Target,     \* field replaced by each call
    NoDoc,      \* run.json does not exist
    None        \* no link

ASSUME RunStateAssumption ==
    /\ Creator \in Task
    /\ Appender \subseteq Task \ {Creator}
    /\ Target \in [Task -> Field]
    /\ NoDoc \notin [Field -> SUBSET Task]
    /\ None \notin Task

VARIABLES
    file,       \* content of run.json
    pc,         \* control point of each call
    waitsOn,    \* the link a call found in runStateWriteLocks and awaits
    lockTail,   \* the last link in runStateWriteLocks, None when deleted
    released,   \* calls whose own link has resolved
    arr,        \* array field as an appender read it, outside the chain
    partial,    \* argument handed to updateRun
    run,        \* document read while holding the chain
    pos,        \* ghost: place of a call among those that joined, 0 before
    joined,     \* ghost: number of calls that joined so far
    overlapped  \* ghost: calls that were under way together with another

chainVars == <<waitsOn, lockTail, released, pos, joined>>

vars == <<file, pc, chainVars, arr, partial, run, overlapped>>

Document == [Field -> SUBSET Task]

EmptyDoc == [f \in Field |-> {}]

\* Control points.  In "merge" and "rename" a call holds a document it read.
Holding == {"merge", "rename", "resolve", "reject"}
InLock == Holding \cup {"queued"}
Settled == {"done", "failed", "crashed", "unanswered"}
Running == {"creating", "renaming", "appended"} \cup InLock
PCs == {"idle"} \cup Running \cup Settled

InChain(t) == pc[t] \in InLock

TypeOK ==
    /\ file \in Document \cup {NoDoc}
    /\ pc \in [Task -> PCs]
    /\ waitsOn \in [Task -> Task \cup {None}]
    /\ lockTail \in Task \cup {None}
    /\ released \subseteq Task
    /\ arr \in [Task -> SUBSET Task]
    /\ partial \in [Task -> SUBSET Task]
    /\ run \in [Task -> Document]
    /\ pos \in [Task -> Nat]
    /\ joined \in Nat
    /\ overlapped \subseteq Task

Init ==
    /\ file = NoDoc
    /\ pc = [t \in Task |-> "idle"]
    /\ waitsOn = [t \in Task |-> None]
    /\ lockTail = None
    /\ released = {}
    /\ arr = [t \in Task |-> {}]
    /\ partial = [t \in Task |-> {}]
    /\ run = [t \in Task |-> EmptyDoc]
    /\ pos = [t \in Task |-> 0]
    /\ joined = 0
    /\ overlapped = {}

Goto(t, label) == pc' = [pc EXCEPT ![t] = label]

\* Bookkeeping of the ghost when call t starts.
NoteOverlap(t) ==
    LET others == {u \in Task \ {t} : pc[u] \in Running}
    IN overlapped' = IF others = {} THEN overlapped
                     ELSE overlapped \cup others \cup {t}

-----------------------------------------------------------------------------
(* createRun                                                               *)

\* fs.access: the call fails when run.json is already there.
CreateAccess ==
    /\ pc[Creator] = "idle"
    /\ Goto(Creator, IF file = NoDoc THEN "creating" ELSE "failed")
    /\ NoteOverlap(Creator)
    /\ UNCHANGED <<file, chainVars, arr, partial, run>>

CreateWriteTmp ==
    /\ pc[Creator] = "creating"
    /\ Goto(Creator, "renaming") \/ Goto(Creator, "failed")
    /\ UNCHANGED <<file, chainVars, arr, partial, run, overlapped>>

CreateRename ==
    /\ pc[Creator] = "renaming"
    /\ \/ file' = EmptyDoc /\ Goto(Creator, "done")
       \/ UNCHANGED file /\ Goto(Creator, "failed")
    /\ UNCHANGED <<chainVars, arr, partial, run, overlapped>>

-----------------------------------------------------------------------------
(* addGroupToRun, addRetainedArtifact: the read before updateRun           *)

ReadArray(t) ==
    /\ t \in Appender
    /\ pc[t] = "idle"
    /\ \/ /\ file # NoDoc
          /\ arr' = [arr EXCEPT ![t] = file[Target[t]]]
          /\ Goto(t, "appended")
       \/ UNCHANGED arr /\ Goto(t, "failed")
    /\ NoteOverlap(t)
    /\ UNCHANGED <<file, chainVars, partial, run>>

-----------------------------------------------------------------------------
(* updateRun under withRunStateWriteLock                                   *)

\* The synchronous prefix: take the current tail as the link to wait on and
\* become the tail.
JoinChain(t) ==
    /\ waitsOn' = [waitsOn EXCEPT ![t] = lockTail]
    /\ lockTail' = t
    /\ pos' = [pos EXCEPT ![t] = joined + 1]
    /\ joined' = joined + 1
    /\ UNCHANGED released

\* The field a call hands over: an appender's is the array it saw and its own
\* entry, another caller's is a value of its own.
HandedOverWithoutOthers(t) == {t}
HandedOver(t) == arr[t] \cup {t}

UpdateRun(t) ==
    /\ t # Creator
    /\ pc[t] = IF t \in Appender THEN "appended" ELSE "idle"
    /\ partial' = [partial EXCEPT ![t] = HandedOver(t)]
    /\ JoinChain(t)
    /\ Goto(t, "queued")
    /\ IF t \in Appender THEN UNCHANGED overlapped ELSE NoteOverlap(t)
    /\ UNCHANGED <<file, arr, run>>

\* The link before this one has resolved.
MyTurnIgnoringQueue(t) == pc[t] = "queued"
MyTurn(t) == waitsOn[t] \in released \cup {None}

\* readRun fails when run.json is missing or cannot be read.
ReadRun(t) ==
    /\ pc[t] = "queued"
    /\ MyTurn(t)
    /\ \/ file # NoDoc /\ run' = [run EXCEPT ![t] = file] /\ Goto(t, "merge")
       \/ UNCHANGED run /\ Goto(t, "reject")
    /\ UNCHANGED <<file, chainVars, arr, partial, overlapped>>

WriteTmp(t) ==
    /\ pc[t] = "merge"
    /\ Goto(t, "rename") \/ Goto(t, "reject")
    /\ UNCHANGED <<file, chainVars, arr, partial, run, overlapped>>

\* { ...run, ...partial }
MergedDropsOthers(t) == [EmptyDoc EXCEPT ![Target[t]] = partial[t]]
Merged(t) == [run[t] EXCEPT ![Target[t]] = partial[t]]

RenameTmp(t) ==
    /\ pc[t] = "rename"
    /\ \/ file' = Merged(t) /\ Goto(t, "resolve")
       \/ UNCHANGED file /\ Goto(t, "reject")
    /\ UNCHANGED <<chainVars, arr, partial, run, overlapped>>

\* The finally block, reached with a result or an exception: resolve the link,
\* and forget the chain when this link is its tail.
ReleaseLink(t) ==
    /\ released' = released \cup {t}
    /\ lockTail' = IF lockTail = t THEN None ELSE lockTail
    /\ UNCHANGED <<waitsOn, pos, joined>>

ReleaseOnlyOnSuccess(t) ==
    \/ pc[t] = "resolve" /\ ReleaseLink(t) /\ Goto(t, "done")
       /\ UNCHANGED <<file, arr, partial, run, overlapped>>
    \/ pc[t] = "reject" /\ Goto(t, "failed")
       /\ UNCHANGED <<file, chainVars, arr, partial, run, overlapped>>
Release(t) ==
    /\ pc[t] \in {"resolve", "reject"}
    /\ ReleaseLink(t)
    /\ Goto(t, IF pc[t] = "resolve" THEN "done" ELSE "failed")
    /\ UNCHANGED <<file, arr, partial, run, overlapped>>

-----------------------------------------------------------------------------
\* The process dies: every call under way stops where it is, one whose rename
\* is done without its caller knowing.  The chain, a map in memory, is gone;
\* the file stays.
Crash ==
    /\ \E t \in Task : pc[t] \in Running
    /\ pc' = [t \in Task |-> IF pc[t] = "resolve" THEN "unanswered"
                             ELSE IF pc[t] \in Running THEN "crashed"
                             ELSE pc[t]]
    /\ lockTail' = None
    /\ UNCHANGED <<file, waitsOn, released, arr, partial, run, pos, joined,
                   overlapped>>

CreateRun == CreateAccess \/ CreateWriteTmp \/ CreateRename

Step(t) == ReadArray(t) \/ UpdateRun(t) \/ ReadRun(t) \/ WriteTmp(t)
             \/ RenameTmp(t) \/ Release(t)

Next == CreateRun \/ (\E t \in Task : Step(t)) \/ Crash

Spec == Init /\ [][Next]_vars

\* Promises and file operations settle and Node runs their continuations, so a
\* call under way that can take a step takes one.  Nothing says that a call is
\* made, or that the process crashes.
FairSpec ==
    /\ Spec
    /\ WF_vars(CreateRun /\ pc[Creator] # "idle")
    /\ \A t \in Task : WF_vars(Step(t) /\ pc[t] # "idle")

-----------------------------------------------------------------------------
(* Properties                                                              *)

\* At most one call is between the read and the release of its turn
\* (withRunStateWriteLock, run-state.ts:24-42), whatever calls fail before it.
MutualExclusion ==
    \A t, u \in Task : pc[t] \in Holding /\ pc[u] \in Holding => t = u

\* What a call read under the chain is still the content of run.json when it
\* renames its merge over it (run-state.ts:355-365): no merge is stale.
NoStaleMerge ==
    \A t \in Task : pc[t] \in {"merge", "rename"} => run[t] = file

\* With no call in the chain the map has no entry left: the next call starts a
\* fresh chain and the map does not grow (run-state.ts:38-40).
ChainForgotten ==
    (\A t \in Task : ~InChain(t)) => lockTail = None

\* An append that was under way with no other call is never lost, however the
\* calls after it interleave, fail or crash (run-state.ts:375-400).
IsolatedAppendsKept ==
    \A t \in Appender :
        pc[t] = "done" /\ t \notin overlapped => t \in file[Target[t]]

\* A call that has started settles: a failing read or write passes the turn
\* on (run-state.ts:35-41).
StartedCallsSettle ==
    \A t \in Task : pc[t] # "idle" ~> pc[t] \in Settled

-----------------------------------------------------------------------------
\* The chain implements the store of whole merges.
Outcome(t) ==
    CASE pc[t] \in {"idle", "creating", "renaming", "appended"} -> "idle"
      [] pc[t] \in {"queued", "merge", "rename", "reject"} -> "submitted"
      [] pc[t] \in {"resolve", "done", "unanswered"} -> "committed"
      [] OTHER -> "rejected"

Store == INSTANCE RunStore WITH
            doc <- file, outcome <- [t \in Task |-> Outcome(t)]

\* Every run of the chain of promises, with its failures and crashes, is a run
\* of the store: updates take effect one at a time, whole or not at all, on the
\* document of that moment (run-state.ts:349-366).
ImplementsStore == Store!Spec
=============================================================================
