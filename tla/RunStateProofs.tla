--------------------------- MODULE RunStateProofs ---------------------------
(***************************************************************************)
(* Proofs about RunState, for any number of calls and fields.              *)
(*                                                                         *)
(* MutualExclusion is not inductive: that a link has resolved says nothing *)
(* about who is still in the chain.  QueueInv adds what the chain of       *)
(* promises means: each waiting call waits on the call just before it, a   *)
(* call whose turn it is has none before it, and the tail is the last.     *)
(***************************************************************************)
EXTENDS RunState, TLAPS

\* Only calls that left the chain have released their link; places differ.
PlacesInv ==
    /\ \A t \in released : ~InChain(t) /\ pc[t] \notin {"idle", "appended"}
    /\ \A t \in Task : pos[t] <= joined
    /\ \A t, u \in Task : InChain(t) /\ InChain(u) /\ pos[t] = pos[u] => t = u

\* The tail is the last call in the chain; no tail, no call.
TailInv ==
    /\ lockTail = None => \A t \in Task : ~InChain(t)
    /\ lockTail # None => /\ lockTail \in Task
                          /\ InChain(lockTail)
                          /\ \A t \in Task : InChain(t) => pos[t] <= pos[lockTail]

\* A call whose turn has come is the first of the chain.
TurnInv ==
    \A t, u \in Task : InChain(t) /\ MyTurn(t) /\ InChain(u) => pos[t] <= pos[u]

\* A call that waits does so on the call just before it.
WaitInv ==
    \A t, u \in Task :
        InChain(t) /\ ~MyTurn(t) /\ InChain(u)
        => /\ InChain(waitsOn[t])
           /\ pos[waitsOn[t]] < pos[t]
           /\ pos[u] < pos[t] => pos[u] <= pos[waitsOn[t]]

\* Who holds a document has its turn, and a document to merge into.
HolderInv ==
    /\ \A t \in Task : pc[t] \in Holding => MyTurn(t)
    /\ \A t \in Task : pc[t] \in {"merge", "rename", "resolve"} => file # NoDoc
    /\ pc[Creator] \in {"idle", "creating", "renaming", "done", "failed", "crashed"}
    /\ pc[Creator] \in {"creating", "renaming"} => file = NoDoc

QueueInv == TypeOK /\ PlacesInv /\ TailInv /\ TurnInv /\ WaitInv /\ HolderInv

Inv == QueueInv /\ NoStaleMerge

-----------------------------------------------------------------------------

LEMMA InitInv == Init => Inv
  BY RunStateAssumption
  DEF Init, Inv, QueueInv, TypeOK, PlacesInv, TailInv, TurnInv, WaitInv,
      HolderInv, NoStaleMerge, InChain, InLock, Holding, PCs, Settled, Running,
      Document, EmptyDoc, MyTurn

LEMMA OverlapType ==
  ASSUME NEW t \in Task, overlapped \subseteq Task, NoteOverlap(t)
  PROVE  overlapped' \subseteq Task
BY DEF NoteOverlap

\* Type correctness of every step.
LEMMA TypeStep == TypeOK /\ [Next]_vars => TypeOK'
<1> SUFFICES ASSUME TypeOK, [Next]_vars PROVE TypeOK'
  OBVIOUS
<1> USE RunStateAssumption DEF TypeOK, PCs, Running, InLock, Holding, Settled
<1>1. CASE CreateRun
  <2>1. CASE CreateAccess
    <3>1. Creator \in Task /\ NoteOverlap(Creator)
      BY <2>1 DEF CreateAccess
    <3>2. overlapped' \subseteq Task
      BY <3>1, OverlapType
    <3>3. pc' \in [Task -> PCs]
      BY <2>1 DEF CreateAccess, Goto
    <3>4. QED
      BY <2>1, <3>2, <3>3 DEF CreateAccess, chainVars
  <2>2. CASE CreateWriteTmp
    BY <2>2 DEF CreateWriteTmp, Goto, chainVars
  <2>3. CASE CreateRename
    BY <2>3 DEF CreateRename, Goto, chainVars, Document, EmptyDoc
  <2>4. QED
    BY <1>1, <2>1, <2>2, <2>3 DEF CreateRun
<1>2. ASSUME NEW t \in Task, ReadArray(t) PROVE TypeOK'
  <2>1. overlapped' \subseteq Task
    BY <1>2, OverlapType DEF ReadArray
  <2>2. file # NoDoc => file[Target[t]] \in SUBSET Task
    BY <1>2 DEF ReadArray, Document
  <2>3. arr' \in [Task -> SUBSET Task]
    BY <1>2, <2>2 DEF ReadArray
  <2>4. pc' \in [Task -> PCs]
    BY <1>2 DEF ReadArray, Goto
  <2>5. QED
    BY <1>2, <2>1, <2>3, <2>4 DEF ReadArray, chainVars
<1>3. ASSUME NEW t \in Task, UpdateRun(t) PROVE TypeOK'
  BY <1>3, OverlapType DEF UpdateRun, HandedOver, JoinChain, Goto
<1>4. ASSUME NEW t \in Task, ReadRun(t) PROVE TypeOK'
  BY <1>4 DEF ReadRun, Goto, chainVars
<1>5. ASSUME NEW t \in Task, WriteTmp(t) PROVE TypeOK'
  BY <1>5 DEF WriteTmp, Goto, chainVars
<1>6. ASSUME NEW t \in Task, RenameTmp(t) PROVE TypeOK'
  <2>1. Merged(t) \in Document
    BY DEF Merged, Document
  <2>2. QED
    BY <1>6, <2>1 DEF RenameTmp, Goto, chainVars
<1>7. ASSUME NEW t \in Task, Release(t) PROVE TypeOK'
  BY <1>7 DEF Release, ReleaseLink, Goto
<1>8. CASE Crash
  BY <1>8 DEF Crash
<1>9. CASE UNCHANGED vars
  BY <1>9 DEF vars, chainVars
<1>10. QED
  BY <1>1, <1>2, <1>3, <1>4, <1>5, <1>6, <1>7, <1>8, <1>9 DEF Next, Step

\* Steps that neither join nor leave the chain keep what is said of it: they
\* move calls between control points that are on the same side of it.
LEMMA ChainUntouched ==
  ASSUME QueueInv, TypeOK', UNCHANGED chainVars,
         \A t \in Task : InChain(t)' <=> InChain(t),
         \A t \in Task : pc[t]' \in {"idle", "appended"}
                          => pc[t] \in {"idle", "appended"}
  PROVE  PlacesInv' /\ TailInv' /\ TurnInv' /\ WaitInv'
<1>1. \A t \in Task : MyTurn(t)' <=> MyTurn(t)
  BY DEF MyTurn, chainVars
<1>2. PlacesInv'
  BY DEF QueueInv, TypeOK, PlacesInv, chainVars
<1>3. TailInv'
  BY DEF QueueInv, TypeOK, TailInv, chainVars
<1>4. TurnInv'
  BY <1>1 DEF QueueInv, TypeOK, TurnInv, chainVars
<1>5. WaitInv'
  <2> SUFFICES ASSUME NEW t \in Task, NEW u \in Task,
                      InChain(t), ~MyTurn(t), InChain(u)
               PROVE  /\ InChain(waitsOn[t])'
                      /\ pos[waitsOn[t]] < pos[t]
                      /\ pos[u] < pos[t] => pos[u] <= pos[waitsOn[t]]
    BY <1>1 DEF WaitInv, chainVars
  <2>1. /\ InChain(waitsOn[t])
        /\ pos[waitsOn[t]] < pos[t]
        /\ pos[u] < pos[t] => pos[u] <= pos[waitsOn[t]]
    BY DEF QueueInv, WaitInv
  <2>2. waitsOn[t] \in Task
    BY DEF QueueInv, TypeOK, MyTurn
  <2>3. QED
    BY <2>1, <2>2 DEF chainVars, InChain
<1>6. QED
  BY <1>2, <1>3, <1>4, <1>5

-----------------------------------------------------------------------------
\* A call joins behind all that are in the chain and becomes its tail.
LEMMA JoinKeepsQueue ==
  ASSUME Inv, TypeOK', NEW t \in Task, UpdateRun(t)
  PROVE  PlacesInv' /\ TailInv' /\ TurnInv' /\ WaitInv'
<1> USE RunStateAssumption DEF InLock, Holding
<1>1. /\ ~InChain(t) /\ InChain(t)'
      /\ \A u \in Task \ {t} : InChain(u)' <=> InChain(u)
      /\ t \notin released /\ released' = released
      /\ waitsOn' = [waitsOn EXCEPT ![t] = lockTail]
      /\ lockTail' = t /\ t # None
      /\ pos' = [pos EXCEPT ![t] = joined + 1] /\ joined' = joined + 1
  BY DEF UpdateRun, JoinChain, Goto, InChain, Inv, QueueInv, TypeOK, PlacesInv
<1>2. \A u \in Task : u # t => pos'[u] = pos[u] /\ pos[u] < pos'[t]
  BY <1>1 DEF Inv, QueueInv, TypeOK, PlacesInv
<1>3. \A u \in Task : u # t => (MyTurn(u)' <=> MyTurn(u))
  BY <1>1 DEF MyTurn, Inv, QueueInv, TypeOK
<1>4. MyTurn(t)' <=> lockTail = None \/ lockTail \in released
  BY <1>1 DEF MyTurn, Inv, QueueInv, TypeOK
<1>5. lockTail # None => /\ lockTail \in Task \ {t} /\ InChain(lockTail)
                         /\ lockTail \notin released
                         /\ \A u \in Task : InChain(u) => pos[u] <= pos[lockTail]
  BY <1>1 DEF Inv, QueueInv, PlacesInv, TailInv
<1>6. lockTail = None => \A u \in Task : ~InChain(u)
  BY DEF Inv, QueueInv, TailInv
<1>7. PlacesInv'
  <2>1. \A u \in released' : ~InChain(u)' /\ pc[u]' \notin {"idle", "appended"}
    BY <1>1 DEF Inv, QueueInv, TypeOK, PlacesInv, UpdateRun, Goto
  <2>2. \A u \in Task : pos'[u] <= joined'
    BY <1>1, <1>2 DEF Inv, QueueInv, TypeOK, PlacesInv
  <2>3. \A u, v \in Task : InChain(u)' /\ InChain(v)' /\ pos'[u] = pos'[v] => u = v
    BY <1>1, <1>2 DEF Inv, QueueInv, TypeOK, PlacesInv
  <2>4. QED
    BY <2>1, <2>2, <2>3 DEF PlacesInv
<1>8. TailInv'
  BY <1>1, <1>2 DEF Inv, QueueInv, TypeOK, TailInv
<1>9. TurnInv'
  <2> SUFFICES ASSUME NEW u \in Task, NEW v \in Task,
                      InChain(u)', MyTurn(u)', InChain(v)'
               PROVE  pos'[u] <= pos'[v]
    BY DEF TurnInv
  <2>1. CASE u = t
    BY <1>1, <1>4, <1>5, <1>6, <2>1 DEF Inv, QueueInv, TypeOK
  <2>2. CASE u # t /\ v = t
    BY <1>2, <2>2 DEF Inv, QueueInv, TypeOK
  <2>3. CASE u # t /\ v # t
    BY <1>1, <1>2, <1>3, <2>3 DEF Inv, QueueInv, TurnInv
  <2>4. QED
    BY <2>1, <2>2, <2>3
<1>10. WaitInv'
  <2> SUFFICES ASSUME NEW u \in Task, NEW v \in Task,
                      InChain(u)', ~MyTurn(u)', InChain(v)'
               PROVE  /\ InChain(waitsOn[u])'
                      /\ pos'[waitsOn'[u]] < pos'[u]
                      /\ pos'[v] < pos'[u] => pos'[v] <= pos'[waitsOn'[u]]
    BY DEF WaitInv
  <2>1. CASE u = t
    <3>1. waitsOn'[t] = lockTail /\ lockTail # None
      BY <1>1, <1>4, <2>1 DEF Inv, QueueInv, TypeOK
    <3>2. InChain(waitsOn[t])'
      BY <1>1, <1>5, <3>1 DEF InChain
    <3>3. QED
      BY <1>1, <1>2, <1>5, <2>1, <3>1, <3>2 DEF Inv, QueueInv, TypeOK
  <2>2. CASE u # t
    <3>1. InChain(u) /\ ~MyTurn(u) /\ waitsOn'[u] = waitsOn[u]
      BY <1>1, <1>3, <2>2 DEF Inv, QueueInv, TypeOK
    <3>2. waitsOn[u] \in Task
      BY <3>1 DEF Inv, QueueInv, TypeOK, MyTurn
    <3>3. InChain(waitsOn[u]) /\ pos[waitsOn[u]] < pos[u]
      BY <3>1 DEF Inv, QueueInv, WaitInv
    <3>4. waitsOn[u] # t
      BY <1>1, <3>3
    <3>5. InChain(waitsOn[u])'
      BY <1>1, <3>1, <3>2, <3>3, <3>4 DEF InChain
    <3>6. v # t => (pos[v] < pos[u] => pos[v] <= pos[waitsOn[u]])
      BY <1>1, <3>1 DEF Inv, QueueInv, WaitInv
    <3>7. QED
      BY <1>1, <1>2, <2>2, <3>1, <3>2, <3>3, <3>4, <3>5, <3>6
         DEF Inv, QueueInv, TypeOK
  <2>3. QED
    BY <2>1, <2>2
<1>11. QED
  BY <1>7, <1>8, <1>9, <1>10

\* The first of the chain leaves it: the next one's turn comes, and only its.
LEMMA ReleaseKeepsQueue ==
  ASSUME Inv, TypeOK', NEW t \in Task, Release(t)
  PROVE  PlacesInv' /\ TailInv' /\ TurnInv' /\ WaitInv'
<1> USE RunStateAssumption DEF InLock, Holding
<1>1. /\ InChain(t) /\ ~InChain(t)' /\ pc[t]' \notin {"idle", "appended"}
      /\ \A u \in Task \ {t} : pc'[u] = pc[u] /\ (InChain(u)' <=> InChain(u))
      /\ released' = released \cup {t}
      /\ lockTail' = IF lockTail = t THEN None ELSE lockTail
      /\ waitsOn' = waitsOn /\ pos' = pos /\ joined' = joined
  BY DEF Release, ReleaseLink, Goto, InChain, Inv, QueueInv, TypeOK
<1>2. \A u \in Task : InChain(u) => pos[t] <= pos[u]
  BY <1>1 DEF Release, Inv, QueueInv, HolderInv, TurnInv
<1>3. \A u \in Task : MyTurn(u)' <=> MyTurn(u) \/ waitsOn[u] = t
  BY <1>1 DEF MyTurn, Inv, QueueInv, TypeOK
<1>4. PlacesInv'
  <2>1. \A u \in released' : ~InChain(u)' /\ pc[u]' \notin {"idle", "appended"}
    BY <1>1 DEF Inv, QueueInv, TypeOK, PlacesInv
  <2>2. QED
    BY <1>1, <2>1 DEF Inv, QueueInv, TypeOK, PlacesInv
<1>5. TailInv'
  <2>1. CASE lockTail = t
    <3>1. \A u \in Task \ {t} : ~InChain(u)
      BY <1>1, <1>2, <2>1 DEF Inv, QueueInv, TypeOK, PlacesInv, TailInv
    <3>2. QED
      BY <1>1, <2>1, <3>1 DEF TailInv
  <2>2. CASE lockTail # t
    <3>1. lockTail # None
      BY <1>1 DEF Inv, QueueInv, TailInv
    <3>2. InChain(lockTail)'
      BY <1>1, <2>2, <3>1 DEF Inv, QueueInv, TailInv, InChain
    <3>3. QED
      BY <1>1, <2>2, <3>1, <3>2 DEF Inv, QueueInv, TailInv
  <2>3. QED
    BY <2>1, <2>2
<1>6. TurnInv'
  <2> SUFFICES ASSUME NEW u \in Task, NEW v \in Task,
                      InChain(u)', MyTurn(u)', InChain(v)'
               PROVE  pos[u] <= pos[v]
    BY <1>1 DEF TurnInv
  <2>1. u # t /\ v # t /\ InChain(u) /\ InChain(v)
    BY <1>1
  <2>2. CASE MyTurn(u)
    BY <2>1, <2>2 DEF Inv, QueueInv, TurnInv
  <2>3. CASE ~MyTurn(u)
    <3>1. waitsOn[u] = t
      BY <1>3, <2>3
    <3>2. pos[v] < pos[u] => pos[v] <= pos[t]
      BY <2>1, <2>3, <3>1 DEF Inv, QueueInv, WaitInv
    <3>3. pos[t] < pos[v]
      BY <1>1, <1>2, <2>1 DEF Inv, QueueInv, TypeOK, PlacesInv
    <3>4. QED
      BY <3>2, <3>3 DEF Inv, QueueInv, TypeOK
  <2>4. QED
    BY <2>2, <2>3
<1>7. WaitInv'
  <2> SUFFICES ASSUME NEW u \in Task, NEW v \in Task,
                      InChain(u)', ~MyTurn(u)', InChain(v)'
               PROVE  /\ InChain(waitsOn[u])'
                      /\ pos[waitsOn[u]] < pos[u]
                      /\ pos[v] < pos[u] => pos[v] <= pos[waitsOn[u]]
    BY <1>1 DEF WaitInv
  <2>1. u # t /\ v # t /\ InChain(u) /\ InChain(v)
    BY <1>1
  <2>2. ~MyTurn(u) /\ waitsOn[u] # t
    BY <1>3
  <2>3. /\ InChain(waitsOn[u])
        /\ pos[waitsOn[u]] < pos[u]
        /\ pos[v] < pos[u] => pos[v] <= pos[waitsOn[u]]
    BY <2>1, <2>2 DEF Inv, QueueInv, WaitInv
  <2>4. waitsOn[u] \in Task
    BY <2>2 DEF Inv, QueueInv, TypeOK, MyTurn
  <2>5. QED
    BY <1>1, <2>2, <2>3, <2>4 DEF InChain
<1>8. QED
  BY <1>4, <1>5, <1>6, <1>7

\* After a crash there is no chain.
LEMMA CrashKeepsQueue ==
  ASSUME Inv, Crash
  PROVE  PlacesInv' /\ TailInv' /\ TurnInv' /\ WaitInv'
<1>1. \A t \in Task : ~InChain(t)'
  BY DEF Crash, InChain, InLock, Holding, Running, Inv, QueueInv, TypeOK
<1>2. \A t \in released : pc'[t] \notin {"idle", "appended"}
  BY DEF Crash, Inv, QueueInv, TypeOK, PlacesInv
<1>3. PlacesInv'
  BY <1>1, <1>2 DEF Crash, PlacesInv, Inv, QueueInv, TypeOK
<1>4. TailInv' /\ TurnInv' /\ WaitInv'
  BY <1>1 DEF Crash, TailInv, TurnInv, WaitInv
<1>5. QED
  BY <1>3, <1>4

-----------------------------------------------------------------------------
\* Only the holder changes run.json, so nobody else's document goes stale.
LEMMA OneHolder == Inv => MutualExclusion
<1> SUFFICES ASSUME Inv, NEW t \in Task, NEW u \in Task,
                    pc[t] \in Holding, pc[u] \in Holding
             PROVE  t = u
  BY DEF MutualExclusion
<1>1. InChain(t) /\ InChain(u) /\ MyTurn(t) /\ MyTurn(u)
  BY DEF Inv, QueueInv, HolderInv, InChain, InLock
<1>2. pos[t] <= pos[u] /\ pos[u] <= pos[t]
  BY <1>1 DEF Inv, QueueInv, TurnInv
<1>3. QED
  BY <1>1, <1>2 DEF Inv, QueueInv, TypeOK, PlacesInv

LEMMA CreateStep ==
  ASSUME Inv, TypeOK', CreateRun PROVE Inv'
<1> USE RunStateAssumption DEF InLock, Holding
<1>1. \A t \in Task \ {Creator} : pc'[t] = pc[t]
  BY DEF CreateRun, CreateAccess, CreateWriteTmp, CreateRename, Goto,
         Inv, QueueInv, TypeOK
<1>2. /\ pc'[Creator] \in {"creating", "renaming", "done", "failed"}
      /\ pc[Creator] \in {"idle", "creating", "renaming"}
      /\ UNCHANGED <<chainVars, run>>
  BY DEF CreateRun, CreateAccess, CreateWriteTmp, CreateRename, Goto,
         Inv, QueueInv, TypeOK
<1>3. \/ UNCHANGED file
      \/ file = NoDoc /\ file' # NoDoc /\ pc'[Creator] = "done"
  BY DEF CreateRun, CreateAccess, CreateWriteTmp, CreateRename, Goto,
         Inv, QueueInv, TypeOK, HolderInv, EmptyDoc
<1>4. pc'[Creator] \in {"creating", "renaming"} => file' = NoDoc
  BY DEF CreateRun, CreateAccess, CreateWriteTmp, CreateRename, Goto,
         Inv, QueueInv, TypeOK, HolderInv
<1>5. \A t \in Task : InChain(t)' <=> InChain(t)
  BY <1>1, <1>2 DEF InChain
<1>6. \A t \in Task : pc[t]' \in {"idle", "appended"}
                      => pc[t] \in {"idle", "appended"}
  BY <1>1, <1>2
<1>7. PlacesInv' /\ TailInv' /\ TurnInv' /\ WaitInv'
  BY <1>2, <1>5, <1>6, ChainUntouched DEF Inv
<1>8. HolderInv'
  <2>1. \A t \in Task : pc'[t] \in Holding => MyTurn(t)'
    BY <1>1, <1>2 DEF Inv, QueueInv, HolderInv, MyTurn, chainVars
  <2>2. \A t \in Task : pc'[t] \in {"merge", "rename", "resolve"} => file' # NoDoc
    BY <1>1, <1>2, <1>3 DEF Inv, QueueInv, HolderInv
  <2>3. QED
    BY <2>1, <2>2, <1>2, <1>4 DEF HolderInv
<1>9. NoStaleMerge'
  BY <1>1, <1>2, <1>3 DEF NoStaleMerge, Inv, QueueInv, HolderInv
<1>10. QED
  BY <1>7, <1>8, <1>9 DEF Inv, QueueInv

\* Steps that neither join, leave nor write.
LEMMA QuietStep ==
  ASSUME Inv, TypeOK', NEW t \in Task, t # Creator,
         UNCHANGED <<file, chainVars>>,
         pc' = [pc EXCEPT ![t] = pc'[t]],
         InChain(t)' <=> InChain(t),
         pc'[t] \notin {"idle", "appended"} \/ pc[t] \in {"idle", "appended"},
         pc'[t] \in Holding => MyTurn(t),
         pc'[t] \in {"merge", "rename", "resolve"} => file # NoDoc,
         run' = [run EXCEPT ![t] = run'[t]],
         pc'[t] \in {"merge", "rename"} => run'[t] = file
  PROVE  Inv'
<1>1. \A u \in Task \ {t} : pc'[u] = pc[u] /\ run'[u] = run[u]
  BY DEF Inv, QueueInv, TypeOK
<1>2. \A u \in Task : InChain(u)' <=> InChain(u)
  BY <1>1 DEF InChain
<1>3. \A u \in Task : MyTurn(u)' <=> MyTurn(u)
  BY DEF MyTurn, chainVars
<1>4. PlacesInv' /\ TailInv' /\ TurnInv' /\ WaitInv'
  <2>1. \A u \in Task : pc[u]' \in {"idle", "appended"}
                       => pc[u] \in {"idle", "appended"}
    BY <1>1
  <2>2. QED
    BY <1>2, <2>1, ChainUntouched DEF Inv
<1>5. HolderInv'
  <2>1. \A u \in Task : pc'[u] \in Holding => MyTurn(u)'
    BY <1>1, <1>3 DEF Inv, QueueInv, HolderInv
  <2>2. \A u \in Task : pc'[u] \in {"merge", "rename", "resolve"} => file' # NoDoc
    BY <1>1 DEF Inv, QueueInv, HolderInv
  <2>3. QED
    BY <2>1, <2>2, <1>1, RunStateAssumption DEF Inv, QueueInv, HolderInv
<1>6. NoStaleMerge'
  BY <1>1 DEF Inv, NoStaleMerge
<1>7. QED
  BY <1>4, <1>5, <1>6 DEF Inv, QueueInv

LEMMA JoinStep ==
  ASSUME Inv, TypeOK', NEW t \in Task, UpdateRun(t) PROVE Inv'
<1>1. \A u \in Task \ {t} : pc'[u] = pc[u]
  BY DEF UpdateRun, Goto, Inv, QueueInv, TypeOK
<1>2. t # Creator /\ pc'[t] = "queued" /\ file' = file /\ run' = run
  BY DEF UpdateRun, Goto, Inv, QueueInv, TypeOK
<1>3. \A u \in Task \ {t} : MyTurn(u)' <=> MyTurn(u)
  BY DEF UpdateRun, JoinChain, MyTurn, Inv, QueueInv, TypeOK
<1>4. HolderInv'
  <2>1. \A u \in Task : pc'[u] \in Holding => MyTurn(u)'
    BY <1>1, <1>2, <1>3 DEF Inv, QueueInv, HolderInv, Holding
  <2>2. \A u \in Task : pc'[u] \in {"merge", "rename", "resolve"} => file' # NoDoc
    BY <1>1, <1>2 DEF Inv, QueueInv, HolderInv
  <2>3. QED
    BY <2>1, <2>2, <1>1, <1>2, RunStateAssumption DEF Inv, QueueInv, HolderInv
<1>5. NoStaleMerge'
  BY <1>1, <1>2 DEF Inv, NoStaleMerge
<1>6. QED
  BY <1>4, <1>5, JoinKeepsQueue DEF Inv, QueueInv

LEMMA CommitStep ==
  ASSUME Inv, TypeOK', NEW t \in Task, RenameTmp(t) PROVE Inv'
<1> USE RunStateAssumption DEF InLock, Holding
<1>1. /\ pc[t] = "rename" /\ pc'[t] \in {"resolve", "reject"}
      /\ \A u \in Task \ {t} : pc'[u] = pc[u]
      /\ UNCHANGED <<chainVars, run>>
  BY DEF RenameTmp, Goto, Inv, QueueInv, TypeOK
<1>2. t # Creator
  BY <1>1 DEF Inv, QueueInv, HolderInv
<1>3. file # NoDoc
  BY <1>1 DEF Inv, QueueInv, HolderInv
<1>4. file' # NoDoc
  <2>1. Merged(t) \in [Field -> SUBSET Task]
    BY DEF Merged, Inv, QueueInv, TypeOK, Document
  <2>2. QED
    BY <1>3, <2>1 DEF RenameTmp
<1>5. \A u \in Task \ {t} : pc[u] \notin Holding
  BY <1>1, OneHolder DEF MutualExclusion
<1>6. \A u \in Task : InChain(u)' <=> InChain(u)
  BY <1>1 DEF InChain
<1>7. PlacesInv' /\ TailInv' /\ TurnInv' /\ WaitInv'
  <2>1. \A u \in Task : pc[u]' \in {"idle", "appended"}
                       => pc[u] \in {"idle", "appended"}
    BY <1>1
  <2>2. QED
    BY <1>1, <1>6, <2>1, ChainUntouched DEF Inv
<1>8. HolderInv'
  <2>1. \A u \in Task : pc'[u] \in Holding => MyTurn(u)'
    BY <1>1 DEF Inv, QueueInv, HolderInv, MyTurn, chainVars
  <2>2. pc'[Creator] = pc[Creator]
    BY <1>1, <1>2
  <2>3. QED
    BY <1>3, <1>4, <2>1, <2>2 DEF Inv, QueueInv, HolderInv
<1>9. NoStaleMerge'
  BY <1>1, <1>5 DEF NoStaleMerge
<1>10. QED
  BY <1>7, <1>8, <1>9 DEF Inv, QueueInv

LEMMA ReleaseStep ==
  ASSUME Inv, TypeOK', NEW t \in Task, Release(t) PROVE Inv'
<1>1. /\ pc[t] \in {"resolve", "reject"} /\ pc'[t] \in {"done", "failed"}
      /\ \A u \in Task \ {t} : pc'[u] = pc[u]
      /\ file' = file /\ run' = run
  BY DEF Release, Goto, Inv, QueueInv, TypeOK
<1>2. t # Creator
  BY <1>1 DEF Inv, QueueInv, HolderInv
<1>3. \A u \in Task : MyTurn(u) => MyTurn(u)'
  BY DEF Release, ReleaseLink, MyTurn, Inv, QueueInv, TypeOK
<1>4. HolderInv'
  <2>1. \A u \in Task : pc'[u] \in Holding => MyTurn(u)'
    BY <1>1, <1>3 DEF Inv, QueueInv, HolderInv, Holding
  <2>2. \A u \in Task : pc'[u] \in {"merge", "rename", "resolve"} => file' # NoDoc
    BY <1>1 DEF Inv, QueueInv, HolderInv
  <2>3. QED
    BY <2>1, <2>2, <1>1, <1>2, RunStateAssumption DEF Inv, QueueInv, HolderInv
<1>5. NoStaleMerge'
  BY <1>1 DEF Inv, NoStaleMerge
<1>6. QED
  BY <1>4, <1>5, ReleaseKeepsQueue DEF Inv, QueueInv

LEMMA CrashStep ==
  ASSUME Inv, TypeOK', Crash PROVE Inv'
<1>1. \A t \in Task : pc'[t] \in Settled \cup {"idle"}
  BY DEF Crash, Inv, QueueInv, TypeOK, PCs, Settled
<1>2. pc'[Creator] \in {"idle", "done", "failed", "crashed"}
  BY RunStateAssumption DEF Crash, Inv, QueueInv, TypeOK, HolderInv, Running
<1>3. HolderInv' /\ NoStaleMerge'
  BY <1>1, <1>2 DEF HolderInv, NoStaleMerge, Settled, Holding
<1>4. QED
  BY <1>3, CrashKeepsQueue DEF Inv, QueueInv

LEMMA InvStep == Inv /\ [Next]_vars => Inv'
<1> SUFFICES ASSUME Inv, [Next]_vars PROVE Inv'
  OBVIOUS
<1>t. TypeOK'
  BY TypeStep DEF Inv, QueueInv
<1>1. CASE CreateRun
  BY <1>1, <1>t, CreateStep
<1>2. ASSUME NEW t \in Task, ReadArray(t) PROVE Inv'
  <2>1. t # Creator /\ UNCHANGED <<file, chainVars, run>>
    BY <1>2, RunStateAssumption DEF ReadArray
  <2>2. pc[t] = "idle" /\ pc'[t] \in {"appended", "failed"}
        /\ pc' = [pc EXCEPT ![t] = pc'[t]]
    BY <1>2 DEF ReadArray, Goto, Inv, QueueInv, TypeOK
  <2>3. run' = [run EXCEPT ![t] = run'[t]]
    BY <2>1 DEF Inv, QueueInv, TypeOK
  <2>4. QED
    BY <1>t, <2>1, <2>2, <2>3, QuietStep DEF InChain, InLock, Holding
<1>3. ASSUME NEW t \in Task, UpdateRun(t) PROVE Inv'
  BY <1>3, <1>t, JoinStep
<1>4. ASSUME NEW t \in Task, ReadRun(t) PROVE Inv'
  <2>1. pc[t] = "queued" /\ pc'[t] \in {"merge", "reject"} /\ MyTurn(t)
        /\ pc' = [pc EXCEPT ![t] = pc'[t]] /\ UNCHANGED <<file, chainVars>>
    BY <1>4 DEF ReadRun, Goto, Inv, QueueInv, TypeOK
  <2>2. /\ run' = [run EXCEPT ![t] = run'[t]]
        /\ pc'[t] = "merge" => file # NoDoc /\ run'[t] = file
    BY <1>4 DEF ReadRun, Goto, Inv, QueueInv, TypeOK
  <2>3. t # Creator
    BY <2>1 DEF Inv, QueueInv, HolderInv
  <2>4. QED
    BY <1>t, <2>1, <2>2, <2>3, QuietStep DEF InChain, InLock, Holding
<1>5. ASSUME NEW t \in Task, WriteTmp(t) PROVE Inv'
  <2>1. pc[t] = "merge" /\ pc'[t] \in {"rename", "reject"}
        /\ pc' = [pc EXCEPT ![t] = pc'[t]] /\ UNCHANGED <<file, chainVars, run>>
    BY <1>5 DEF WriteTmp, Goto, Inv, QueueInv, TypeOK
  <2>2. run' = [run EXCEPT ![t] = run'[t]] /\ run'[t] = file /\ file # NoDoc
    BY <2>1 DEF Inv, QueueInv, TypeOK, NoStaleMerge, HolderInv
  <2>3. t # Creator /\ MyTurn(t)
    BY <2>1 DEF Inv, QueueInv, HolderInv, Holding
  <2>4. QED
    BY <1>t, <2>1, <2>2, <2>3, QuietStep DEF InChain, InLock, Holding
<1>6. ASSUME NEW t \in Task, RenameTmp(t) PROVE Inv'
  BY <1>6, <1>t, CommitStep
<1>7. ASSUME NEW t \in Task, Release(t) PROVE Inv'
  BY <1>7, <1>t, ReleaseStep
<1>8. CASE Crash
  BY <1>8, <1>t, CrashStep
<1>9. CASE UNCHANGED vars
  <2>1. PlacesInv' /\ TailInv' /\ TurnInv' /\ WaitInv'
    BY <1>9, <1>t, ChainUntouched DEF vars, InChain, Inv
  <2>2. HolderInv' /\ NoStaleMerge'
    BY <1>9 DEF vars, chainVars, Inv, QueueInv, HolderInv, NoStaleMerge, MyTurn
  <2>3. QED
    BY <1>t, <2>1, <2>2 DEF Inv, QueueInv
<1>10. QED
  BY <1>1, <1>2, <1>3, <1>4, <1>5, <1>6, <1>7, <1>8, <1>9 DEF Next, Step

LEMMA InvAlways == Spec => []Inv
<1>1. Init => Inv
  BY InitInv
<1>2. Inv /\ [Next]_vars => Inv'
  BY InvStep
<1>3. QED
  BY <1>1, <1>2, PTL DEF Spec

-----------------------------------------------------------------------------
(* Theorems                                                                *)

\* The variables of the run-state protocol (run-state.ts:22-54, 258-400) have
\* their types in every reachable state.
THEOREM TypeCorrect == Spec => []TypeOK
<1>1. Inv => TypeOK
  BY DEF Inv, QueueInv
<1>2. QED
  BY <1>1, InvAlways, PTL

\* withRunStateWriteLock (run-state.ts:24-42) lets one updateRun at a time read
\* and write run.json, for any number of calls, failures and crashes.
THEOREM LockIsExclusive == Spec => []MutualExclusion
BY OneHolder, InvAlways, PTL

\* No updateRun (run-state.ts:349-366) merges into a document other than the
\* one its rename replaces.
THEOREM MergesAreFresh == Spec => []NoStaleMerge
<1>1. Inv => NoStaleMerge
  BY DEF Inv
<1>2. QED
  BY <1>1, InvAlways, PTL

\* The lock map forgets the chain when no call is left in it
\* (run-state.ts:38-40).
THEOREM ChainIsForgotten == Spec => []ChainForgotten
<1>1. Inv => ChainForgotten
  BY DEF Inv, QueueInv, TailInv, ChainForgotten
<1>2. QED
  BY <1>1, InvAlways, PTL

-----------------------------------------------------------------------------
(* The refinement: each step of the protocol is one of the store, or none. *)

LEMMA OutcomeIs ==
  ASSUME NEW t \in Task, TypeOK
  PROVE  /\ Outcome(t) = "idle" <=>
                pc[t] \in {"idle", "creating", "renaming", "appended"}
         /\ Outcome(t) = "submitted" <=>
                pc[t] \in {"queued", "merge", "rename", "reject"}
         /\ Outcome(t) = "committed" <=>
                pc[t] \in {"resolve", "done", "unanswered"}
         /\ Outcome(t) = "rejected" <=> pc[t] \in {"failed", "crashed"}
BY DEF Outcome, TypeOK, PCs, Running, InLock, Holding, Settled

LEMMA StoreInitial == Init => Store!Init
<1> SUFFICES ASSUME Init PROVE Store!Init
  OBVIOUS
<1>1. [t \in Task |-> Outcome(t)] = [t \in Task |-> "idle"]
  BY DEF Init, Outcome
<1>2. QED
  BY <1>1 DEF Init, Store!Init

\* The outcomes after a step that moves one call.
LEMMA OutcomesAfter ==
  ASSUME TypeOK, NEW t \in Task, NEW label, pc' = [pc EXCEPT ![t] = label]
  PROVE  [u \in Task |-> Outcome(u)]'
           = [[u \in Task |-> Outcome(u)] EXCEPT ![t] = Outcome(t)']
BY DEF TypeOK, Outcome

LEMMA StoreStep == Inv /\ TypeOK' /\ [Next]_vars => [Store!Next]_(Store!vars)
<1> SUFFICES ASSUME Inv, TypeOK', [Next]_vars
             PROVE  Store!Next \/ UNCHANGED Store!vars
  OBVIOUS
<1> DEFINE outcome == [u \in Task |-> Outcome(u)]
<1>t. TypeOK
  BY DEF Inv, QueueInv
<1>s. \A S \in SUBSET Task : Store!Reject(S) => Store!Next
  BY DEF Store!Next
<1>f. ASSUME NEW t \in Task, pc' = [pc EXCEPT ![t] = "failed"],
             Outcome(t) \in {"idle", "submitted"}, UNCHANGED <<file, partial>>
      PROVE  Store!Next
  <2>1. outcome' = [outcome EXCEPT ![t] = "rejected"]
    <3>1. pc'[t] = "failed"
      BY <1>f, <1>t DEF TypeOK
    <3>2. Outcome(t)' = "rejected"
      BY <3>1 DEF Outcome
    <3>3. QED
      BY <1>f, <1>t, <3>2, OutcomesAfter
  <2>2. outcome' = [u \in Task |-> IF u \in {t} THEN "rejected" ELSE outcome[u]]
    BY <2>1
  <2>3. Store!Reject({t})
    BY <1>f, <2>2 DEF Store!Reject
  <2>4. QED
    BY <1>s, <2>3
<1>q. ASSUME NEW t \in Task, NEW label, pc' = [pc EXCEPT ![t] = label],
             Outcome(t)' = Outcome(t), UNCHANGED <<file, partial>>
      PROVE  UNCHANGED Store!vars
  <2>1. outcome' = outcome
    BY <1>q, <1>t, OutcomesAfter
  <2>2. QED
    BY <1>q, <2>1 DEF Store!vars
<1>1. CASE CreateRun
  <2>1. Creator \in Task
    BY RunStateAssumption
  <2>2. CASE CreateAccess
    <3>1. CASE file = NoDoc
      <4>1. pc' = [pc EXCEPT ![Creator] = "creating"] /\ UNCHANGED <<file, partial>>
        BY <2>2, <3>1 DEF CreateAccess, Goto
      <4>2. Outcome(Creator)' = Outcome(Creator)
        BY <2>1, <2>2, <4>1, <1>t DEF Outcome, CreateAccess, TypeOK
      <4>3. QED
        BY <2>1, <4>1, <4>2, <1>q
    <3>2. CASE file # NoDoc
      <4>1. Outcome(Creator) = "idle"
        BY <2>2 DEF Outcome, CreateAccess
      <4>2. QED
        BY <2>1, <2>2, <3>2, <4>1, <1>f DEF CreateAccess, Goto
    <3>3. QED
      BY <3>1, <3>2
  <2>3. CASE CreateWriteTmp
    <3>1. Outcome(Creator) = "idle"
      BY <2>3 DEF Outcome, CreateWriteTmp
    <3>2. CASE Goto(Creator, "renaming")
      <4>1. pc'[Creator] = "renaming"
        BY <2>1, <3>2, <1>t DEF Goto, TypeOK
      <4>2. Outcome(Creator)' = "idle"
        BY <4>1 DEF Outcome
      <4>3. QED
        BY <2>1, <2>3, <3>1, <3>2, <4>2, <1>q DEF CreateWriteTmp, Goto
    <3>3. CASE Goto(Creator, "failed")
      BY <2>1, <2>3, <3>1, <3>3, <1>f DEF CreateWriteTmp, Goto
    <3>4. QED
      BY <2>3, <3>2, <3>3 DEF CreateWriteTmp
  <2>4. CASE CreateRename
    <3>1. Outcome(Creator) = "idle"
      BY <2>4 DEF Outcome, CreateRename
    <3>2. CASE file' = EmptyDoc /\ Goto(Creator, "done")
      <4>1. pc'[Creator] = "done"
        BY <2>1, <3>2, <1>t DEF Goto, TypeOK
      <4>2. Outcome(Creator)' = "committed"
        BY <4>1 DEF Outcome
      <4>3. outcome' = [outcome EXCEPT ![Creator] = "committed"]
        BY <2>1, <3>2, <4>2, <1>t, OutcomesAfter DEF Goto
      <4>4. file = NoDoc
        BY <2>4 DEF CreateRename, Inv, QueueInv, HolderInv
      <4>5. Store!Create
        BY <2>1, <2>4, <3>1, <3>2, <4>3, <4>4
           DEF Store!Create, Store!EmptyDoc, EmptyDoc, CreateRename
      <4>6. QED
        BY <4>5 DEF Store!Next
    <3>3. CASE UNCHANGED file /\ Goto(Creator, "failed")
      BY <2>1, <2>4, <3>1, <3>3, <1>f DEF CreateRename, Goto
    <3>4. QED
      BY <2>4, <3>2, <3>3 DEF CreateRename
  <2>5. QED
    BY <1>1, <2>2, <2>3, <2>4 DEF CreateRun
<1>2. ASSUME NEW t \in Task, ReadArray(t) PROVE Store!Next \/ UNCHANGED Store!vars
  <2>1. Outcome(t) = "idle"
    BY <1>2 DEF Outcome, ReadArray
  <2>2. CASE Goto(t, "appended")
    <3>1. pc'[t] = "appended"
      BY <2>2, <1>t DEF Goto, TypeOK
    <3>2. Outcome(t)' = "idle"
      BY <3>1 DEF Outcome
    <3>3. QED
      BY <1>2, <2>1, <2>2, <3>2, <1>q DEF ReadArray, Goto
  <2>3. CASE Goto(t, "failed")
    BY <1>2, <2>1, <2>3, <1>f DEF ReadArray, Goto
  <2>4. QED
    BY <1>2, <2>2, <2>3 DEF ReadArray
<1>3. ASSUME NEW t \in Task, UpdateRun(t) PROVE Store!Next
  <2>1. pc[t] \in {"idle", "appended"} /\ pc'[t] = "queued" /\ t # Creator
        /\ pc' = [pc EXCEPT ![t] = "queued"] /\ UNCHANGED file
        /\ partial' = [partial EXCEPT ![t] = HandedOver(t)]
    BY <1>3, <1>t DEF UpdateRun, Goto, TypeOK
  <2>2. Outcome(t) = "idle" /\ Outcome(t)' = "submitted"
    BY <2>1 DEF Outcome
  <2>3. outcome' = [outcome EXCEPT ![t] = "submitted"]
    BY <2>1, <2>2, <1>t, OutcomesAfter
  <2>4. HandedOver(t) \in SUBSET Task
    BY <1>t DEF HandedOver, TypeOK
  <2>5. Store!Submit(t)
    BY <2>1, <2>2, <2>3, <2>4 DEF Store!Submit
  <2>6. QED
    BY <2>5 DEF Store!Next
<1>4. ASSUME NEW t \in Task, ReadRun(t) \/ WriteTmp(t) PROVE UNCHANGED Store!vars
  <2>1. PICK label \in {"merge", "rename", "reject"} :
           pc' = [pc EXCEPT ![t] = label] /\ UNCHANGED <<file, partial>>
    BY <1>4 DEF ReadRun, WriteTmp, Goto
  <2>2. pc[t] \in {"queued", "merge"} /\ pc'[t] = label
    BY <1>4, <2>1, <1>t DEF ReadRun, WriteTmp, TypeOK
  <2>3. Outcome(t)' = Outcome(t)
    BY <2>1, <2>2 DEF Outcome
  <2>4. QED
    BY <2>1, <2>3, <1>q
<1>5. ASSUME NEW t \in Task, RenameTmp(t) PROVE Store!Next \/ UNCHANGED Store!vars
  <2>1. pc[t] = "rename" /\ file # NoDoc /\ run[t] = file /\ UNCHANGED partial
        /\ t # Creator
    BY <1>5 DEF RenameTmp, Inv, QueueInv, HolderInv, NoStaleMerge
  <2>2. Outcome(t) = "submitted"
    BY <2>1 DEF Outcome
  <2>3. CASE file' = Merged(t) /\ Goto(t, "resolve")
    <3>1. pc'[t] = "resolve"
      BY <2>3, <1>t DEF Goto, TypeOK
    <3>2. Outcome(t)' = "committed"
      BY <3>1 DEF Outcome
    <3>3. outcome' = [outcome EXCEPT ![t] = "committed"]
      BY <2>3, <3>2, <1>t, OutcomesAfter DEF Goto
    <3>4. Store!Commit(t)
      BY <2>1, <2>2, <2>3, <3>3 DEF Store!Commit, Merged
    <3>5. QED
      BY <3>4 DEF Store!Next
  <2>4. CASE UNCHANGED file /\ Goto(t, "reject")
    <3>1. pc'[t] = "reject"
      BY <2>4, <1>t DEF Goto, TypeOK
    <3>2. Outcome(t)' = "submitted"
      BY <3>1 DEF Outcome
    <3>3. QED
      BY <2>1, <2>2, <2>4, <3>2, <1>q DEF Goto
  <2>5. QED
    BY <1>5, <2>3, <2>4 DEF RenameTmp
<1>6. ASSUME NEW t \in Task, Release(t) PROVE Store!Next \/ UNCHANGED Store!vars
  <2>1. CASE pc[t] = "resolve"
    <3>1. pc' = [pc EXCEPT ![t] = "done"] /\ UNCHANGED <<file, partial>>
      BY <1>6, <2>1 DEF Release, Goto
    <3>2. pc'[t] = "done"
      BY <3>1, <1>t DEF TypeOK
    <3>3. Outcome(t)' = Outcome(t)
      BY <2>1, <3>2 DEF Outcome
    <3>4. QED
      BY <3>1, <3>3, <1>q
  <2>2. CASE pc[t] = "reject"
    <3>1. pc' = [pc EXCEPT ![t] = "failed"] /\ UNCHANGED <<file, partial>>
      BY <1>6, <2>2 DEF Release, Goto
    <3>2. Outcome(t) = "submitted"
      BY <2>2 DEF Outcome
    <3>3. QED
      BY <3>1, <3>2, <1>f
  <2>3. QED
    BY <1>6, <2>1, <2>2 DEF Release
<1>7. CASE Crash
  <2> DEFINE cut == {t \in Task : pc[t] \in Running /\ pc[t] # "resolve"}
  <2>1. \A t \in Task : pc'[t] = IF pc[t] = "resolve" THEN "unanswered"
                                ELSE IF pc[t] \in Running THEN "crashed"
                                ELSE pc[t]
    BY <1>7 DEF Crash
  <2>2. \A t \in Task : Outcome(t)' = IF t \in cut THEN "rejected" ELSE Outcome(t)
    BY <2>1 DEF Outcome, Running, InLock, Holding
  <2>3. \A t \in cut : Outcome(t) \in {"idle", "submitted"}
    BY <1>t, OutcomeIs DEF Running, InLock, Holding
  <2>4. UNCHANGED <<file, partial>>
    BY <1>7 DEF Crash
  <2>5. outcome' = [t \in Task |-> IF t \in cut THEN "rejected" ELSE outcome[t]]
    BY <2>2
  <2>6. CASE cut = {}
    BY <2>2, <2>4, <2>6 DEF Store!vars
  <2>7. CASE cut # {}
    <3>1. Store!Reject(cut)
      BY <2>3, <2>4, <2>5, <2>7 DEF Store!Reject
    <3>2. QED
      BY <3>1, <1>s
  <2>8. QED
    BY <2>6, <2>7
<1>8. CASE UNCHANGED vars
  <2>1. outcome' = outcome
    BY <1>8 DEF vars, Outcome
  <2>2. QED
    BY <1>8, <2>1 DEF vars, Store!vars
<1>9. QED
  BY <1>1, <1>2, <1>3, <1>4, <1>5, <1>6, <1>7, <1>8 DEF Next, Step

\* updateRun under its lock (run-state.ts:24-54, 349-366), with failing reads
\* and writes and crashes of the process, implements the store of whole,
\* one-at-a-time merges.
THEOREM ChainImplementsStore == Spec => ImplementsStore
<1>1. Init => Store!Init
  BY StoreInitial
<1>2. Inv /\ TypeOK' /\ [Next]_vars => [Store!Next]_(Store!vars)
  BY StoreStep
<1>3. QED
  BY <1>1, <1>2, InvAlways, TypeCorrect, PTL DEF Spec, ImplementsStore, Store!Spec
-----------------------------------------------------------------------------
(* Appends that were under way alone                                       *)

\* An array field is replaced by calls that have read it first.
ArraysAreAppended ==
    \A t \in Appender, u \in Task \ {Creator} : Target[u] = Target[t] => u \in Appender

\* Calls that are under way together are known to have overlapped.
TogetherInv ==
    \A t, u \in Task : t # u /\ pc[t] \in Running /\ pc[u] \in Running => t \in overlapped

\* An append under way alone that took effect is in the file, in the array every
\* later append has read and in the one it hands over.
Alone(t) == t \in Appender /\ t \notin overlapped

CarriedInv ==
    /\ \A t \in Task : pc[t] \in {"queued", "merge", "rename"} => t \in partial[t]
    /\ \A t \in Task : Alone(t) /\ pc[t] \in {"resolve", "done"} =>
          file # NoDoc /\ t \in file[Target[t]]
    /\ \A t \in Task, u \in Appender :
          Alone(t) /\ pc[t] = "done" /\ Target[u] = Target[t] =>
              /\ pc[u] = "appended" => t \in arr[u]
              /\ pc[u] \in {"queued", "merge", "rename"} => t \in partial[u]

AppendInv == TogetherInv /\ CarriedInv

\* A call that starts is noted beside the ones under way.
LEMMA StartIsNoted ==
    ASSUME TogetherInv, NEW t \in Task, NoteOverlap(t), pc[t] = "idle",
           \A u \in Task \ {t} : pc'[u] = pc[u]
    PROVE  TogetherInv' /\ overlapped \subseteq overlapped'
BY DEF TogetherInv, NoteOverlap

\* A call that goes on, or settles, is still beside the same ones.
LEMMA MovingKeepsTogether ==
    ASSUME TogetherInv, NEW t \in Task, overlapped' = overlapped,
           pc'[t] \in Running => pc[t] \in Running,
           \A u \in Task \ {t} : pc'[u] = pc[u]
    PROVE  TogetherInv'
BY DEF TogetherInv

LEMMA AppendStep == ArraysAreAppended /\ Inv /\ TypeOK' /\ AppendInv /\ [Next]_vars => AppendInv'
<1> SUFFICES ASSUME ArraysAreAppended, Inv, TypeOK', AppendInv, [Next]_vars PROVE AppendInv'
  OBVIOUS
<1> USE RunStateAssumption DEF AppendInv, Running, InLock, Holding
<1>t. TypeOK /\ HolderInv
  BY DEF Inv, QueueInv
<1>1. CASE CreateRun
  <2>1. /\ UNCHANGED <<arr, partial>> /\ Creator \notin Appender
        /\ \A u \in Task \ {Creator} : pc'[u] = pc[u]
        /\ pc[Creator] \in {"idle", "creating", "renaming"}
        /\ pc'[Creator] \in {"creating", "renaming", "done", "failed"}
        /\ file' = file \/ file = NoDoc
    BY <1>1, <1>t DEF CreateRun, CreateAccess, CreateWriteTmp, CreateRename, Goto, TypeOK, HolderInv
  <2>2. TogetherInv' /\ overlapped \subseteq overlapped'
    <3>1. CASE CreateAccess
      BY <2>1, <3>1, StartIsNoted DEF CreateAccess
    <3>2. CASE CreateWriteTmp \/ CreateRename
      <4>1. overlapped' = overlapped /\ pc[Creator] \in Running
        BY <3>2 DEF CreateWriteTmp, CreateRename
      <4> QED
        BY <2>1, <4>1, MovingKeepsTogether
    <3> QED
      BY <1>1, <3>1, <3>2 DEF CreateRun
  <2>3. CarriedInv'
    BY <2>1, <2>2 DEF CarriedInv, Alone
  <2> QED
    BY <2>2, <2>3
<1>2. ASSUME NEW t \in Task, ReadArray(t) PROVE AppendInv'
  <2>1. /\ UNCHANGED <<file, partial>> /\ t \in Appender
        /\ \A u \in Task \ {t} : pc'[u] = pc[u] /\ arr'[u] = arr[u]
        /\ pc[t] = "idle" /\ pc'[t] \in {"appended", "failed"}
        /\ pc'[t] = "appended" => arr'[t] = file[Target[t]]
    BY <1>2, <1>t DEF ReadArray, Goto, TypeOK
  <2>2. TogetherInv' /\ overlapped \subseteq overlapped'
    BY <1>2, <2>1, StartIsNoted DEF ReadArray
  <2>3. CarriedInv'
    BY <2>1, <2>2 DEF CarriedInv, Alone
  <2> QED
    BY <2>2, <2>3
<1>3. ASSUME NEW t \in Task, UpdateRun(t) PROVE AppendInv'
  <2>1. /\ UNCHANGED <<file, arr>>
        /\ \A u \in Task \ {t} : pc'[u] = pc[u] /\ partial'[u] = partial[u]
        /\ pc[t] = (IF t \in Appender THEN "appended" ELSE "idle") /\ pc'[t] = "queued"
        /\ partial'[t] = arr[t] \cup {t}
    BY <1>3, <1>t DEF UpdateRun, Goto, TypeOK, HandedOver
  <2>2. TogetherInv' /\ overlapped \subseteq overlapped'
    <3>1. CASE t \in Appender
      <4>1. overlapped' = overlapped
        BY <1>3, <3>1 DEF UpdateRun
      <4> QED
        BY <2>1, <3>1, <4>1, MovingKeepsTogether
    <3>2. CASE t \notin Appender
      BY <1>3, <2>1, <3>2, StartIsNoted DEF UpdateRun
    <3> QED
      BY <3>1, <3>2
  <2>3. CarriedInv'
    BY <2>1, <2>2 DEF CarriedInv, Alone
  <2> QED
    BY <2>2, <2>3
<1>4. ASSUME NEW t \in Task, ReadRun(t) \/ WriteTmp(t) PROVE AppendInv'
  <2>1. /\ UNCHANGED <<file, arr, partial, overlapped>>
        /\ \A u \in Task \ {t} : pc'[u] = pc[u]
        /\ pc[t] \in {"queued", "merge"} /\ pc'[t] \in {"merge", "rename", "reject"}
    BY <1>4, <1>t DEF ReadRun, WriteTmp, Goto, TypeOK
  <2>2. TogetherInv'
    BY <2>1, MovingKeepsTogether
  <2>3. CarriedInv'
    BY <2>1 DEF CarriedInv, Alone
  <2> QED
    BY <2>2, <2>3
<1>5. ASSUME NEW t \in Task, RenameTmp(t) PROVE AppendInv'
  <2>1. /\ UNCHANGED <<arr, partial, overlapped>>
        /\ \A u \in Task \ {t} : pc'[u] = pc[u]
        /\ pc[t] = "rename" /\ pc'[t] \in {"resolve", "reject"}
        /\ \/ file' = file /\ pc'[t] = "reject"
           \/ file' = Merged(t)
    BY <1>5, <1>t DEF RenameTmp, Goto, TypeOK
  <2>2. file # NoDoc /\ run[t] = file /\ t # Creator /\ file \in Document
    BY <2>1, <1>t DEF Inv, NoStaleMerge, HolderInv, TypeOK
  <2>3. /\ Merged(t) \in Document /\ Merged(t) # NoDoc
        /\ \A f \in Field : Merged(t)[f] = IF f = Target[t] THEN partial[t] ELSE file[f]
    BY <2>2, <1>t DEF Merged, Document, TypeOK
  <2>4. TogetherInv'
    BY <2>1, MovingKeepsTogether
  <2>5. ASSUME NEW u \in Task, Alone(u), pc'[u] \in {"resolve", "done"}
        PROVE  file' # NoDoc /\ u \in file'[Target[u]]
    <3>1. CASE u = t
      BY <2>1, <2>3, <2>5, <3>1 DEF CarriedInv
    <3>2. CASE u # t
      <4>1. pc[u] = "done"
        BY <2>1, <2>5, <3>2 DEF TogetherInv, Alone
      <4>2. u \in file[Target[u]] /\ file # NoDoc
        BY <2>5, <4>1 DEF CarriedInv
      <4>3. Target[t] = Target[u] => u \in partial[t]
        <5>1. Target[t] = Target[u] => t \in Appender
          BY <2>2, <2>5 DEF ArraysAreAppended, Alone
        <5> QED
          BY <2>1, <2>5, <4>1, <5>1 DEF CarriedInv
      <4> QED
        BY <2>1, <2>3, <4>2, <4>3
    <3> QED
      BY <3>1, <3>2
  <2>6. \A u \in Task : pc'[u] = "done" \/ pc'[u] = "appended" \/ pc'[u] \in {"queued", "merge", "rename"}
                        => pc'[u] = pc[u]
    BY <2>1
  <2>7. \A u \in Task : Alone(u)' <=> Alone(u)
    BY <2>1 DEF Alone
  <2>8. CarriedInv'
    BY <2>1, <2>5, <2>6, <2>7 DEF CarriedInv
  <2> QED
    BY <2>4, <2>8
<1>6. ASSUME NEW t \in Task, Release(t) PROVE AppendInv'
  <2>1. /\ UNCHANGED <<file, arr, partial, overlapped>>
        /\ \A u \in Task \ {t} : pc'[u] = pc[u]
        /\ pc[t] \in {"resolve", "reject"}
        /\ pc'[t] = IF pc[t] = "resolve" THEN "done" ELSE "failed"
    BY <1>6, <1>t DEF Release, Goto, TypeOK
  <2>2. TogetherInv'
    BY <2>1, MovingKeepsTogether
  <2>3. Alone(t) => \A u \in Task \ {t} : pc[u] \notin Running
    BY <2>1 DEF TogetherInv, Alone
  <2>4. \A u \in Task : Alone(u)' <=> Alone(u)
    BY <2>1 DEF Alone
  <2>5. CarriedInv'
    BY <2>1, <2>3, <2>4 DEF CarriedInv
  <2> QED
    BY <2>2, <2>5
<1>7. CASE Crash
  <2>1. /\ UNCHANGED <<file, arr, partial, overlapped>>
        /\ \A u \in Task : pc'[u] \notin Running
        /\ \A u \in Task : pc'[u] = "done" => pc[u] = "done"
    BY <1>7, <1>t DEF Crash, TypeOK, PCs, Settled
  <2> QED
    BY <2>1 DEF TogetherInv, CarriedInv, Alone
<1>8. CASE UNCHANGED vars
  BY <1>8 DEF vars, TogetherInv, CarriedInv, Alone
<1> QED
  BY <1>1, <1>2, <1>3, <1>4, <1>5, <1>6, <1>7, <1>8 DEF Next, Step

LEMMA AppendInit == Init => AppendInv
BY DEF Init, AppendInv, TogetherInv, CarriedInv, Running, InLock, Holding

\* addGroupToRun and addRetainedArtifact read the array outside the chain
\* (run-state.ts:375-400): for any calls, failures and crashes, an append that was
\* under way alone is still there when it is done, provided that every call that
\* replaces the array has read it first.
THEOREM LoneAppendsStay ==
    ASSUME ArraysAreAppended PROVE Spec => []IsolatedAppendsKept
<1>1. AppendInv => IsolatedAppendsKept
  BY RunStateAssumption DEF AppendInv, CarriedInv, Alone, IsolatedAppendsKept
<1>2. Inv /\ TypeOK' /\ AppendInv /\ [Next]_vars => AppendInv'
  BY AppendStep
<1> QED
  BY <1>1, <1>2, AppendInit, InvAlways, TypeCorrect, PTL DEF Spec
=============================================================================
