--------------------------- MODULE DispatchProofs ---------------------------
(***************************************************************************)
(* Theorems about Dispatch, for any plan without a cycle, with or without  *)
(* background flushes and failing file operations.                         *)
(***************************************************************************)
EXTENDS Dispatch, TLAPS

\* A ledger, or a stale copy of one, claims only what has been done.
Honest(l) == \A g \in Group : l[g].status \in Finished => g \in done

\* Wherever a ledger waits to be written, it is honest.
HonestInv ==
    /\ Honest(ledger) /\ Honest(mine) /\ Honest(copy)
    /\ update.status \in Finished => update.group \in done

\* What is done rests on what is done, and so does what is being done.
RestsInv ==
    /\ \A g \in done \cup wave : Dep[g] \subseteq done
    /\ pc = "fix" \/ (pc \in {"update", "write"} /\ back = "fix") => cur \in wave

Inv == TypeOK /\ HonestInv /\ RestsInv

-----------------------------------------------------------------------------
(* The ledger                                                              *)

LEMMA GroupIsThere == cur \in Group => NoUpdate.group \in Group
BY DEF NoUpdate

LEMMA BlankIsLedger == Blank \in Ledger /\ Honest(Blank)
BY DispatchAssumption DEF Blank, Ledger, Entry, Status, Honest, Finished

\* updateGroupLedger changes one entry, and keeps a ledger a ledger.
LEMMA UpdatedIsLedger ==
    ASSUME TypeOK, NEW l \in Ledger
    PROVE  /\ Updated(l) \in Ledger
           /\ \A g \in Group : Updated(l)[g].status =
                 IF g = update.group THEN update.status ELSE l[g].status
<1> DEFINE u == update.group
           e == [status |-> update.status,
                 fixAttempts |-> IF update.counts THEN update.fixAttempts
                                 ELSE l[u].fixAttempts]
<1>1. u \in Group /\ update.status \in Status
      /\ update.fixAttempts \in 0..MaxFixAttempts
  BY DEF TypeOK
<1>2. l[u].fixAttempts \in 0..MaxFixAttempts
  BY <1>1 DEF Ledger, Entry
<1>3. e \in Entry
  BY <1>1, <1>2 DEF Entry
<1>4. Updated(l) = [l EXCEPT ![u] = e]
  BY DEF Updated
<1> HIDE DEF e
<1>5. Updated(l) \in Ledger
  BY <1>1, <1>3, <1>4 DEF Ledger
<1>6. e.status = update.status
  BY DEF e
<1> QED
  BY <1>1, <1>4, <1>5, <1>6 DEF Ledger

LEMMA ReportingIsEntry ==
    ASSUME NEW e \in Entry, NEW s \in Status
    PROVE  Reporting(e, s) \in Entry /\ Reporting(e, s).status = s
BY DEF Entry, Reporting

\* A ledger whose entries change status only stays a ledger.
LEMMA RestatusIsLedger ==
    ASSUME NEW l \in Ledger, NEW W \in SUBSET Group, NEW s \in [W -> Status],
           NEW new, new = [g \in Group |-> IF g \in W THEN Reporting(l[g], s[g])
                                          ELSE l[g]]
    PROVE  /\ new \in Ledger
           /\ \A g \in Group : new[g].status =
                 IF g \in W THEN s[g] ELSE l[g].status
<1>1. \A g \in Group : new[g] = IF g \in W THEN Reporting(l[g], s[g]) ELSE l[g]
  OBVIOUS
<1>2. \A g \in Group : l[g] \in Entry
  BY DEF Ledger
<1>3. \A g \in W : s[g] \in Status
  OBVIOUS
<1> QED
  BY <1>1, <1>2, <1>3, ReportingIsEntry DEF Ledger

-----------------------------------------------------------------------------
(* Initially                                                               *)

LEMMA InitInv == Init => Inv
<1> SUFFICES ASSUME Init PROVE Inv
  OBVIOUS
<1>1. ledger \in [Group -> [status : {"queued"} \cup Finished, fixAttempts : {0}]]
      /\ \A g \in Group : ledger[g].status \in Finished
                            => \A d \in Dep[g] : ledger[d].status \in Finished
  BY DEF Init, InitialLedger
<1>2. ledger \in Ledger
  BY <1>1, DispatchAssumption DEF Ledger, Entry, Status, Finished
<1>3. cur \in Group /\ update = NoUpdate /\ mine = Blank /\ copy = Blank
      /\ pc = "ready" /\ wave = {} /\ done = {g \in Group : ledger[g].status \in Finished}
  BY DEF Init
<1>4. update \in [group : Group, status : Status, fixAttempts : 0..MaxFixAttempts,
                  counts : BOOLEAN]
  BY <1>3, DispatchAssumption DEF NoUpdate, Status
<1>5. TypeOK
  <2>1. result \in [Group -> Kinds] /\ runs \in [Group -> Nat]
    BY DEF Init, Kinds
  <2>2. /\ attempts \in 0..MaxFixAttempts /\ back \in {"mark", "process", "fix", "block"}
        /\ flush \in {"off", "reading", "writing"} /\ pc \in PCs
    BY DispatchAssumption DEF Init, PCs
  <2>3. /\ patch \subseteq Group /\ todo \subseteq wave /\ wave \subseteq Group
        /\ frontier \subseteq Group /\ visited \subseteq Group /\ done \subseteq Group
        /\ lost \subseteq Group /\ unread \in BOOLEAN
    BY DEF Init
  <2>4. mine \in Ledger /\ copy \in Ledger
    BY <1>3, BlankIsLedger
  <2> QED
    BY <1>2, <1>3, <1>4, <2>1, <2>2, <2>3, <2>4 DEF TypeOK
<1>6. HonestInv
  BY <1>3, BlankIsLedger DEF HonestInv, Honest, NoUpdate, Finished
<1>7. RestsInv
  <2>1. ASSUME NEW g \in done PROVE Dep[g] \subseteq done
    <3>1. g \in Group /\ Dep[g] \subseteq Group
      BY <1>3, DispatchAssumption
    <3> QED
      BY <1>1, <1>3, <3>1
  <2> QED
    BY <1>3, <2>1 DEF RestsInv
<1> QED
  BY <1>5, <1>6, <1>7 DEF Inv

-----------------------------------------------------------------------------
(* The type invariant                                                      *)

Updates == [group : Group, status : Status, fixAttempts : 0..MaxFixAttempts,
            counts : BOOLEAN]

LEMMA SetStatusType ==
    ASSUME NEW g \in Group, NEW s \in Status, NEW n \in 0..MaxFixAttempts,
           NEW next \in {"mark", "process", "fix", "block"},
           mine \in Ledger,
           SetStatus(g, s, next) \/ SetStatusAndCount(g, s, n, next)
    PROVE  /\ update' \in Updates /\ mine' \in Ledger
           /\ back' \in {"mark", "process", "fix", "block"} /\ pc' \in PCs
           /\ pc' = "update" /\ back' = next /\ mine' = mine
           /\ update'.group = g /\ update'.status = s
<1>1. 0 \in 0..MaxFixAttempts
  BY DispatchAssumption
<1>2. \E m \in 0..MaxFixAttempts, b \in BOOLEAN :
        update' = [group |-> g, status |-> s, fixAttempts |-> m, counts |-> b]
  BY <1>1 DEF SetStatus, SetStatusAndCount
<1>3. update' \in Updates /\ update'.group = g /\ update'.status = s
  BY <1>2 DEF Updates
<1> QED
  BY <1>3 DEF SetStatus, SetStatusAndCount, Goto, PCs

LEMMA EmitType ==
    ASSUME TypeOK, Emit
    PROVE  /\ flush' \in {"off", "reading", "writing"} /\ copy' = copy
           /\ copy' \in Ledger
BY DEF TypeOK, Emit, flushVars

LEMMA NextType == TypeOK /\ [Next]_vars => TypeOK'
<1> SUFFICES ASSUME TypeOK, [Next]_vars PROVE TypeOK'
  OBVIOUS
<1> USE DEF TypeOK
<1> USE DEF Goto, callVars, itemVars, updateVars, flushVars, ghostVars, lossVars, PCs, Ended
<1>n. NoUpdate \in Updates
  BY DispatchAssumption DEF NoUpdate, Updates, Status
<1>1. CASE UpdateRead
  BY <1>1, <1>n DEF UpdateRead, Updates
<1>2. CASE UpdateWrite
  BY <1>2, <1>n, UpdatedIsLedger, BlankIsLedger DEF UpdateWrite, Updates
<1>3. CASE SelectWave
  <2>1. flush' \in {"off", "reading", "writing"} /\ copy' \in Ledger
    BY <1>3, EmitType DEF SelectWave
  <2> QED
    BY <1>3, <2>1 DEF SelectWave, Ready
<1>4. CASE Materialize
  BY <1>4 DEF Materialize
<1>5. ASSUME NEW g \in Group, MarkRunning(g) PROVE TypeOK'
  <2>1. SetStatus(g, "running", "mark")
    BY <1>5 DEF MarkRunning
  <2>2. update' \in Updates /\ mine' \in Ledger
        /\ back' \in {"mark", "process", "fix", "block"} /\ pc' \in PCs
    BY <2>1, SetStatusType, DispatchAssumption DEF Status
  <2> QED
    BY <1>5, <2>2 DEF MarkRunning, Updates
<1>6. CASE ForcedFlush
  <2>1. [g \in Group |-> IF g \in wave THEN Reporting(ledger[g], "running")
                         ELSE ledger[g]] \in Ledger
    BY ReportingIsEntry DEF Ledger, Status
  <2> QED
    BY <1>6, <2>1 DEF ForcedFlush
<1>7. CASE RunWave
  <2>1. flush' \in {"off", "reading", "writing"} /\ copy' \in Ledger
    BY <1>7, EmitType DEF RunWave
  <2>2. PICK r \in [wave -> Reported] :
          ledger' = [g \in Group |-> IF g \in wave
                                     THEN Reporting(ledger[g], r[g])
                                     ELSE ledger[g]]
    BY <1>7 DEF RunWave
  <2>3. r \in [wave -> Status]
    BY DEF Reported, Status
  <2>4. ledger' \in Ledger
    <3>1. ledger \in Ledger /\ wave \in SUBSET Group
      OBVIOUS
    <3> HIDE DEF TypeOK
    <3> QED
      BY <2>2, <2>3, <3>1, RestatusIsLedger
  <2>5. runs' \in [Group -> Nat]
    <3>1. runs \in [Group -> Nat]
      OBVIOUS
    <3>2. runs' = [g \in Group |-> IF g \in wave THEN runs[g] + 1 ELSE runs[g]]
      BY <1>7 DEF RunWave
    <3> QED
      BY <3>1, <3>2
  <2> QED
    BY <1>7, <2>1, <2>4, <2>5 DEF RunWave
<1>8. ASSUME NEW g \in Group, ProcessSuccess(g) PROVE TypeOK'
  <2>1. PICK s \in {"succeeded", "applied"} : SetStatus(g, s, "process")
    BY <1>8 DEF ProcessSuccess
  <2>2. update' \in Updates /\ mine' \in Ledger
        /\ back' \in {"mark", "process", "fix", "block"} /\ pc' \in PCs
    BY <2>1, SetStatusType, DispatchAssumption DEF Status
  <2> QED
    BY <1>8, <2>2 DEF ProcessSuccess, Updates
<1>9. ASSUME NEW g \in Group, ProcessFailure(g) PROVE TypeOK'
  <2>1. attempts' \in 0..MaxFixAttempts
    BY <1>9, DispatchAssumption DEF ProcessFailure, Ledger, Entry
  <2>2. /\ update' \in Updates /\ mine' \in Ledger
        /\ back' \in {"mark", "process", "fix", "block"} /\ pc' \in PCs
        /\ flush' \in {"off", "reading", "writing"} /\ copy' \in Ledger
    <3>1. CASE attempts' < MaxFixAttempts
      <4>1. attempts' + 1 \in 0..MaxFixAttempts
        <5>1. ASSUME NEW n \in 0..MaxFixAttempts, n < MaxFixAttempts,
                     MaxFixAttempts \in Nat
              PROVE  n + 1 \in 0..MaxFixAttempts
          BY <5>1
        <5> QED
          BY <2>1, <3>1, <5>1, DispatchAssumption
      <4>2. SetStatusAndCount(g, "retrying", attempts' + 1, "fix") /\ Emit
        BY <1>9, <3>1 DEF ProcessFailure
      <4> QED
        BY <4>1, <4>2, EmitType, SetStatusType DEF Status
    <3>2. CASE ~(attempts' < MaxFixAttempts)
      <4>1. SetStatusAndCount(g, "failed", attempts', "block") /\ UNCHANGED flushVars
        BY <1>9, <3>2 DEF ProcessFailure
      <4> QED
        BY <2>1, <4>1, SetStatusType DEF Status
    <3> QED
      BY <3>1, <3>2
  <2> QED
    BY <1>9, <2>1, <2>2 DEF ProcessFailure, Updates
<1>10. CASE FixSucceeds
  <2>1. CASE patch' = patch \cup {cur} /\ SetStatus(cur, "succeeded", "process")
    <3>1. update' \in Updates /\ mine' \in Ledger
          /\ back' \in {"mark", "process", "fix", "block"} /\ pc' \in PCs
      BY <2>1, SetStatusType, DispatchAssumption DEF Status
    <3> QED
      BY <1>10, <2>1, <3>1 DEF FixSucceeds, Updates
  <2>2. CASE Goto("threw") /\ UNCHANGED <<patch, updateVars>>
    BY <1>10, <2>2 DEF FixSucceeds
  <2> QED
    BY <1>10, <2>1, <2>2 DEF FixSucceeds
<1>11. CASE FixFails
  <2>1. update' \in Updates /\ mine' \in Ledger
        /\ back' \in {"mark", "process", "fix", "block"} /\ pc' \in PCs
        /\ flush' \in {"off", "reading", "writing"} /\ copy' \in Ledger
    BY <1>11, SetStatusType, EmitType DEF FixFails, Status
  <2> QED
    BY <1>11, <2>1 DEF FixFails, Updates
<1>12. ASSUME NEW d \in Group, BlockDependent(d) PROVE TypeOK'
  <2>1. CASE UNCHANGED <<frontier, updateVars, pc>>
    BY <1>12, <2>1 DEF BlockDependent
  <2>2. CASE frontier' = frontier \cup {d} /\ SetStatus(d, "blocked", "block")
    <3>1. update' \in Updates /\ mine' \in Ledger
          /\ back' \in {"mark", "process", "fix", "block"} /\ pc' \in PCs
      BY <2>2, SetStatusType, DispatchAssumption DEF Status
    <3> QED
      BY <1>12, <2>2, <3>1 DEF BlockDependent, Updates
  <2> QED
    BY <1>12, <2>1, <2>2 DEF BlockDependent
<1>13. CASE BlockedAll
  BY <1>13 DEF BlockedAll
<1>14. CASE WaveDone
  BY <1>14 DEF WaveDone, Kinds
<1>15. CASE CheckLedger
  <2>1. flush' \in {"off", "reading", "writing"} /\ copy' \in Ledger
    BY <1>15, EmitType DEF CheckLedger
  <2> QED
    BY <1>15, <2>1 DEF CheckLedger
<1>16. CASE StopPartial
  BY <1>16 DEF StopPartial
<1>17. CASE FlushRead
  BY <1>17 DEF FlushRead
<1>18. CASE FlushWrite
  BY <1>18, BlankIsLedger DEF FlushWrite
<1>19. CASE UNCHANGED vars
  BY <1>19 DEF vars
<1> QED
  BY <1>1, <1>2, <1>3, <1>4, <1>5, <1>6, <1>7, <1>8, <1>9, <1>10, <1>11, <1>12,
     <1>13, <1>14, <1>15, <1>16, <1>17, <1>18, <1>19 DEF Next, Main

\* The variables of the routine keep their types (index.ts, the wave loop).
THEOREM TypeCorrect == Spec => []TypeOK
<1>1. Init => TypeOK
  BY InitInv DEF Inv
<1> QED
  BY <1>1, NextType, PTL DEF Spec

-----------------------------------------------------------------------------
(* What is done                                                            *)

LEMMA NextDone ==
    TypeOK /\ HonestInv /\ RestsInv /\ TypeOK' /\ [Next]_vars
      => HonestInv' /\ RestsInv'
<1> SUFFICES ASSUME TypeOK, HonestInv, RestsInv, TypeOK', [Next]_vars
             PROVE  HonestInv' /\ RestsInv'
  OBVIOUS
<1> USE DEF HonestInv, Honest, RestsInv, Finished
<1> USE DEF Goto, callVars, itemVars, updateVars, flushVars, ghostVars, lossVars
<1>n. NoUpdate.status \notin Finished
  BY DEF NoUpdate
<1>1. CASE UpdateRead
  <2>1. pc' = "fix" => cur \in wave
    BY <1>1 DEF UpdateRead
  <2> QED
    BY <1>1, <1>n, <2>1 DEF UpdateRead
<1>2. CASE UpdateWrite
  <2>1. mine \in Ledger
    BY DEF TypeOK
  <2>2. \A g \in Group : Updated(mine)[g].status \in Finished => g \in done
    BY <2>1, UpdatedIsLedger
  <2>3. ledger' = Updated(mine) \/ ledger' = ledger
    BY <1>2 DEF UpdateWrite
  <2>4. Honest(ledger)'
    BY <1>2, <2>2, <2>3 DEF UpdateWrite
  <2>5. UNCHANGED <<done, wave, cur, copy, back>> /\ mine' = Blank /\ update' = NoUpdate
        /\ pc = "write" /\ pc' = back
    BY <1>2 DEF UpdateWrite
  <2> QED
    BY <2>4, <2>5, <1>n, BlankIsLedger
<1>3. CASE SelectWave
  <2>1. \A g \in wave' : Dep[g] \subseteq done
    <3>1. \A g \in Ready : Dep[g] \subseteq done
      BY DispatchAssumption DEF Ready
    <3> QED
      BY <1>3, <3>1 DEF SelectWave
  <2>2. UNCHANGED <<ledger, mine, update, done>> /\ copy' = copy
        /\ pc' \in {"final", "lineage"}
    BY <1>3 DEF SelectWave, Emit
  <2> QED
    BY <2>1, <2>2
<1>4. CASE Materialize
  BY <1>4 DEF Materialize
<1>5. ASSUME NEW g \in Group, MarkRunning(g) PROVE HonestInv' /\ RestsInv'
  <2>1. update'.status = "running" /\ pc' = "update" /\ back' = "mark"
        /\ mine' = mine
    BY <1>5 DEF MarkRunning, SetStatus
  <2> QED
    BY <1>5, <2>1 DEF MarkRunning
<1>6. CASE ForcedFlush
  <2>1. \A g \in Group : ledger'[g].status \in Finished => g \in done
    <3>1. \A g \in Group : ledger[g] \in Entry
      BY DEF TypeOK, Ledger
    <3>2. \A g \in Group : Reporting(ledger[g], "running").status = "running"
      BY <3>1, ReportingIsEntry DEF Status
    <3>3. \A g \in Group : ledger'[g] \in {ledger[g], Reporting(ledger[g], "running")}
      BY <1>6 DEF ForcedFlush, TypeOK, Ledger
    <3> QED
      BY <3>2, <3>3
  <2> QED
    BY <1>6, <2>1 DEF ForcedFlush
<1>7. CASE RunWave
  <2>1. PICK r \in [wave -> Reported] :
          ledger' = [g \in Group |-> IF g \in wave
                                     THEN Reporting(ledger[g], r[g])
                                     ELSE ledger[g]]
    BY <1>7 DEF RunWave
  <2>2. r \in [wave -> Status] /\ ledger \in Ledger /\ wave \in SUBSET Group
    BY DEF Reported, Status, TypeOK
  <2>3. \A g \in Group : ledger'[g].status =
             IF g \in wave THEN r[g] ELSE ledger[g].status
    BY <2>1, <2>2, RestatusIsLedger
  <2>4. \A g \in wave : r[g] \notin Finished
    BY DEF Reported
  <2>5. UNCHANGED <<mine, update, copy, done, wave, cur, back>> /\ pc' = "process"
    BY <1>7 DEF RunWave, Emit
  <2> QED
    BY <2>3, <2>4, <2>5
<1>8. ASSUME NEW g \in Group, ProcessSuccess(g) PROVE HonestInv' /\ RestsInv'
  <2>1. g \in wave /\ done' = done \cup {g} /\ UNCHANGED <<ledger, wave, cur, copy>>
    BY <1>8 DEF ProcessSuccess, Turn, TypeOK
  <2>2. update'.group = g /\ pc' = "update" /\ back' = "process" /\ mine' = mine
    BY <1>8 DEF ProcessSuccess, SetStatus
  <2> QED
    BY <2>1, <2>2
<1>9. ASSUME NEW g \in Group, ProcessFailure(g) PROVE HonestInv' /\ RestsInv'
  <2>1. g \in wave /\ cur' = g /\ UNCHANGED <<ledger, wave, done>> /\ copy' = copy
    BY <1>9 DEF ProcessFailure, Turn, TypeOK, Emit
  <2>2. update'.status \in {"retrying", "failed"} /\ pc' = "update" /\ mine' = mine
    BY <1>9 DEF ProcessFailure, SetStatusAndCount
  <2> QED
    BY <2>1, <2>2
<1>10. CASE FixSucceeds
  <2>1. cur \in wave /\ done' = done \cup {cur} /\ UNCHANGED <<ledger, wave, cur, copy>>
    BY <1>10 DEF FixSucceeds
  <2>2. \/ /\ update'.group = cur /\ pc' = "update" /\ back' = "process"
           /\ mine' = mine
        \/ UNCHANGED updateVars /\ pc' = "threw"
    BY <1>10 DEF FixSucceeds, SetStatus
  <2> QED
    BY <2>1, <2>2
<1>11. CASE FixFails
  <2>1. update'.status = "failed" /\ pc' = "update" /\ back' = "block"
        /\ mine' = mine /\ copy' = copy
    BY <1>11 DEF FixFails, SetStatusAndCount, Emit
  <2> QED
    BY <1>11, <2>1 DEF FixFails
<1>12. ASSUME NEW d \in Group, BlockDependent(d) PROVE HonestInv' /\ RestsInv'
  <2>1. \/ UNCHANGED <<updateVars, pc>>
        \/ /\ update'.status = "blocked" /\ pc' = "update" /\ back' = "block"
           /\ mine' = mine
    BY <1>12 DEF BlockDependent, SetStatus
  <2> QED
    BY <1>12, <2>1 DEF BlockDependent
<1>13. CASE BlockedAll
  BY <1>13 DEF BlockedAll
<1>14. CASE WaveDone
  BY <1>14 DEF WaveDone
<1>15. CASE CheckLedger
  BY <1>15 DEF CheckLedger, Emit
<1>16. CASE StopPartial
  BY <1>16 DEF StopPartial
<1>17. CASE FlushRead
  BY <1>17 DEF FlushRead
<1>18. CASE FlushWrite
  BY <1>18, BlankIsLedger DEF FlushWrite
<1>19. CASE UNCHANGED vars
  BY <1>19 DEF vars
<1> QED
  BY <1>1, <1>2, <1>3, <1>4, <1>5, <1>6, <1>7, <1>8, <1>9, <1>10, <1>11, <1>12,
     <1>13, <1>14, <1>15, <1>16, <1>17, <1>18, <1>19 DEF Next, Main

LEMMA InvAlways == Spec => []Inv
<1>1. Inv /\ [Next]_vars => Inv'
  BY NextType, NextDone DEF Inv
<1> QED
  BY <1>1, InitInv, PTL DEF Spec

\* Whatever stale copies of the ledger are written back and whatever updates are
\* lost, a group called succeeded or applied has an accepted result or fix.
THEOREM LedgerIsHonest == Spec => []LedgerNeverOverclaims
<1>1. Inv => LedgerNeverOverclaims
  BY DEF Inv, HonestInv, Honest, LedgerNeverOverclaims
<1> QED
  BY <1>1, InvAlways, PTL

\* No worker is given a group before everything under it is done, so done work
\* always rests on done work.
THEOREM WorkRestsOnWork == Spec => []DispatchedAfterDependencies
<1>1. Inv => DispatchedAfterDependencies
  BY DEF Inv, RestsInv, DispatchedAfterDependencies
<1> QED
  BY <1>1, InvAlways, PTL
-----------------------------------------------------------------------------
(* What the ledger says of the groups none of whose changes were lost      *)

\* The status a group has once the update under way is written.
Due(g) == IF pc \in {"update", "write"} /\ g = update.group THEN update.status
          ELSE ledger[g].status

\* The routine is at one of the labels, or on its way back to it.
At(labels) == pc \in labels \/ (pc \in {"update", "write"} /\ back \in labels)

Marking == pc \in {"lineage", "dispatch"} \/ At({"mark"})
Working == At({"process", "fix", "block"})
Over == {"final", "stop", "partial", "collect"}

\* Neither the group nor anything it rests on has lost a change.
Clean(g) == ~Tainted(g)

\* What the main routine and the ledger agree on, but for the groups that lost a change.
AloneInv ==
    /\ pc \in {"write", "stop"} =>
          \A g \in Group \ lost : mine[g].status = ledger[g].status
    /\ pc \in Over \cup {"ready"} => wave = {}
    /\ pc \in Over /\ ~unread => \A g \in Ready : ~Clean(g)
    /\ pc = "collect" /\ ~unread =>
          \A g \in Group \ lost : ledger[g].status \notin {"failed", "blocked"}

\* What a wave has made of its groups.
WaveInv ==
    /\ \A g \in Group \ wave :
          Clean(g) => Due(g) \in Finished \cup {"queued", "failed", "blocked"}
    /\ Marking => \A g \in wave : Clean(g) => Due(g) \in {"queued", "running"}
    /\ Working => /\ \A g \in todo : Clean(g) => Due(g) \in Reported
                  /\ \A g \in wave \ todo : Clean(g) =>
                        Due(g) \in Finished \cup {"failed"} \/ (At({"fix"}) /\ g = cur)
    /\ At({"fix"}) => /\ cur \in wave \ todo /\ frontier = {cur} /\ visited = {}
                      /\ Clean(cur) => Due(cur) = "retrying"

\* What has been started rests on what is finished.
StartedInv ==
    \A g \in Group, d \in Group :
        d \in Dep[g] /\ Clean(g) /\ (g \in wave \/ Due(g) \notin {"queued", "blocked"})
            => Due(d) \in Finished

\* A group that will not be finished.
GivenUp(d) == d \notin todo /\ Due(d) \in {"failed", "blocked"}

\* The walk over dependents has blocked every group under one given up, up to the
\* groups it still has to visit.
BlockedInv ==
    /\ \A g \in Group, d \in Group :
          d \in Dep[g] /\ Clean(g) /\ GivenUp(d) =>
              Due(g) = "blocked" \/ (At({"block"}) /\ d \in frontier /\ g \notin visited)
    /\ At({"block"}) => /\ \A f \in frontier : Clean(f) => GivenUp(f)
                        /\ \A v \in visited : Clean(v) => Due(v) = "blocked"
    /\ \A g \in Group : Clean(g) /\ Due(g) = "blocked" =>
          \E d \in Closure(g) : d \notin todo /\ Due(d) = "failed"

AccountInv == AloneInv /\ WaveInv /\ StartedInv /\ BlockedInv

\* What a group rests on is in its closure, and so is what that rests on.
LEMMA ClosureHolds ==
    ASSUME NEW g \in Group, NEW f \in Dep[g], f \in Group
    PROVE  f \in Closure(g) /\ Closure(f) \subseteq Closure(g)
<1>1. ASSUME NEW S \in SUBSET Group, Dep[g] \subseteq S, \A x \in S : Dep[x] \subseteq S
      PROVE  f \in S /\ Dep[f] \subseteq S
  BY <1>1
<1> QED
  BY <1>1 DEF Closure

LEMMA ClosureOfGroups == \A g \in Group : Closure(g) \subseteq Group
BY DEF Closure

\* What a clean group rests on is clean.
LEMMA CleanBelow ==
    ASSUME NEW g \in Group, NEW d \in Group, d \in Dep[g], Clean(g)
    PROVE  Clean(d)
BY ClosureHolds DEF Clean, Tainted

\* ... at any depth: the closure of what a group rests on is part of the group's.
LEMMA CleanThrough ==
    ASSUME NEW g \in Group, NEW d \in Closure(g), Clean(g)
    PROVE  Clean(d)
<1> DEFINE T == {x \in Closure(g) : Closure(x) \subseteq Closure(g)}
<1>1. T \in SUBSET Group
  BY ClosureOfGroups
<1>2. ASSUME NEW x \in Group, NEW y \in Dep[x], x = g \/ x \in T PROVE y \in T
  <2>1. y \in Group
    BY <1>2, DispatchAssumption
  <2>2. y \in Closure(x) /\ Closure(y) \subseteq Closure(x)
    BY <2>1, ClosureHolds
  <2> QED
    BY <1>2, <2>2
<1>3. Dep[g] \subseteq T /\ \A x \in T : Dep[x] \subseteq T
  BY <1>1, <1>2
<1>4. d \in T
  <2> HIDE DEF T
  <2> QED
    BY <1>1, <1>3 DEF Closure
<1> QED
  BY <1>4 DEF Clean, Tainted

\* The lost changes only grow in number: a group that is clean after a step was clean
\* before it, and lost nothing in it.
LEMMA CleanBefore ==
    ASSUME lost \subseteq lost', NEW g \in Group, Clean(g)'
    PROVE  Clean(g) /\ g \notin lost' /\ \A d \in Closure(g) : d \notin lost'
<1>1. ({g} \cup Closure(g)) \cap lost' = {}
  BY DEF Clean, Tainted
<1> QED
  BY <1>1 DEF Clean, Tainted

LEMMA CleanIsKept == ASSUME lost' = lost, NEW g \in Group PROVE Clean(g)' <=> Clean(g)
BY DEF Clean, Tainted

LEMMA CleanHasAll == ASSUME NEW g \in Group, Clean(g) PROVE g \notin lost
BY DEF Clean, Tainted

\* The steps of the routine up to its call of updateGroupLedger change the status
\* that is due of one group.
LEMMA OneIsDue ==
    ASSUME TypeOK, pc \notin {"update", "write"}, ledger' = ledger,
           NEW h \in Group, NEW s \in Status, NEW n \in 0..MaxFixAttempts,
           NEW next \in {"mark", "process", "fix", "block"},
           SetStatus(h, s, next) \/ SetStatusAndCount(h, s, n, next)
    PROVE  /\ \A g \in Group : Due(g)' = IF g = h THEN s ELSE Due(g)
           /\ pc' = "update" /\ back' = next
<1>1. pc' = "update" /\ back' = next /\ update'.group = h /\ update'.status = s
  BY SetStatusType DEF TypeOK
<1> QED
  BY <1>1 DEF Due

\* A step of no wave keeps the account of the groups it does not lose a change of.
LEMMA LossKeepsAccount ==
    ASSUME TypeOK, AccountInv, lost \subseteq lost',
           \A g \in Group : g \notin lost' => Due(g)' = Due(g),
           UNCHANGED <<wave, todo, cur, frontier, visited>>,
           Marking' => Marking, Working' => Working /\ (At({"fix"}) => At({"fix"})'),
           At({"fix"})' => At({"fix"}), At({"block"})' <=> At({"block"})
    PROVE  WaveInv' /\ StartedInv' /\ BlockedInv'
<1>1. \A g \in Group : Clean(g)' =>
         Clean(g) /\ Due(g)' = Due(g) /\ \A d \in Closure(g) : Due(d)' = Due(d)
  BY CleanBefore, ClosureOfGroups
<1>2. todo \subseteq wave /\ wave \subseteq Group
  BY DEF TypeOK
<1>3. \A g, d \in Group : d \in Dep[g] /\ Clean(g)' => Due(d)' = Due(d)
  BY <1>1, ClosureHolds
<1>4. WaveInv'
  <2>1. At({"fix"})' => (Clean(cur)' => Due(cur)' = "retrying")
    <3>1. PICK h \in Group : h = cur
      BY DEF TypeOK
    <3>2. Due(cur)' = Due(h)' /\ (Clean(cur)' <=> Clean(h)')
      BY <3>1 DEF Due, Clean, Tainted
    <3> QED
      BY <1>1, <3>1, <3>2 DEF AccountInv, WaveInv
  <2>2. \A g \in Group \ wave :
           Clean(g)' => Due(g)' \in Finished \cup {"queued", "failed", "blocked"}
    BY <1>1 DEF AccountInv, WaveInv
  <2>3. Marking' => \A g \in wave : Clean(g)' => Due(g)' \in {"queued", "running"}
    BY <1>1, <1>2 DEF AccountInv, WaveInv
  <2>4. Working' => /\ \A g \in todo : Clean(g)' => Due(g)' \in Reported
                    /\ \A g \in wave \ todo : Clean(g)' =>
                          Due(g)' \in Finished \cup {"failed"} \/ (At({"fix"})' /\ g = cur)
    BY <1>1, <1>2 DEF AccountInv, WaveInv
  <2>5. At({"fix"})' => cur \in wave \ todo /\ frontier = {cur} /\ visited = {}
    BY DEF AccountInv, WaveInv
  <2> QED
    BY <2>1, <2>2, <2>3, <2>4, <2>5 DEF WaveInv
<1>5. StartedInv'
  BY <1>1, <1>3 DEF AccountInv, StartedInv
<1>6. BlockedInv'
  <2>1. \A g, d \in Group : d \in Dep[g] /\ Clean(g)' => (GivenUp(d)' <=> GivenUp(d))
    BY <1>3 DEF GivenUp
  <2>2. \A g, d \in Group : d \in Dep[g] /\ Clean(g)' /\ GivenUp(d)' =>
            Due(g)' = "blocked" \/ (At({"block"})' /\ d \in frontier /\ g \notin visited)
    BY <1>1, <2>1 DEF AccountInv, BlockedInv
  <2>3. \A f \in Group : Clean(f)' => (GivenUp(f)' <=> GivenUp(f))
    BY <1>1 DEF GivenUp
  <2>4. At({"block"})' => /\ \A f \in frontier : Clean(f)' => GivenUp(f)'
                          /\ \A v \in visited : Clean(v)' => Due(v)' = "blocked"
    BY <1>1, <2>3 DEF AccountInv, BlockedInv, TypeOK
  <2>5. \A g \in Group : Clean(g)' /\ Due(g)' = "blocked" =>
            \E d \in Closure(g) : d \notin todo /\ Due(d)' = "failed"
    BY <1>1 DEF AccountInv, BlockedInv
  <2> QED
    BY <2>2, <2>4, <2>5 DEF BlockedInv
<1> QED
  BY <1>4, <1>5, <1>6

\* An update that ends leaves in the ledger what was due, or loses the change of its group.
LEMMA UpdateKeepsAccount ==
    ASSUME TypeOK, AccountInv, UpdateRead \/ UpdateWrite
    PROVE  AccountInv'
<1> USE DEF Goto, callVars, itemVars, flushVars
<1>1. /\ UNCHANGED <<wave, todo, cur, frontier, visited, back, unread>>
      /\ pc \in {"update", "write"}
      /\ pc' \in {"write", back}
      /\ lost \subseteq lost'
  BY DEF UpdateRead, UpdateWrite
<1>2. back \in {"mark", "process", "fix", "block"} /\ update.group \in Group
  BY DEF TypeOK
<1>3. \A g \in Group : g \notin lost' => Due(g)' = Due(g)
  <2>1. CASE UpdateRead
    <3>1. CASE mine' = ledger /\ pc' = "write" /\ UNCHANGED <<update, lost>>
      BY <2>1, <3>1 DEF UpdateRead, Due
    <3>2. CASE pc' = back /\ lost' = lost \cup {update.group}
      BY <1>2, <2>1, <3>2 DEF UpdateRead, Due
    <3> QED
      BY <2>1, <3>1, <3>2 DEF UpdateRead
  <2>2. CASE UpdateWrite
    <3>1. pc = "write" /\ pc' = back
      BY <2>2 DEF UpdateWrite
    <3>2. CASE ledger' = Updated(mine) /\ lost' = lost
      <4>1. \A g \in Group : ledger'[g].status =
               IF g = update.group THEN update.status ELSE mine[g].status
        BY <3>2, UpdatedIsLedger DEF TypeOK
      <4>2. \A g \in Group \ lost : mine[g].status = ledger[g].status
        BY <3>1 DEF AccountInv, AloneInv
      <4> QED
        BY <1>2, <3>1, <3>2, <4>1, <4>2 DEF Due
    <3>3. CASE lost' = lost \cup {update.group} /\ ledger' = ledger
      BY <1>2, <3>1, <3>3 DEF Due
    <3> QED
      BY <2>2, <3>2, <3>3 DEF UpdateWrite
  <2> QED
    BY <2>1, <2>2
<1>4. \A labels \in SUBSET {"mark", "process", "fix", "block"} : At(labels)' = At(labels)
  BY <1>1, <1>2 DEF At
<1>5. At({"mark"})' = At({"mark"}) /\ At({"fix"})' = At({"fix"})
      /\ At({"block"})' = At({"block"}) /\ Working' = Working
  BY <1>4 DEF Working
<1>6. Marking' = Marking
  BY <1>1, <1>2, <1>5 DEF Marking
<1>7. AloneInv'
  <2>1. pc' = "write" => mine' = ledger /\ ledger' = ledger
    BY <1>2 DEF UpdateRead, UpdateWrite
  <2> QED
    BY <1>1, <1>2, <2>1 DEF AloneInv, Over
<1>8. WaveInv' /\ StartedInv' /\ BlockedInv'
  BY <1>1, <1>3, <1>5, <1>6, LossKeepsAccount
<1> QED
  BY <1>7, <1>8 DEF AccountInv

\* A background flush that writes a stale copy back loses the changes it overwrites.
LEMMA FlushKeepsAccount ==
    ASSUME TypeOK, AccountInv, FlushRead \/ FlushWrite
    PROVE  AccountInv'
<1> USE DEF callVars, itemVars, updateVars, flushVars, ghostVars, lossVars
<1>1. /\ UNCHANGED <<pc, wave, todo, cur, frontier, visited, update, mine, back, unread>>
      /\ lost \subseteq lost'
      /\ \A g \in Group : g \notin lost' => ledger'[g].status = ledger[g].status
  <2>1. CASE FlushRead
    BY <2>1 DEF FlushRead
  <2>2. CASE FlushWrite
    BY <2>2 DEF FlushWrite
  <2> QED
    BY <2>1, <2>2
<1>2. \A g \in Group : g \notin lost' => Due(g)' = Due(g)
  BY <1>1 DEF Due
<1>3. /\ At({"fix"})' = At({"fix"}) /\ At({"block"})' = At({"block"})
      /\ Marking' = Marking /\ Working' = Working
  BY <1>1 DEF At, Marking, Working
<1>4. WaveInv' /\ StartedInv' /\ BlockedInv'
  BY <1>1, <1>2, <1>3, LossKeepsAccount
<1>5. AloneInv'
  <2>1. \A g \in Group : Clean(g)' /\ g \in Ready' => Clean(g) /\ g \in Ready
    <3> SUFFICES ASSUME NEW g \in Group, Clean(g)', g \in Ready'
                 PROVE  Clean(g) /\ g \in Ready
      OBVIOUS
    <3>1. Clean(g) /\ g \notin lost' /\ \A d \in Closure(g) : d \notin lost'
      BY <1>1, CleanBefore
    <3>2. \A d \in Dep[g] : d \in Group /\ d \notin lost'
      BY <3>1, ClosureHolds, DispatchAssumption
    <3> QED
      BY <1>1, <3>1, <3>2 DEF Ready
  <2>2. \A g \in Ready' : g \in Group
    BY DEF Ready
  <2>3. pc \in Over /\ ~unread => \A g \in Ready' : ~Clean(g)'
    BY <2>1, <2>2 DEF AccountInv, AloneInv
  <2>4. pc \in {"write", "stop"} =>
          \A g \in Group \ lost' : mine[g].status = ledger'[g].status
    BY <1>1 DEF AccountInv, AloneInv
  <2>5. pc = "collect" /\ ~unread =>
          \A g \in Group \ lost' : ledger'[g].status \notin {"failed", "blocked"}
    BY <1>1 DEF AccountInv, AloneInv
  <2>6. pc \in Over \cup {"ready"} => wave = {}
    BY DEF AccountInv, AloneInv
  <2> QED
    BY <1>1, <2>3, <2>4, <2>5, <2>6 DEF AloneInv
<1> QED
  BY <1>4, <1>5 DEF AccountInv
\* Between waves nothing is being run, and a group that could run is in the wave.
LEMMA SelectKeepsAccount ==
    ASSUME TypeOK, AccountInv, SelectWave
    PROVE  AccountInv'
<1> USE DEF Goto, callVars, itemVars, updateVars, flushVars, ghostVars, lossVars
<1>1. /\ UNCHANGED <<ledger, update, mine, back, cur, frontier, visited, lost>>
      /\ pc = "ready" /\ pc' \in {"final", "lineage"} /\ todo' = wave'
      /\ pc' = "final" => wave' = {}
      /\ \/ wave' = Ready /\ unread' = unread
         \/ wave' = {} /\ unread' = TRUE
  BY DEF SelectWave
<1>2. \A g \in Group : Due(g) = ledger[g].status /\ Due(g)' = Due(g)
  BY <1>1 DEF Due
<1>3. ~At({"fix"}) /\ ~At({"block"}) /\ ~Working /\ ~At({"fix"})' /\ ~At({"block"})' /\ ~Working'
  BY <1>1 DEF At, Working
<1>4. \A g \in Group : Clean(g)' <=> Clean(g)
  BY <1>1, CleanIsKept
<1>5. wave = {} /\ todo = {}
  BY <1>1 DEF AccountInv, AloneInv, TypeOK
<1>6. Ready' = Ready /\ Ready \subseteq Group /\ wave' \subseteq Ready
  BY <1>1 DEF Ready
<1>7. AloneInv'
  <2>1. pc' \in Over /\ ~unread' => Ready' = {}
    BY <1>1, <1>6 DEF Over
  <2> QED
    BY <1>1, <2>1 DEF AloneInv, Over
<1>8. \A g \in Ready : Clean(g) => Due(g) = "queued"
  <2>1. \A g \in Group : Clean(g) => Due(g) \in Finished \cup {"queued", "failed", "blocked"}
    BY <1>5 DEF AccountInv, WaveInv
  <2>2. \A g \in Ready : Due(g) \in {"queued", "retrying"}
    BY <1>2 DEF Ready
  <2> QED
    BY <1>6, <2>1, <2>2 DEF Finished
<1>9. \A g \in Ready : \A d \in Dep[g] : d \in Group /\ Due(d) \in Finished
  BY <1>2, DispatchAssumption DEF Ready
<1>10. WaveInv'
  <2>1. \A g \in Group \ wave' :
           Clean(g)' => Due(g)' \in Finished \cup {"queued", "failed", "blocked"}
    BY <1>2, <1>4, <1>5 DEF AccountInv, WaveInv
  <2>2. \A g \in wave' : Clean(g)' => Due(g)' \in {"queued", "running"}
    BY <1>2, <1>4, <1>6, <1>8
  <2> QED
    BY <1>3, <2>1, <2>2 DEF WaveInv
<1>11. StartedInv'
  <2> SUFFICES ASSUME NEW g \in Group, NEW d \in Group, d \in Dep[g], Clean(g)',
                      g \in wave' \/ Due(g)' \notin {"queued", "blocked"}
               PROVE  Due(d)' \in Finished
    BY DEF StartedInv
  <2>1. CASE g \in wave'
    BY <1>2, <1>6, <1>9, <2>1
  <2>2. CASE g \notin wave'
    BY <1>2, <1>4, <2>2 DEF AccountInv, StartedInv
  <2> QED
    BY <2>1, <2>2
<1>12. BlockedInv'
  <2>1. \A d \in Group : GivenUp(d)' => GivenUp(d)
    BY <1>2, <1>5 DEF GivenUp
  <2>2. \A d \in Group : Clean(d) /\ Due(d) \in {"failed", "blocked"} => d \notin todo'
    BY <1>1, <1>6, <1>8
  <2>3. \A g, d \in Group : d \in Dep[g] /\ Clean(g)' /\ GivenUp(d)' => Due(g)' = "blocked"
    BY <1>2, <1>3, <1>4, <2>1 DEF AccountInv, BlockedInv
  <2>4. \A g \in Group : Clean(g)' /\ Due(g)' = "blocked" =>
            \E d \in Closure(g) : d \notin todo' /\ Due(d)' = "failed"
    <3> SUFFICES ASSUME NEW g \in Group, Clean(g)', Due(g)' = "blocked"
                 PROVE  \E d \in Closure(g) : d \notin todo' /\ Due(d)' = "failed"
      OBVIOUS
    <3>1. PICK d \in Closure(g) : Due(d) = "failed"
      BY <1>2, <1>4 DEF AccountInv, BlockedInv
    <3>2. d \in Group
      BY ClosureOfGroups
    <3>3. \A x \in Ready : Due(x) \in {"queued", "retrying"}
      BY <1>2 DEF Ready
    <3>4. d \notin todo' /\ Due(d)' = "failed"
      BY <1>1, <1>2, <1>6, <3>1, <3>2, <3>3
    <3> QED
      BY <3>4
  <2> QED
    BY <1>3, <2>3, <2>4 DEF BlockedInv
<1> QED
  BY <1>7, <1>10, <1>11, <1>12 DEF AccountInv

\* Steps that change neither a group nor the wave: the lineage, the check of the
\* ledger, the stop, a fix whose patch cannot be kept, and a stuttering step.
QuietStep ==
    \/ Materialize \/ CheckLedger \/ StopPartial
    \/ FixSucceeds /\ pc' = "threw"
    \/ UNCHANGED vars

LEMMA QuietKeepsAccount == ASSUME TypeOK, AccountInv, QuietStep PROVE AccountInv'
<1> USE DEF Goto, callVars, itemVars, updateVars, flushVars, ghostVars, lossVars
<1>1. UNCHANGED <<wave, todo, cur, frontier, visited, lost, update, back>>
  BY DEF QuietStep, Materialize, CheckLedger, StopPartial, FixSucceeds, SetStatus, vars
<1>2. \A g \in Group \ lost : ledger'[g].status = ledger[g].status
  BY DEF QuietStep, Materialize, CheckLedger, StopPartial, FixSucceeds, vars,
         AccountInv, AloneInv
<1>3. \/ UNCHANGED <<pc, ledger, mine, unread>>
      \/ pc = "lineage" /\ pc' \in {"mark", "noPatch", "threw"} /\ ledger' = ledger
      \/ pc = "fix" /\ pc' = "threw" /\ ledger' = ledger
      \/ /\ pc = "final" /\ pc' \in {"stop", "collect"} /\ ledger' = ledger
         /\ pc' = "stop" => mine' = ledger /\ unread' = unread
         /\ unread' = unread \/ unread' = TRUE
         /\ pc' = "collect" /\ ~unread' =>
               \A g \in Group : ledger[g].status \notin {"failed", "blocked"}
      \/ pc = "stop" /\ pc' \in {"partial", "threw"} /\ unread' = unread
  BY DEF QuietStep, Materialize, CheckLedger, StopPartial, FixSucceeds, vars
<1>4. \A g \in Group : g \notin lost => Due(g)' = Due(g)
  BY <1>1, <1>2, <1>3 DEF Due
<1>5. /\ Marking' => Marking
      /\ Working' => Working /\ (At({"fix"}) => At({"fix"})')
      /\ At({"fix"})' => At({"fix"})
      /\ At({"block"})' <=> At({"block"})
  BY <1>1, <1>3 DEF At, Marking, Working
<1>6. WaveInv' /\ StartedInv' /\ BlockedInv'
  BY <1>1, <1>4, <1>5, LossKeepsAccount
<1>7. AloneInv'
  <2>1. \A g \in Group : Clean(g)' /\ g \in Ready' => Clean(g) /\ g \in Ready
    <3> SUFFICES ASSUME NEW g \in Group, Clean(g)', g \in Ready'
                 PROVE  Clean(g) /\ g \in Ready
      OBVIOUS
    <3>1. Clean(g) /\ g \notin lost /\ \A d \in Closure(g) : d \notin lost
      BY <1>1, CleanBefore
    <3>2. \A d \in Dep[g] : d \in Group /\ d \notin lost
      BY <3>1, ClosureHolds, DispatchAssumption
    <3> QED
      BY <1>2, <3>1, <3>2 DEF Ready
  <2>2. \A g \in Ready' : g \in Group
    BY DEF Ready
  <2>3. pc \in Over /\ ~unread => \A g \in Ready' : ~Clean(g)'
    BY <2>1, <2>2 DEF AccountInv, AloneInv
  <2>4. pc' \in Over /\ ~unread' => pc \in Over /\ ~unread
    BY <1>3 DEF Over
  <2>5. pc' \in Over \cup {"ready"} => pc \in Over \cup {"ready"}
    BY <1>3 DEF Over
  <2>6. pc' \in {"write", "stop"} =>
           \A g \in Group \ lost : mine'[g].status = ledger'[g].status
    BY <1>3 DEF AccountInv, AloneInv
  <2>7. pc' = "collect" /\ ~unread' =>
           \A g \in Group \ lost : ledger'[g].status \notin {"failed", "blocked"}
    BY <1>3 DEF AccountInv, AloneInv
  <2> QED
    BY <1>1, <2>3, <2>4, <2>5, <2>6, <2>7 DEF AccountInv, AloneInv
<1> QED
  BY <1>6, <1>7 DEF AccountInv

\* The end of a walk has blocked all that the walk had to.
LEMMA WalkEndKeepsAccount == ASSUME TypeOK, AccountInv, BlockedAll PROVE AccountInv'
<1> USE DEF Goto, callVars, itemVars, updateVars, flushVars, ghostVars, lossVars
<1>1. /\ UNCHANGED <<ledger, update, back, wave, todo, cur, frontier, visited, lost>>
      /\ pc = "block" /\ pc' = "process" /\ Dependents \subseteq visited
  BY DEF BlockedAll
<1>2. \A g \in Group : Due(g)' = Due(g)
  BY <1>1 DEF Due
<1>3. \A g \in Group : Clean(g)' <=> Clean(g)
  BY <1>1, CleanIsKept
<1>4. /\ At({"block"}) /\ ~At({"block"})' /\ ~At({"fix"}) /\ ~At({"fix"})'
      /\ Working /\ ~Marking'
  BY <1>1 DEF At, Marking, Working
<1>5. \A d \in Group : GivenUp(d)' <=> GivenUp(d)
  BY <1>1, <1>2 DEF GivenUp
<1>6. AloneInv'
  BY <1>1 DEF AloneInv, Over
<1>7. WaveInv'
  BY <1>1, <1>2, <1>3, <1>4 DEF AccountInv, WaveInv, TypeOK
<1>8. StartedInv'
  BY <1>1, <1>2, <1>3 DEF AccountInv, StartedInv
<1>9. BlockedInv'
  <2>1. \A g, d \in Group : d \in Dep[g] /\ Clean(g) /\ GivenUp(d) => Due(g) = "blocked"
    BY <1>1, <1>4 DEF AccountInv, BlockedInv, Dependents
  <2>2. \A g \in Group : Clean(g) /\ Due(g) = "blocked" =>
            \E d \in Closure(g) : d \in Group /\ d \notin todo /\ Due(d) = "failed"
    BY ClosureOfGroups DEF AccountInv, BlockedInv
  <2>3. \A g \in Group : Clean(g)' /\ Due(g)' = "blocked" =>
            \E d \in Closure(g) : d \notin todo' /\ Due(d)' = "failed"
    BY <1>1, <1>2, <1>3, <2>2
  <2>4. \A g, d \in Group : d \in Dep[g] /\ Clean(g)' /\ GivenUp(d)' => Due(g)' = "blocked"
    BY <1>2, <1>3, <1>5, <2>1
  <2> QED
    BY <1>4, <2>3, <2>4 DEF BlockedInv
<1> QED
  BY <1>6, <1>7, <1>8, <1>9 DEF AccountInv

\* At the end of a wave every group of it is settled.
LEMMA WaveEndKeepsAccount == ASSUME TypeOK, AccountInv, WaveDone PROVE AccountInv'
<1> USE DEF Goto, callVars, itemVars, updateVars, flushVars, ghostVars, lossVars
<1>1. /\ UNCHANGED <<ledger, update, back, todo, cur, lost>>
      /\ pc = "process" /\ pc' = "ready" /\ todo = {} /\ wave' = {}
  BY DEF WaveDone
<1>2. \A g \in Group : Due(g)' = Due(g)
  BY <1>1 DEF Due
<1>3. \A g \in Group : Clean(g)' <=> Clean(g)
  BY <1>1, CleanIsKept
<1>4. /\ ~At({"block"}) /\ ~At({"block"})' /\ ~At({"fix"}) /\ ~At({"fix"})'
      /\ Working /\ ~Working' /\ ~Marking'
  BY <1>1 DEF At, Marking, Working
<1>5. \A d \in Group : GivenUp(d)' <=> GivenUp(d)
  BY <1>1, <1>2 DEF GivenUp
<1>6. AloneInv'
  BY <1>1 DEF AloneInv, Over
<1>7. WaveInv'
  <2>1. \A g \in wave : Clean(g) => Due(g) \in Finished \cup {"failed"}
    BY <1>1, <1>4 DEF AccountInv, WaveInv
  <2>2. \A g \in Group : Clean(g) => Due(g) \in Finished \cup {"queued", "failed", "blocked"}
    BY <2>1 DEF AccountInv, WaveInv
  <2> QED
    BY <1>1, <1>2, <1>3, <1>4, <2>2 DEF WaveInv
<1>8. StartedInv'
  BY <1>1, <1>2, <1>3 DEF AccountInv, StartedInv
<1>9. BlockedInv'
  <2>2. \A g \in Group : Clean(g) /\ Due(g) = "blocked" =>
            \E d \in Closure(g) : d \in Group /\ d \notin todo /\ Due(d) = "failed"
    BY ClosureOfGroups DEF AccountInv, BlockedInv
  <2>3. \A g \in Group : Clean(g)' /\ Due(g)' = "blocked" =>
            \E d \in Closure(g) : d \notin todo' /\ Due(d)' = "failed"
    BY <1>1, <1>2, <1>3, <2>2
  <2>4. \A g, d \in Group : d \in Dep[g] /\ Clean(g)' /\ GivenUp(d)' => Due(g)' = "blocked"
    BY <1>2, <1>3, <1>4, <1>5 DEF AccountInv, BlockedInv
  <2> QED
    BY <1>4, <2>3, <2>4 DEF BlockedInv
<1> QED
  BY <1>6, <1>7, <1>8, <1>9 DEF AccountInv
\* Marking, flushing and running a wave moves its groups only.
LEMMA RunKeepsAccount ==
    ASSUME TypeOK, AccountInv, (\E g \in Group : MarkRunning(g)) \/ ForcedFlush \/ RunWave
    PROVE  AccountInv'
<1> USE DEF Goto, callVars, itemVars, updateVars, flushVars, ghostVars, lossVars
<1>1. /\ UNCHANGED <<wave, cur, frontier, visited, lost, unread>>
      /\ pc \in {"mark", "dispatch"} /\ pc' \in {"update", "dispatch", "process"}
  BY DEF MarkRunning, ForcedFlush, RunWave, SetStatus
<1>2. /\ Marking /\ ~At({"fix"}) /\ ~At({"block"})
      /\ wave \in SUBSET Group /\ todo \subseteq wave
  BY <1>1 DEF At, Marking, TypeOK
<1>c. \A g \in Group : Clean(g)' <=> Clean(g)
  BY <1>1, CleanIsKept
<1>m. \A g \in wave : Clean(g) => Due(g) \in {"queued", "running"}
  BY <1>2 DEF AccountInv, WaveInv
<1>3. /\ \A g \in Group \ wave : Due(g)' = Due(g)
      /\ \A g \in wave : Clean(g) => Due(g)' \in IF RunWave THEN Reported ELSE {"queued", "running"}
      /\ RunWave => \A g \in wave : Due(g)' \in Reported
      /\ RunWave \/ pc' = "dispatch" \/ (pc' = "update" /\ back' = "mark")
      /\ todo' \in SUBSET wave /\ (RunWave => todo' = wave /\ pc' = "process")
  <2>1. ASSUME NEW g \in Group, MarkRunning(g)
        PROVE  /\ g \in wave /\ todo' \subseteq wave /\ ~RunWave
               /\ \A h \in Group : Due(h)' = IF h = g THEN "running" ELSE Due(h)
               /\ pc' = "update" /\ back' = "mark"
    <3>1. SetStatus(g, "running", "mark") /\ ledger' = ledger /\ pc = "mark" /\ g \in wave
          /\ todo' \subseteq wave
      BY <1>2, <2>1 DEF MarkRunning, Turn
    <3> QED
      BY <3>1, OneIsDue, DispatchAssumption DEF Status, RunWave
  <2>2. CASE RunWave
    <3>1. PICK r \in [wave -> Reported] :
            ledger' = [g \in Group |-> IF g \in wave THEN Reporting(ledger[g], r[g])
                                       ELSE ledger[g]]
      BY <2>2 DEF RunWave
    <3>2. r \in [wave -> Status]
      BY DEF Reported, Status
    <3>3. \A g \in Group : ledger'[g].status = IF g \in wave THEN r[g] ELSE ledger[g].status
      BY <1>2, <3>1, <3>2, RestatusIsLedger DEF TypeOK
    <3>4. pc \notin {"update", "write"} /\ pc' = "process" /\ todo' = wave
      BY <2>2 DEF RunWave
    <3>5. \A g \in Group : Due(g)' = IF g \in wave THEN r[g] ELSE Due(g)
      BY <3>3, <3>4 DEF Due
    <3> QED
      BY <1>2, <2>2, <3>4, <3>5
  <2>3. CASE ForcedFlush
    <3>1. ~RunWave /\ todo' = todo /\ pc' = "dispatch" /\ pc = "mark"
      BY <2>3 DEF ForcedFlush, RunWave
    <3>2. \A g \in Group : Due(g)' = Due(g) \/ (g \in wave /\ Due(g)' = "running")
      <4>1. CASE ledger' = ledger
        BY <3>1, <4>1 DEF Due
      <4>2. CASE ledger' = [g \in Group |-> IF g \in wave THEN Reporting(ledger[g], "running")
                                            ELSE ledger[g]]
        <5> DEFINE r == [g \in wave |-> "running"]
        <5>1. \A g \in wave : r[g] = "running"
          OBVIOUS
        <5>2. r \in [wave -> Status]
          BY DEF Status
        <5>3. ledger' = [g \in Group |-> IF g \in wave THEN Reporting(ledger[g], r[g])
                                         ELSE ledger[g]]
          BY <4>2, <5>1
        <5> HIDE DEF r
        <5>4. \A g \in Group : ledger'[g].status = IF g \in wave THEN r[g] ELSE ledger[g].status
          BY <1>2, <5>2, <5>3, RestatusIsLedger DEF TypeOK
        <5> QED
          BY <3>1, <5>1, <5>4 DEF Due
      <4> QED
        BY <2>3, <4>1, <4>2 DEF ForcedFlush
    <3> QED
      BY <1>2, <1>m, <3>1, <3>2
  <2>4. CASE \E g \in Group : MarkRunning(g)
    <3>1. PICK g \in Group : MarkRunning(g)
      BY <2>4
    <3>2. /\ g \in wave /\ todo' \subseteq wave /\ ~RunWave
          /\ \A h \in Group : Due(h)' = IF h = g THEN "running" ELSE Due(h)
          /\ pc' = "update" /\ back' = "mark"
      BY <2>1, <3>1
    <3> QED
      BY <1>2, <1>m, <3>2
  <2> QED
    BY <2>2, <2>3, <2>4
<1>4. /\ ~At({"fix"})' /\ ~At({"block"})'
      /\ (Marking' => ~RunWave) /\ (Working' => RunWave)
  BY <1>1, <1>3 DEF At, Marking, Working, RunWave
<1>5. AloneInv'
  BY <1>1 DEF AloneInv, Over
<1>6. WaveInv'
  <2>1. \A g \in Group \ wave' :
           Clean(g)' => Due(g)' \in Finished \cup {"queued", "failed", "blocked"}
    BY <1>1, <1>c, <1>3 DEF AccountInv, WaveInv
  <2>2. Marking' => \A g \in wave' : Clean(g)' => Due(g)' \in {"queued", "running"}
    BY <1>1, <1>2, <1>c, <1>3, <1>4
  <2>3. Working' => todo' = wave' /\ \A g \in wave' : Due(g)' \in Reported
    BY <1>1, <1>3, <1>4
  <2> QED
    BY <1>4, <2>1, <2>2, <2>3 DEF WaveInv
<1>7. \A d \in Group : Clean(d) /\ Due(d) \in Finished \cup {"failed", "blocked"} => Due(d)' = Due(d)
  BY <1>3, <1>m DEF Finished
<1>8. StartedInv'
  <2> SUFFICES ASSUME NEW g \in Group, NEW d \in Group, d \in Dep[g], Clean(g)',
                      g \in wave' \/ Due(g)' \notin {"queued", "blocked"}
               PROVE  Due(d)' \in Finished
    BY DEF StartedInv
  <2>1. Clean(g) /\ (g \in wave \/ Due(g) \notin {"queued", "blocked"})
    BY <1>1, <1>c, <1>3
  <2>2. Due(d) \in Finished
    BY <2>1 DEF AccountInv, StartedInv
  <2>3. Clean(d)
    BY <2>1, CleanBelow
  <2> QED
    BY <1>7, <2>2, <2>3
<1>9. BlockedInv'
  <2>1. \A d \in Group : Clean(d) /\ GivenUp(d)' => GivenUp(d)
    <3>1. ASSUME NEW d \in Group \ wave, GivenUp(d)' PROVE GivenUp(d)
      BY <1>2, <1>3, <3>1 DEF GivenUp
    <3>2. ASSUME NEW d \in wave, Clean(d) PROVE ~GivenUp(d)'
      <4>1. CASE RunWave
        BY <1>3, <4>1 DEF GivenUp
      <4>2. CASE ~RunWave
        BY <1>3, <3>2, <4>2 DEF GivenUp
      <4> QED
        BY <4>1, <4>2
    <3> QED
      BY <3>1, <3>2
  <2>2. \A g \in Group : Clean(g) => (Due(g)' = "blocked" <=> Due(g) = "blocked")
    <3>1. \A g \in wave : Clean(g) => Due(g)' # "blocked" /\ Due(g) # "blocked"
      BY <1>3, <1>m DEF Reported
    <3> QED
      BY <1>3, <3>1
  <2>3. \A d \in Group : Clean(d) /\ Due(d) = "failed" => d \notin todo' /\ Due(d)' = "failed"
    <3>1. \A d \in wave : Clean(d) => Due(d) # "failed"
      BY <1>m
    <3> QED
      BY <1>3, <3>1
  <2>4. \A g, d \in Group : d \in Dep[g] /\ Clean(g)' /\ GivenUp(d)' => Due(g)' = "blocked"
    <3> SUFFICES ASSUME NEW g \in Group, NEW d \in Group, d \in Dep[g], Clean(g)', GivenUp(d)'
                 PROVE  Due(g)' = "blocked"
      OBVIOUS
    <3>1. Clean(g) /\ Clean(d)
      BY <1>c, CleanBelow
    <3>2. GivenUp(d)
      BY <2>1, <3>1
    <3> QED
      BY <1>2, <2>2, <3>1, <3>2 DEF AccountInv, BlockedInv
  <2>5. \A g \in Group : Clean(g)' /\ Due(g)' = "blocked" =>
            \E d \in Closure(g) : d \notin todo' /\ Due(d)' = "failed"
    <3> SUFFICES ASSUME NEW g \in Group, Clean(g)', Due(g)' = "blocked"
                 PROVE  \E d \in Closure(g) : d \notin todo' /\ Due(d)' = "failed"
      OBVIOUS
    <3>1. Clean(g) /\ Due(g) = "blocked"
      BY <1>c, <2>2
    <3>2. PICK d \in Closure(g) : Due(d) = "failed"
      BY <3>1 DEF AccountInv, BlockedInv
    <3>3. d \in Group /\ Clean(d)
      BY <3>1, CleanThrough, ClosureOfGroups
    <3> QED
      BY <2>3, <3>2, <3>3
  <2> QED
    BY <1>4, <2>4, <2>5 DEF BlockedInv
<1> QED
  BY <1>5, <1>6, <1>8, <1>9 DEF AccountInv

\* A worker's result, or a fix, settles the group it belongs to: it was not
\* finished before, and all it rests on is.
LEMMA SettlingKeepsAccount ==
    ASSUME TypeOK, AccountInv, NEW h \in wave,
           NEW s \in {"succeeded", "applied", "retrying", "failed"},
           NEW n \in 0..MaxFixAttempts, NEW next \in {"process", "fix", "block"},
           SetStatus(h, s, next) \/ SetStatusAndCount(h, s, n, next),
           pc \in {"process", "fix"},
           IF pc = "process" THEN h \in todo ELSE h = cur,
           todo' = todo \ {h}, UNCHANGED <<ledger, wave, lost>>,
           cur' \in {cur, h},
           next = "process" <=> s \in Finished,
           next = "fix" <=> s = "retrying",
           next # "process" => cur' = h /\ frontier' = {h} /\ visited' = {}
    PROVE  AccountInv'
<1>1. h \in Group /\ todo \subseteq wave /\ wave \subseteq Group
  BY DEF TypeOK
<1>2. \A g \in Group : Due(g)' = IF g = h THEN s ELSE Due(g)
  BY <1>1, OneIsDue DEF Status
<1>3. pc' = "update" /\ back' = next
  BY <1>1, OneIsDue DEF Status
<1>4. /\ Working /\ Working' /\ ~Marking' /\ ~At({"block"})
      /\ (At({"fix"}) <=> pc = "fix")
      /\ (At({"fix"})' <=> s = "retrying") /\ (At({"block"})' <=> next = "block")
  BY <1>3 DEF Working, Marking, At
<1>c. \A g \in Group : Clean(g)' <=> Clean(g)
  BY CleanIsKept
<1>5. Clean(h) => Due(h) \in Reported
  BY <1>4 DEF AccountInv, WaveInv, Reported
<1>6. AloneInv'
  BY <1>3 DEF AloneInv, Over
<1>7. WaveInv'
  <2>1. \A g \in Group \ wave :
           Clean(g)' => Due(g)' \in Finished \cup {"queued", "failed", "blocked"}
    BY <1>2, <1>c DEF AccountInv, WaveInv
  <2>2. \A g \in todo' : Clean(g)' => Due(g)' \in Reported
    BY <1>1, <1>2, <1>4, <1>c DEF AccountInv, WaveInv
  <2>3. \A g \in wave \ todo' : Clean(g)' =>
            Due(g)' \in Finished \cup {"failed"} \/ (At({"fix"})' /\ g = cur')
    <3>1. ASSUME NEW g \in wave \ todo, g # h, Clean(g)
          PROVE  Due(g) \in Finished \cup {"failed"}
      BY <1>4, <3>1 DEF AccountInv, WaveInv
    <3>2. Due(h)' \in Finished \cup {"failed"} \/ (At({"fix"})' /\ h = cur')
      BY <1>1, <1>2, <1>4 DEF Finished
    <3> QED
      BY <1>1, <1>2, <1>c, <3>1, <3>2
  <2>4. At({"fix"})' => /\ cur' \in wave \ todo' /\ Due(h)' = "retrying" /\ cur' = h
                        /\ frontier' = {cur'} /\ visited' = {}
    BY <1>1, <1>2, <1>4
  <2>5. At({"fix"})' => Due(cur)' = "retrying"
    BY <2>4 DEF Due
  <2> QED
    BY <1>4, <2>1, <2>2, <2>3, <2>4, <2>5 DEF WaveInv
<1>8. \A d \in Group : Clean(d) /\ Due(d) \in Finished => Due(d)' \in Finished
  BY <1>1, <1>2, <1>5 DEF Reported, Finished
<1>9. StartedInv'
  <2> SUFFICES ASSUME NEW g \in Group, NEW d \in Group, d \in Dep[g], Clean(g)',
                      g \in wave' \/ Due(g)' \notin {"queued", "blocked"}
               PROVE  Due(d)' \in Finished
    BY DEF StartedInv
  <2>1. Clean(g) /\ Clean(d) /\ (g \in wave \/ Due(g) \notin {"queued", "blocked"})
    BY <1>1, <1>2, <1>c, CleanBelow
  <2>2. Due(d) \in Finished
    BY <2>1 DEF AccountInv, StartedInv
  <2> QED
    BY <1>8, <2>1, <2>2
<1>10. BlockedInv'
  <2>1. \A d \in Group : GivenUp(d)' => GivenUp(d) \/ (d = h /\ s = "failed")
    BY <1>2 DEF GivenUp
  <2>2. \A g \in Group : Clean(g) => (Due(g)' = "blocked" <=> Due(g) = "blocked")
    BY <1>2, <1>5 DEF Reported
  <2>3. \A g, d \in Group : d \in Dep[g] /\ Clean(g) /\ GivenUp(d) => Due(g) = "blocked"
    BY <1>4 DEF AccountInv, BlockedInv
  <2>4. s = "failed" => At({"block"})' /\ frontier' = {h} /\ visited' = {} /\ GivenUp(h)'
    BY <1>1, <1>2, <1>4 DEF GivenUp, Finished
  <2>5. At({"block"})' => s = "failed"
    BY <1>4 DEF Finished
  <2>6. \A d \in Group : Clean(d) /\ d \notin todo /\ Due(d) = "failed"
                         => d \notin todo' /\ Due(d)' = "failed"
    <3>1. h \notin todo /\ Clean(h) => Due(h) = "retrying"
      BY <1>4 DEF AccountInv, WaveInv
    <3> QED
      BY <1>2, <3>1
  <2>7. \A g \in Group, d \in Group :
          d \in Dep[g] /\ Clean(g)' /\ GivenUp(d)' =>
              Due(g)' = "blocked" \/ (At({"block"})' /\ d \in frontier' /\ g \notin visited')
    BY <1>c, <2>1, <2>2, <2>3, <2>4
  <2>8. At({"block"})' => /\ \A f \in frontier' : GivenUp(f)'
                          /\ \A v \in visited' : Due(v)' = "blocked"
    BY <2>4, <2>5
  <2>9. \A g \in Group : Clean(g)' /\ Due(g)' = "blocked" =>
            \E d \in Closure(g) : d \notin todo' /\ Due(d)' = "failed"
    <3> SUFFICES ASSUME NEW g \in Group, Clean(g)', Due(g)' = "blocked"
                 PROVE  \E d \in Closure(g) : d \notin todo' /\ Due(d)' = "failed"
      OBVIOUS
    <3>1. Clean(g) /\ Due(g) = "blocked"
      BY <1>c, <2>2
    <3>2. PICK d \in Closure(g) : d \notin todo /\ Due(d) = "failed"
      BY <3>1 DEF AccountInv, BlockedInv
    <3>3. d \in Group /\ Clean(d)
      BY <3>1, CleanThrough, ClosureOfGroups
    <3> QED
      BY <2>6, <3>2, <3>3
  <2> QED
    BY <2>7, <2>8, <2>9 DEF BlockedInv
<1> QED
  BY <1>6, <1>7, <1>9, <1>10 DEF AccountInv

\* The walk blocks the groups it meets, and of the clean ones it meets only those that
\* wait for a group given up.
LEMMA WalkKeepsAccount ==
    ASSUME TypeOK, AccountInv, NEW h \in Group, BlockDependent(h)
    PROVE  AccountInv'
<1> USE DEF Goto, callVars, itemVars, updateVars, flushVars, ghostVars, lossVars
<1>1. /\ pc = "block" /\ h \in Dependents \ visited /\ visited' = visited \cup {h}
      /\ UNCHANGED <<ledger, wave, todo, cur, lost, unread>>
  BY DEF BlockDependent
<1>2. At({"block"}) /\ ~At({"fix"}) /\ Working /\ ~Marking /\ todo \subseteq wave /\ wave \subseteq Group
  BY <1>1 DEF At, Working, Marking, TypeOK
<1>c. \A g \in Group : Clean(g)' <=> Clean(g)
  BY <1>1, CleanIsKept
<1>3. PICK f \in frontier : f \in Dep[h] /\ f \in Group
  BY <1>1 DEF Dependents, TypeOK
<1>4. Clean(h) => /\ GivenUp(f) /\ h \notin wave /\ Due(h) \in {"queued", "blocked"}
  <2> SUFFICES ASSUME Clean(h)
               PROVE  GivenUp(f) /\ h \notin wave /\ Due(h) \in {"queued", "blocked"}
    OBVIOUS
  <2>1. GivenUp(f)
    BY <1>2, <1>3, CleanBelow DEF AccountInv, BlockedInv
  <2> QED
    BY <1>3, <2>1 DEF AccountInv, StartedInv, GivenUp, Finished
<1>5. ledger[h].status = Due(h)
  BY <1>1 DEF Due
<1>6. \/ ~Clean(h) /\ frontier' = frontier /\ UNCHANGED <<updateVars, pc>>
      \/ frontier' = frontier \cup {h} /\ SetStatus(h, "blocked", "block")
  BY <1>4, <1>5 DEF BlockDependent, Finished
<1>7. \A g \in Group : g # h => Due(g)' = Due(g)
  BY <1>1, <1>6, OneIsDue, DispatchAssumption DEF Status, Due
<1>8. Clean(h) => Due(h)' = "blocked" /\ h \in frontier'
  BY <1>1, <1>6, OneIsDue, DispatchAssumption DEF Status
<1>9. At({"block"})' /\ ~At({"fix"})' /\ Working' /\ ~Marking' /\ pc' \in {"update", "block"}
  BY <1>1, <1>6 DEF At, Working, Marking, SetStatus
<1>10. AloneInv'
  BY <1>9 DEF AloneInv, Over
<1>11. \A g \in Group : (Clean(g) /\ g # h) \/ (g \in wave /\ Clean(g)) => Due(g)' = Due(g)
  BY <1>4, <1>7
<1>12. WaveInv'
  <2>1. \A g \in Group \ wave :
           Clean(g)' => Due(g)' \in Finished \cup {"queued", "failed", "blocked"}
    BY <1>7, <1>8, <1>c DEF AccountInv, WaveInv
  <2>2. \A g \in wave : Clean(g)' => Clean(g) /\ Due(g)' = Due(g)
    BY <1>2, <1>c, <1>11
  <2> QED
    BY <1>1, <1>2, <1>9, <2>1, <2>2 DEF AccountInv, WaveInv
<1>13. StartedInv'
  <2> SUFFICES ASSUME NEW g \in Group, NEW d \in Group, d \in Dep[g], Clean(g)',
                      g \in wave' \/ Due(g)' \notin {"queued", "blocked"}
               PROVE  Due(d)' \in Finished
    BY DEF StartedInv
  <2>1. Clean(g) /\ Clean(d) /\ (g \in wave \/ Due(g) \notin {"queued", "blocked"})
    BY <1>1, <1>7, <1>8, <1>c, CleanBelow
  <2>2. Due(d) \in Finished
    BY <2>1 DEF AccountInv, StartedInv
  <2>3. d # h
    BY <1>4, <2>1, <2>2 DEF Finished
  <2> QED
    BY <1>7, <2>2, <2>3
<1>14. BlockedInv'
  <2>1. \A d \in Group : Clean(d) => (GivenUp(d)' <=> GivenUp(d) \/ d = h)
    BY <1>1, <1>2, <1>4, <1>7, <1>8 DEF GivenUp
  <2>2. \A g \in Group : Clean(g) /\ Due(g) = "blocked" => Due(g)' = "blocked"
    BY <1>7, <1>8
  <2>4. \A d \in Group : Clean(d) /\ d \notin todo /\ Due(d) = "failed"
                         => d \notin todo' /\ Due(d)' = "failed"
    BY <1>1, <1>4, <1>7
  <2>6. ASSUME NEW g \in Group, NEW d \in Group, d \in Dep[g], Clean(g)', GivenUp(d)'
        PROVE  Due(g)' = "blocked" \/ (d \in frontier' /\ g \notin visited')
    <3>0. Clean(g) /\ Clean(d)
      BY <1>c, <2>6, CleanBelow
    <3>1. CASE GivenUp(d)
      <4>1. Due(g) = "blocked" \/ (d \in frontier /\ g \notin visited)
        BY <1>2, <2>6, <3>0, <3>1 DEF AccountInv, BlockedInv
      <4>2. frontier \subseteq frontier'
        BY <1>6
      <4> QED
        BY <1>1, <1>8, <2>2, <3>0, <4>1, <4>2
    <3>2. CASE d = h
      <4>1. g \in visited => Due(g) = "blocked"
        BY <1>2, <3>0 DEF AccountInv, BlockedInv
      <4> QED
        BY <1>1, <1>8, <2>2, <3>0, <3>2, <4>1
    <3> QED
      BY <2>1, <2>6, <3>0, <3>1, <3>2
  <2>7. \A x \in frontier' : Clean(x)' => GivenUp(x)'
    <3>1. \A x \in frontier : x \in Group /\ (Clean(x) => GivenUp(x))
      BY <1>2 DEF AccountInv, BlockedInv, TypeOK
    <3>2. \A x \in frontier' : x \in frontier \/ x = h
      BY <1>6
    <3> QED
      BY <1>c, <2>1, <3>1, <3>2
  <2>8. \A v \in visited' : Clean(v)' => Due(v)' = "blocked"
    <3>1. \A v \in visited : v \in Group /\ (Clean(v) => Due(v) = "blocked")
      BY <1>2 DEF AccountInv, BlockedInv, TypeOK
    <3> QED
      BY <1>1, <1>8, <1>c, <2>2, <3>1
  <2>9. Clean(h) => \E d \in Closure(h) : d \notin todo /\ Due(d) = "failed"
    <3> SUFFICES ASSUME Clean(h) PROVE \E d \in Closure(h) : d \notin todo /\ Due(d) = "failed"
      OBVIOUS
    <3>1. f \in Closure(h) /\ Closure(f) \subseteq Closure(h) /\ Clean(f) /\ GivenUp(f)
      BY <1>3, <1>4, ClosureHolds, CleanBelow
    <3>2. CASE Due(f) = "failed"
      BY <3>1, <3>2 DEF GivenUp
    <3>3. CASE Due(f) = "blocked"
      BY <1>3, <3>1, <3>3 DEF AccountInv, BlockedInv
    <3> QED
      BY <3>1, <3>2, <3>3 DEF GivenUp
  <2>10. \A g \in Group : Clean(g)' /\ Due(g)' = "blocked" =>
            \E d \in Closure(g) : d \notin todo' /\ Due(d)' = "failed"
    <3> SUFFICES ASSUME NEW g \in Group, Clean(g)', Due(g)' = "blocked"
                 PROVE  \E d \in Closure(g) : d \notin todo' /\ Due(d)' = "failed"
      OBVIOUS
    <3>1. Clean(g) /\ (g = h \/ Due(g) = "blocked")
      BY <1>7, <1>c
    <3>2. PICK d \in Closure(g) : d \notin todo /\ Due(d) = "failed"
      BY <2>9, <3>1 DEF AccountInv, BlockedInv
    <3>3. d \in Group /\ Clean(d)
      BY <3>1, CleanThrough, ClosureOfGroups
    <3> QED
      BY <2>4, <3>2, <3>3
  <2> QED
    BY <1>9, <2>6, <2>7, <2>8, <2>10 DEF BlockedInv
<1> QED
  BY <1>10, <1>12, <1>13, <1>14 DEF AccountInv
LEMMA NextAccount == TypeOK /\ AccountInv /\ TypeOK' /\ [Next]_vars => AccountInv'
<1> SUFFICES ASSUME TypeOK, AccountInv, TypeOK', [Next]_vars
             PROVE  AccountInv'
  OBVIOUS
<1> USE DEF callVars, itemVars, flushVars, ghostVars, lossVars
<1>1. CASE UpdateRead \/ UpdateWrite
  BY <1>1, UpdateKeepsAccount
<1>2. CASE SelectWave
  BY <1>2, SelectKeepsAccount
<1>3. CASE (\E g \in Group : MarkRunning(g)) \/ ForcedFlush \/ RunWave
  BY <1>3, RunKeepsAccount
<1>4. ASSUME NEW g \in Group, ProcessSuccess(g) PROVE AccountInv'
  <2>1. PICK s \in {"succeeded", "applied"} : SetStatus(g, s, "process")
    BY <1>4 DEF ProcessSuccess
  <2>2. /\ g \in wave /\ g \in todo /\ pc = "process" /\ todo' = todo \ {g}
        /\ UNCHANGED <<ledger, wave, cur, lost>>
    BY <1>4 DEF ProcessSuccess, Turn, TypeOK
  <2>3. s \in Finished /\ s # "retrying" /\ 0 \in 0..MaxFixAttempts
    BY DispatchAssumption DEF Finished
  <2> QED
    BY <2>1, <2>2, <2>3, SettlingKeepsAccount
<1>5. ASSUME NEW g \in Group, ProcessFailure(g) PROVE AccountInv'
  <2>1. /\ g \in wave /\ g \in todo /\ pc = "process" /\ todo' = todo \ {g}
        /\ UNCHANGED <<ledger, wave, lost>>
        /\ cur' = g /\ frontier' = {g} /\ visited' = {}
    BY <1>5 DEF ProcessFailure, Turn, TypeOK
  <2>2. attempts' \in 0..MaxFixAttempts
    BY DEF TypeOK
  <2>3. CASE attempts' < MaxFixAttempts
    <3>1. SetStatusAndCount(g, "retrying", attempts' + 1, "fix")
      BY <1>5, <2>3 DEF ProcessFailure
    <3>2. attempts' + 1 \in 0..MaxFixAttempts
      <4>1. ASSUME NEW n \in 0..MaxFixAttempts, n < MaxFixAttempts, MaxFixAttempts \in Nat
            PROVE  n + 1 \in 0..MaxFixAttempts
        BY <4>1
      <4> QED
        BY <2>2, <2>3, <4>1, DispatchAssumption
    <3>3. "retrying" \notin Finished
      BY DEF Finished
    <3> HIDE DEF Finished
    <3> QED
      BY <2>1, <3>1, <3>2, <3>3, SettlingKeepsAccount
  <2>4. CASE ~(attempts' < MaxFixAttempts)
    <3>1. SetStatusAndCount(g, "failed", attempts', "block")
      BY <1>5, <2>4 DEF ProcessFailure
    <3>2. "failed" \notin Finished
      BY DEF Finished
    <3> QED
      BY <2>1, <2>2, <3>1, <3>2, SettlingKeepsAccount
  <2> QED
    BY <2>3, <2>4
<1>6. CASE FixSucceeds \/ FixFails
  <2>1. pc = "fix" /\ UNCHANGED <<ledger, wave, todo, cur, frontier, visited, lost>>
    BY <1>6 DEF FixSucceeds, FixFails
  <2>2. cur \in wave /\ cur \notin todo /\ frontier = {cur} /\ visited = {}
    BY <2>1 DEF AccountInv, WaveInv, At
  <2>3. todo' = todo \ {cur} /\ attempts \in 0..MaxFixAttempts /\ 0 \in 0..MaxFixAttempts
    BY <2>1, <2>2, DispatchAssumption DEF TypeOK
  <2>4. "succeeded" \in Finished /\ "failed" \notin Finished
    BY DEF Finished
  <2>5. CASE FixSucceeds
    <3>1. CASE SetStatus(cur, "succeeded", "process")
      BY <2>1, <2>2, <2>3, <2>4, <3>1, SettlingKeepsAccount
    <3>2. CASE pc' = "threw"
      BY <2>5, <3>2, QuietKeepsAccount DEF QuietStep
    <3> QED
      BY <2>5, <3>1, <3>2 DEF FixSucceeds, Goto
  <2>6. CASE FixFails
    <3>1. SetStatusAndCount(cur, "failed", attempts, "block")
      BY <2>6 DEF FixFails
    <3> QED
      BY <2>1, <2>2, <2>3, <2>4, <3>1, SettlingKeepsAccount
  <2> QED
    BY <1>6, <2>5, <2>6
<1>7. CASE \E g \in Group : BlockDependent(g)
  BY <1>7, WalkKeepsAccount
<1>8. CASE BlockedAll
  BY <1>8, WalkEndKeepsAccount
<1>9. CASE WaveDone
  BY <1>9, WaveEndKeepsAccount
<1>10. CASE FlushRead \/ FlushWrite
  BY <1>10, FlushKeepsAccount
<1>11. CASE Materialize \/ CheckLedger \/ StopPartial \/ UNCHANGED vars
  BY <1>11, QuietKeepsAccount DEF QuietStep
<1> QED
  BY <1>1, <1>2, <1>3, <1>4, <1>5, <1>6, <1>7, <1>8, <1>9, <1>10, <1>11 DEF Next, Main

LEMMA InitAccount == Init => AccountInv
<1> SUFFICES ASSUME Init PROVE AccountInv
  OBVIOUS
<1>1. /\ \A g \in Group : ledger[g].status \in {"queued"} \cup Finished
      /\ \A g \in Group : ledger[g].status \in Finished
                            => \A d \in Dep[g] : ledger[d].status \in Finished
      /\ pc = "ready" /\ wave = {} /\ todo = {}
  BY DEF Init, InitialLedger
<1>2. \A g \in Group : Due(g) = ledger[g].status
  BY <1>1 DEF Due
<1>3. ~Marking /\ ~Working /\ ~At({"fix"}) /\ ~At({"block"})
  BY <1>1 DEF Marking, Working, At
<1>4. \A g \in Group : Due(g) \notin {"failed", "blocked"}
  BY <1>1, <1>2 DEF Finished
<1> QED
  BY <1>1, <1>2, <1>3, <1>4, DispatchAssumption
     DEF AccountInv, AloneInv, WaveInv, StartedInv, BlockedInv, GivenUp, Over

\* When no wave is left, every clean group is finished, failed or blocked: one that
\* still waits, and waits for none that does, would have been ready.
LEMMA NoneIsLeft ==
    ASSUME TypeOK, AccountInv, pc \in Over, ~unread
    PROVE  \A g \in Group : Clean(g) =>
              ledger[g].status \in Finished \cup {"failed", "blocked"}
<1> DEFINE S == {g \in Group : Clean(g) /\ ledger[g].status = "queued"}
<1>1. wave = {} /\ todo = {} /\ \A g \in Ready : ~Clean(g)
  BY DEF AccountInv, AloneInv, TypeOK
<1>2. \A g \in Group : Due(g) = ledger[g].status
  BY DEF Due, Over
<1>3. \A g \in Group :
         Clean(g) => ledger[g].status \in Finished \cup {"queued", "failed", "blocked"}
  BY <1>1, <1>2 DEF AccountInv, WaveInv
<1>4. \A g, d \in Group : d \in Dep[g] /\ Clean(g) /\ ledger[d].status \in {"failed", "blocked"}
                           => ledger[g].status = "blocked"
  BY <1>1, <1>2 DEF AccountInv, BlockedInv, GivenUp, At, Over
<1>5. ASSUME S # {} PROVE FALSE
  <2>1. PICK g \in S : Dep[g] \cap S = {}
    BY <1>5, DispatchAssumption
  <2>2. g \in Group /\ Clean(g) /\ ledger[g].status = "queued"
    BY <2>1
  <2>3. \A d \in Dep[g] : d \in Group /\ Clean(d)
    BY <2>2, CleanBelow, DispatchAssumption
  <2>4. \A d \in Dep[g] : ledger[d].status \in Finished
    BY <1>3, <1>4, <2>1, <2>2, <2>3
  <2>5. g \in Ready
    BY <2>2, <2>4 DEF Ready
  <2> QED
    BY <1>1, <2>2, <2>5
<1> QED
  BY <1>3, <1>5

LEMMA AccountAlways == Spec => [](Inv /\ AccountInv)
<1>1. Inv /\ [Next]_vars => Inv'
  BY NextType, NextDone DEF Inv
<1>2. Inv /\ AccountInv /\ Inv' /\ [Next]_vars => AccountInv'
  BY NextAccount DEF Inv
<1> QED
  BY <1>1, <1>2, InitInv, InitAccount, PTL DEF Spec

\* A call that stops as partial has accounted for every group of any plan, finished,
\* failed, or blocked under a failed one, but for the groups of which a failed update or
\* a stale copy written back has lost a change, and those that rest on them (index.ts,
\* markDependentsBlocked and the check of the ledger after the last wave).
THEOREM PartialAccounts == Spec => []PartialAccountsForAll
<1>1. Inv /\ AccountInv => PartialAccountsForAll
  <2> SUFFICES ASSUME Inv, AccountInv, pc = "partial", ~unread, NEW g \in Group, Clean(g)
               PROVE  \/ ledger[g].status \in Finished \cup {"failed"}
                      \/ /\ ledger[g].status = "blocked"
                         /\ \E d \in Closure(g) : ledger[d].status = "failed"
    BY DEF PartialAccountsForAll, Clean
  <2>1. ledger[g].status \in Finished \cup {"failed", "blocked"}
    BY NoneIsLeft DEF Inv, Over
  <2>2. \A d \in Group : Due(d) = ledger[d].status
    BY DEF Due
  <2> QED
    BY <2>1, <2>2, ClosureOfGroups DEF AccountInv, BlockedInv
<1> QED
  BY <1>1, AccountAlways, PTL

\* When the routine has read the ledger and goes on to collect the workers' results,
\* every group of the plan has been done, but for those that lost a change and those
\* that rest on them.
THEOREM CollectedIsAll == Spec => []AllDoneAtCollect
<1>1. Inv /\ AccountInv => AllDoneAtCollect
  <2> SUFFICES ASSUME Inv, AccountInv, pc = "collect", ~unread, NEW g \in Group, Clean(g)
               PROVE  g \in done
    BY DEF AllDoneAtCollect, Clean
  <2>1. ledger[g].status \in Finished \cup {"failed", "blocked"}
    BY NoneIsLeft DEF Inv, Over
  <2>2. ledger[g].status \notin {"failed", "blocked"}
    BY CleanHasAll DEF AccountInv, AloneInv
  <2> QED
    BY <2>1, <2>2 DEF Inv, HonestInv, Honest
<1> QED
  BY <1>1, AccountAlways, PTL
=============================================================================
