---------------------------- MODULE ProfileWizard ----------------------------
(***************************************************************************)
(* /zflow-profile-configure lets the user choose the models of the lanes   *)
(* and the lanes of the agents of one profile, key by key, and saves each  *)
(* choice in the background: first the draft (wip) in place, then the      *)
(* profile through one temporary file.  A save does not hold up the        *)
(* wizard, so that saves may overlap with each other, with the last save   *)
(* and with the removal of the draft.  A stopped wizard goes on from the   *)
(* draft, if that can be read.                                             *)
(*                                                                         *)
(* The levels of thinking of agents, which no profile holds, are left out, *)
(* as are the other profiles of the file.                                  *)
(***************************************************************************)
EXTENDS Naturals, SequencesExt

CONSTANTS
    LaneNames, AgentNames,   \* sequences of names
    MultiProvider,           \* MULTI_PROVIDER_LANES
    Registered,              \* the models that are registered, by provider, as a sequence
    ProviderOf,
    LoggedIn, WithTools,     \* models that are authenticated, and that have tools
    Suited,                  \* lanes and models that go together by default
    Levels,                  \* levels of thinking
    MaxSaves,                \* bound: saves of a wizard
    MaxWizards,              \* bound: wizards that are opened
    None, Torn               \* a file that is not there, and one that cannot be parsed

WizardLanes == Range(LaneNames)
Providers == Range(ProviderOf)

ASSUME WizardAssumption ==
    /\ MultiProvider \subseteq WizardLanes
    /\ LoggedIn \cup WithTools \subseteq Range(Registered) /\ LoggedIn # {}
    /\ ProviderOf \in [Range(Registered) -> STRING]
    /\ Providers \cap Range(Registered) = {}

VARIABLES
    stage,        \* the stage of the wizard, "closed" without one
    edit,         \* WizardEditState
    cursor,       \* laneIndex and agentIndex
    list,         \* the open select list: what it is for, and what it offers
    provider,     \* laneSelectedProvider: -1 once a provider is chosen
    saves,        \* saves that are under way
    wip, file, tmp,   \* the draft, the profile and its temporary file
    opened, saved,    \* counters
    settled,      \* ghost: what the last save that ended had written
    resumed,      \* ghost: what its wizard had gone on from, when its first save has not ended
    newest,       \* ghost: what was last to be saved
    overlapped    \* ghost: have two saves or a removal overlapped

screenVars == <<stage, edit, cursor, list, provider>>
fileVars == <<wip, file, tmp>>
ghostVars == <<settled, resumed, newest, overlapped>>
wizardVars == <<screenVars, fileVars, ghostVars, saves, opened, saved>>

\* ---- the registry and the first state of a wizard

Chosen == SelectSeq(Registered, LAMBDA m : m \in LoggedIn /\ m \in WithTools)

\* pickDefaultModel: the fallback does not ask for tools.
DefaultModel(l) ==
    LET suited == SelectSeq(Chosen, LAMBDA m : <<l, m>> \in Suited)
    IN  Head(suited \o SelectSeq(Registered, LAMBDA m : m \in LoggedIn))

Defaults == [models |-> [l \in WizardLanes |-> <<DefaultModel(l)>>],
             thinking |-> [l \in WizardLanes |-> CHOOSE t \in Levels : TRUE],
             lane |-> [a \in Range(AgentNames) |-> Head(LaneNames)]]

Whole(f) == f \notin {None, Torn}

ResumedFresh(w, f) == IF Whole(w) THEN w ELSE Defaults
Resumed(w, f) == IF Whole(w) THEN w ELSE IF Whole(f) THEN f ELSE Defaults

NoList == [for |-> "none", offers |-> {}]
SaveSteps == {"draft", "drafting", "drafted", "writing", "written"}

WizardTypeOK ==
    /\ stage \in {"closed", "welcome", "lanes", "agents", "review"}
    /\ cursor \in (1..Len(LaneNames)) \X (1..Len(AgentNames))
    /\ list.for \in {"none", "model", "thinking", "lane", "agent thinking"}
    /\ provider \in {-1, 0}
    /\ \A s \in Range(saves) : s.at \in SaveSteps /\ s.last \in BOOLEAN
                                 /\ s.into \in {"none", "tmp", "file", "nowhere"}
    /\ opened \in 0..MaxWizards /\ saved \in 0..MaxSaves
    /\ overlapped \in BOOLEAN

WizardInit ==
    /\ stage = "closed" /\ edit = Defaults /\ cursor = <<1, 1>> /\ list = NoList /\ provider = 0
    /\ saves = <<>> /\ wip = None /\ tmp = None
    /\ file \in {None} \cup {[Defaults EXCEPT !.models[l] = <<m>>] : l \in MultiProvider, m \in LoggedIn}
    /\ opened = 0 /\ saved = 0 /\ overlapped = FALSE
    /\ settled = Resumed(None, file) /\ resumed = settled /\ newest = settled

\* ---- opening and leaving the wizard

Launch ==
    /\ stage = "closed" /\ saves = <<>> /\ opened < MaxWizards
    /\ stage' = "welcome" /\ edit' = Resumed(wip, file)
    /\ opened' = opened + 1 /\ saved' = 0
    /\ cursor' = <<1, 1>> /\ list' = NoList /\ provider' = 0
    /\ UNCHANGED <<fileVars, ghostVars, saves>>

\* emitProgress starts a save and goes on.
Save(state, last) ==
    /\ saved < MaxSaves /\ saved' = saved + 1
    /\ saves' = Append(saves, [at |-> "draft", last |-> last, text |-> state, into |-> "none"])
    /\ newest' = state
    /\ resumed' = IF saved = 0 THEN edit ELSE resumed
    /\ overlapped' = (overlapped \/ saves # <<>>)
    /\ UNCHANGED settled

NoSave == UNCHANGED <<saves, saved, ghostVars>>

Forward == [welcome |-> "lanes", lanes |-> "agents", agents |-> "review"]
Back == [lanes |-> "welcome", agents |-> "lanes", review |-> "agents"]

\* Enter without a list: goToStage saves on the way forward.
GoForward ==
    /\ list = NoList /\ stage \in DOMAIN Forward
    /\ IF stage = "welcome" THEN NoSave ELSE Save(edit, FALSE)
    /\ stage' = Forward[stage]
    /\ UNCHANGED <<edit, cursor, list, provider, fileVars, opened>>

Confirm ==
    /\ list = NoList /\ stage = "review"
    /\ Save(edit, TRUE)
    /\ stage' = "closed"
    /\ UNCHANGED <<edit, cursor, list, provider, fileVars, opened>>

\* Escape without a list.  A cancelled wizard removes its draft.
GoBack ==
    /\ list = NoList /\ stage \in DOMAIN Back
    /\ stage' = Back[stage]
    /\ UNCHANGED <<edit, cursor, list, provider, fileVars, opened>> /\ NoSave

Cancel ==
    /\ list = NoList /\ stage = "welcome"
    /\ stage' = "closed" /\ wip' = None
    /\ overlapped' = (overlapped \/ saves # <<>>)
    /\ UNCHANGED <<edit, cursor, list, provider, file, tmp, opened, saves, saved, settled,
                   resumed, newest>>

\* ---- keys within a stage

LaneAtCursor == LaneNames[cursor[1]]
AgentAtCursor == AgentNames[cursor[2]]

\* Up, down, left and right move within the stage unless a list is open.
MoveCursor ==
    /\ list = NoList
    /\ \E d \in {-1, 1} :
        \/ /\ stage = "lanes" /\ cursor[1] + d \in 1..Len(LaneNames)
           /\ cursor' = [cursor EXCEPT ![1] = @ + d]
        \/ /\ stage = "agents" /\ cursor[2] + d \in 1..Len(AgentNames)
           /\ cursor' = [cursor EXCEPT ![2] = @ + d]
    /\ UNCHANGED <<stage, edit, list, provider, fileVars, opened>> /\ NoSave

ListFor(what, items) == [for |-> what, offers |-> items]

ListModelsAgain(l) ==
    /\ provider' = provider
    /\ list' = ListFor("model", IF l \in MultiProvider THEN {ProviderOf[m] : m \in LoggedIn}
                                ELSE Range(Chosen))

\* startLaneModelEdit: lanes of several providers offer their providers first.
ListModels(l) ==
    IF l \in MultiProvider
    THEN /\ list' = ListFor("model", {ProviderOf[m] : m \in LoggedIn})
         /\ provider' = 0
    ELSE /\ list' = ListFor("model", Range(Chosen))
         /\ UNCHANGED provider

\* Tab goes from the models of a lane to its levels of thinking and back to no list, also
\* in the middle of a list.
Tab ==
    /\ \/ stage = "lanes" /\ list.for = "none" /\ ListModels(LaneAtCursor)
       \/ /\ stage = "lanes" /\ list.for = "model"
          /\ list' = ListFor("thinking", Levels) /\ UNCHANGED provider
       \/ /\ stage = "agents" /\ list.for = "none"
          /\ list' = ListFor("lane", WizardLanes) /\ UNCHANGED provider
       \/ /\ stage = "agents" /\ list.for = "lane"
          /\ list' = ListFor("agent thinking", Levels) /\ UNCHANGED provider
       \/ list.for \in {"thinking", "agent thinking"} /\ list' = NoList /\ UNCHANGED provider
    /\ UNCHANGED <<stage, edit, cursor, fileVars, opened>> /\ NoSave

\* Escape in a list: laneSelectedProvider stays what it is.
CloseList ==
    /\ list # NoList /\ list' = NoList
    /\ UNCHANGED <<stage, edit, cursor, provider, fileVars, opened>> /\ NoSave

\* The chosen provider's models take the place of the providers.
PickProvider ==
    /\ list.for = "model" /\ LaneAtCursor \in MultiProvider /\ provider = 0
    /\ \E p \in list.offers :
        list' = ListFor("model", {m \in Range(Chosen) : ProviderOf[m] = p})
    /\ provider' = -1
    /\ UNCHANGED <<stage, edit, cursor, fileVars, opened>> /\ NoSave

MakePrimary(models, m) == <<m>> \o SelectSeq(models, LAMBDA x : x # m)

\* Enter in a list; one that offers nothing closes without a choice.
PickModel ==
    /\ list.for = "model" /\ ~(LaneAtCursor \in MultiProvider /\ provider = 0)
    /\ LET l == LaneAtCursor IN
       \/ \E m \in list.offers :
            /\ edit' = [edit EXCEPT !.models[l] = MakePrimary(@, m)]
       \/ list.offers = {} /\ UNCHANGED edit
    /\ list' = NoList
    /\ Save(edit', FALSE)
    /\ UNCHANGED <<stage, cursor, provider, fileVars, opened>>

PickOther ==
    /\ list.for \in {"thinking", "lane", "agent thinking"}
    /\ \E x \in list.offers :
        edit' = CASE list.for = "thinking" -> [edit EXCEPT !.thinking[LaneAtCursor] = x]
                  [] list.for = "lane" -> [edit EXCEPT !.lane[AgentAtCursor] = x]
                  [] OTHER -> edit
    /\ list' = NoList
    /\ Save(edit', FALSE)
    /\ UNCHANGED <<stage, cursor, provider, fileVars, opened>>

\* ---- persistWizardProfileDraft

MoveTo(i, step, text) == saves' = [saves EXCEPT ![i].at = step, ![i].text = text]

\* The draft is written in place.
OpenDraft(i) ==
    /\ saves[i].at = "draft"
    /\ MoveTo(i, "drafting", edit) /\ wip' = Torn
    /\ UNCHANGED <<file, tmp>>

\* Two texts written to one file may mix.
Mixed(text) == {text} \cup (IF overlapped THEN {Torn} ELSE {})

WriteDraft(i) ==
    /\ saves[i].at = "drafting"
    /\ wip' \in Mixed(saves[i].text)
    /\ MoveTo(i, "drafted", edit)          \* buildProfilesForWizardWrite
    /\ UNCHANGED <<file, tmp>>

\* The lists of models are those of the wizard, not copies.
OpenTmp(i) ==
    /\ saves[i].at = "drafted"
    /\ saves' = [saves EXCEPT ![i].at = "writing", ![i].into = "tmp",
                              ![i].text.models = edit.models]
    /\ tmp' = Torn
    /\ UNCHANGED <<wip, file>>

\* A file that was renamed after it was opened is written under its new name.
WriteTmp(i) ==
    /\ saves[i].at = "writing"
    /\ CASE saves[i].into = "tmp" -> tmp' \in Mixed(saves[i].text) /\ UNCHANGED file
         [] saves[i].into = "file" -> file' \in Mixed(saves[i].text) /\ UNCHANGED tmp
         [] OTHER -> UNCHANGED <<tmp, file>>
    /\ saves' = [saves EXCEPT ![i].at = "written", ![i].into = "none"]
    /\ UNCHANGED wip

Moved(s) == [s EXCEPT !.into = CASE s.into = "tmp" -> "file" [] s.into = "file" -> "nowhere"
                                 [] OTHER -> s.into]

\* Only the last save removes the draft; a rename that finds nothing fails, and the
\* draft stays.
RenameTmp(i) ==
    /\ saves[i].at = "written"
    /\ file' = IF tmp = None THEN file ELSE tmp
    /\ tmp' = None
    /\ wip' = IF saves[i].last /\ tmp # None THEN None ELSE wip
    /\ saves' = [j \in 1..(Len(saves) - 1) |-> LET s == RemoveAt(saves, i)[j]
                                               IN  IF tmp = None THEN s ELSE Moved(s)]
    /\ settled' = saves[i].text /\ resumed' = settled'
    /\ UNCHANGED <<newest, overlapped>>

SaveStep ==
    /\ \E i \in DOMAIN saves :
        \/ (OpenDraft(i) \/ WriteDraft(i) \/ OpenTmp(i) \/ WriteTmp(i)) /\ UNCHANGED ghostVars
        \/ RenameTmp(i)
    /\ UNCHANGED <<screenVars, opened, saved>>

\* The process ends with the terminal, in the middle of saves as well.
WizardStops ==
    /\ stage # "closed" \/ saves # <<>>
    /\ stage' = "closed" /\ saves' = <<>> /\ list' = NoList
    /\ UNCHANGED <<edit, cursor, provider, fileVars, ghostVars, opened, saved>>

WizardNext ==
    \/ Launch \/ GoForward \/ Confirm \/ GoBack \/ Cancel \/ MoveCursor \/ Tab \/ CloseList
    \/ PickProvider \/ PickModel \/ PickOther \/ SaveStep \/ WizardStops

WizardSpec == WizardInit /\ [][WizardNext]_wizardVars

-----------------------------------------------------------------------------
\* Unless saves overlap, a wizard that was stopped at any point, in the middle of a save
\* as well, loses no choice whose save had ended: the next one goes on from what the last
\* such save wrote, from what was being saved, or from the draft that the stopped wizard
\* had itself gone on from.
EndedSavesAreKept ==
    stage = "welcome" /\ saved = 0 /\ saves = <<>> /\ ~overlapped =>
        edit \in {settled, resumed, newest}
=============================================================================
