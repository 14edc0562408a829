------------------------------- MODULE Profiles -------------------------------
(***************************************************************************)
(* Profiles say which models may run the lanes of a workflow, in order of  *)
(* preference, and which lane an agent runs on.  The resolved profile is   *)
(* kept in one file of the user, active-profile.json, for every session    *)
(* and every project: workflows make it fresh before they start            *)
(* (ensureResolved), dispatches read the model of an agent from it, and    *)
(* the subagent bridge moves a lane to its next model when the provider of *)
(* a model turns the agent's messages down.                                *)
(*                                                                         *)
(* Each session works in a project with a profile file of its own.  What a *)
(* profile file says of lanes besides their models, and profiles other     *)
(* than "default", which no command activates, are left out.  Models are   *)
(* positive numbers, 0 is no model; a model may be listed with a level of  *)
(* thinking (m, m:low, m:high), each of which is an entry of its own and   *)
(* has the same Plain number.  Providers and users are external.           *)
(***************************************************************************)
EXTENDS Naturals, SequencesExt, Sublists

CONSTANTS
    Sessions,
    Dispatching,        \* those that dispatch agents, a bound
    Bare,               \* those whose host may hand in no model registry
    Wants,              \* the lanes that callers in each may name, {} for none
    Lanes, Optional,    \* lanes, and those that may go without a model
    Agents, LaneOf,     \* agents, and their lanes (agentBindings)
    Models, Plain,      \* entries of profile files; Plain strips the level of thinking
    Fits,               \* the lanes and models whose capabilities agree
    Definitions,        \* what profile files may say: the preferredModels of each lane
    Registries,         \* the models that may be registered and authenticated
    MaxChanges          \* changes of profile files, the registry and the clock, a bound

ASSUME ProfilesAssumption ==
    /\ Dispatching \subseteq Sessions /\ Optional \subseteq Lanes /\ Agents # {} /\ LaneOf \in [Agents -> Lanes]
    /\ 0 \notin Sessions /\ MaxChanges \in Nat
    /\ Models \subseteq Nat \ {0} /\ Plain \in [Models \cup {0} -> Nat]
    /\ Bare \subseteq Sessions /\ Wants \in [Sessions -> SUBSET SUBSET (Lanes \ Optional)]
    /\ Fits \subseteq Lanes \X Models
    /\ Definitions \subseteq [Lanes -> Seq(Models)] /\ Registries \subseteq SUBSET Models

VARIABLES
    profiles,       \* the profile file of each session's project
    usable,         \* models that are registered and authenticated
    changes,        \* ... changes of both so far
    cache,          \* active-profile.json
    ensuring,       \* where the ensureResolved of each session is, and what it has read
    running,        \* the agent each session runs
    unfit           \* ghost: lanes that ensureResolved promised, and whose models were not
                    \* usable when it last looked

profileVars == <<profiles, usable, changes, cache, ensuring, running, unfit>>

NoModels == [l \in Lanes |-> 0]
NoCache == [owner |-> 0, of |-> [l \in Lanes |-> <<>>], env |-> {}, fresh |-> FALSE,
            lanes |-> NoModels, agents |-> [a \in Agents |-> 0]]
IsCache(c) == c.owner \in Sessions

Caches == [owner : Sessions \cup {0}, of : Definitions \cup {NoCache.of}, env : Registries \cup {{}},
           fresh : BOOLEAN, lanes : [Lanes -> Models \cup {0}],
           agents : [Agents -> Models \cup {0}]]

\* of and env are what the cache is compared with: a set of one, or {} where the file
\* could not be read or there is no registry, and nothing is compared.
NotEnsuring == [at |-> "idle", of |-> {}, env |-> {}, registry |-> FALSE, wanted |-> {},
                recheck |-> {}, next |-> NoCache]
NotRunning == [at |-> "idle", agent |-> CHOOSE a \in Agents : TRUE, model |-> 0,
               left |-> <<>>, tried |-> <<>>, buffer |-> NoCache]

ProfilesTypeOK ==
    /\ profiles \in [Sessions -> Definitions] /\ usable \in Registries
    /\ changes \in 0..MaxChanges
    /\ cache \in Caches
    /\ \A s \in Sessions :
        /\ ensuring[s].at \in {"idle", "look", "activate", "write", "ready", "failed"}
        /\ ensuring[s].wanted \subseteq Lanes \ Optional /\ ensuring[s].recheck \subseteq Lanes \ Optional
        /\ ensuring[s].next \in Caches
        /\ running[s].at \in {"idle", "run", "refused", "persist", "replace"}
        /\ running[s].agent \in Agents /\ running[s].model \in Models \cup {0}
        /\ running[s].left \in Seq(Models) /\ running[s].buffer \in Caches
    /\ unfit \in [Sessions -> SUBSET Lanes]

ProfilesInit ==
    /\ profiles \in [Sessions -> {d \in Definitions : \A l \in Lanes : d[l] # <<>>}]
    /\ usable \in Registries
    /\ changes = 0
    /\ cache = NoCache
    /\ ensuring = [s \in Sessions |-> NotEnsuring]
    /\ running = [s \in Sessions |-> NotRunning]
    /\ unfit = [s \in Sessions |-> {}]

\* validateProfilesFile: each lane has preferred models.
ValidProfiles(d) == \A l \in Lanes : d[l] # <<>>

\* resolveLane: the first preferred model that the registry knows, with a login, and
\* that has what the lane asks for.
ValidCandidate(l, m, known) == m \in known /\ <<l, m>> \in Fits
ResolveLane(l, prefers, known) ==
    LET valid == {i \in DOMAIN prefers : ValidCandidate(l, prefers[i], known)}
    IN  IF valid = {} THEN 0 ELSE prefers[Min(valid)]

Resolved(d, known) == [l \in Lanes |-> ResolveLane(l, d[l], known)]
HasUnresolvedRequiredLanes(r) == \E l \in Lanes \ Optional : r[l] = 0

BuildCache(s, d, known) ==
    [owner |-> s, of |-> d, env |-> known, fresh |-> TRUE, lanes |-> Resolved(d, known),
     agents |-> [a \in Agents |-> Resolved(d, known)[LaneOf[a]]]]

RegistryOf(s) == IF ensuring[s].registry THEN usable ELSE {}

\* preflightLaneHealth: capabilities are not looked at again, and without a registry
\* nothing is.
Healthy(s, lanes, checked) == ensuring[s].registry => \A l \in checked : lanes[l] \in usable

\* The lanes of a trusted cache that are looked at
LanesToPreflight(wanted) == IF wanted = {} THEN Lanes \ Optional ELSE wanted

-----------------------------------------------------------------------------
(* ensureResolved                                                          *)

Entry(step, registry, wanted) ==
    [NotEnsuring EXCEPT !.at = step, !.registry = registry, !.wanted = wanted]

Promised(s) == IF ensuring[s].registry THEN LanesToPreflight(ensuring[s].wanted) ELSE {}
Unseen(s) == unfit' = [unfit EXCEPT ![s] = {}]
Seen(s, lanes) == unfit' = [unfit EXCEPT ![s] = {l \in Promised(s) : lanes[l] \notin usable}]

Ready(s) == ensuring' = [ensuring EXCEPT ![s] = Entry("ready", FALSE, {})]
Fails(s) == ensuring' = [ensuring EXCEPT ![s] = Entry("failed", FALSE, {})] /\ Unseen(s)

\* The hash of the profile file and the fingerprint of the registry.  A file that cannot
\* be read has no hash.
BeginEnsure(s) ==
    /\ ensuring[s].at \in {"idle", "ready", "failed"}
    /\ \E registry, readable \in BOOLEAN, wanted \in Wants[s] :
          /\ registry \/ s \in Bare
          /\ ensuring' = [ensuring EXCEPT ![s] =
              [Entry("look", registry, wanted) EXCEPT
                  !.of = IF readable THEN {profiles[s]} ELSE {},
                  !.env = IF registry THEN {usable} ELSE {}]]
    /\ Unseen(s)
    /\ UNCHANGED <<profiles, usable, changes, cache, running>>

\* isActiveProfileCacheFresh.  The project a cache was made for is not compared.
IsFresh(c, s) ==
    /\ IsCache(c) /\ c.fresh
    /\ \A d \in ensuring[s].of : c.of = d
    /\ \A e \in ensuring[s].env : c.env = e

TrustFresh(s) == IsFresh(cache, s)
TrustCache(s) ==
    IsFresh(cache, s) /\ Healthy(s, cache.lanes, LanesToPreflight(ensuring[s].wanted))

\* What a fresh cache was refused for is looked at again after the activation; else
\* what the caller named.
LookAtCache(s) ==
    /\ ensuring[s].at = "look"
    /\ LET e == ensuring[s] IN
       IF TrustCache(s)
       THEN Ready(s) /\ Seen(s, cache.lanes)
       ELSE /\ ensuring' = [ensuring EXCEPT ![s] =
                  [Entry("activate", e.registry, e.wanted) EXCEPT
                      !.recheck = IF IsFresh(cache, s) THEN LanesToPreflight(e.wanted) ELSE e.wanted]]
            /\ Unseen(s)
    /\ UNCHANGED <<profiles, usable, changes, cache, running>>

\* activateProfile reads, parses and resolves the definition, also for /zflow-profile
\* default and refresh; it fails when the file is invalid or cannot be read, or when a
\* required lane is without a model, as all are without a registry.
Activate(s) ==
    /\ ensuring[s].at = "activate"
    /\ LET d == profiles[s]
           known == RegistryOf(s) IN
       \/ /\ ValidProfiles(d) /\ ~HasUnresolvedRequiredLanes(Resolved(d, known))
          /\ ensuring' = [ensuring EXCEPT ![s].at = "write", ![s].next = BuildCache(s, d, known)]
          /\ Seen(s, Resolved(d, known))
       \/ Fails(s)
    /\ UNCHANGED <<profiles, usable, changes, cache, running>>

RefreshCommand(s) ==
    /\ ensuring[s].at \in {"idle", "ready", "failed"}
    /\ \E registry \in BOOLEAN :
          /\ registry \/ s \in Bare
          /\ ensuring' = [ensuring EXCEPT ![s] = Entry("activate", registry, {})]
    /\ Unseen(s)
    /\ UNCHANGED <<profiles, usable, changes, cache, running>>

\* writeActiveProfileCache replaces the file, or fails.  Then the lanes to look at again
\* are: ensureResolved fails when one of them has lost its model, but the file is written.
WriteCache(s) ==
    /\ ensuring[s].at = "write"
    /\ LET e == ensuring[s] IN
       \/ /\ cache' = e.next
          /\ IF Healthy(s, e.next.lanes, e.recheck)
             THEN Ready(s) /\ (IF e.recheck = {} THEN UNCHANGED unfit ELSE Seen(s, e.next.lanes))
             ELSE Fails(s)
       \/ Fails(s) /\ UNCHANGED cache
    /\ UNCHANGED <<profiles, usable, changes, running>>

-----------------------------------------------------------------------------
(* runAgent of the bridge                                                  *)

\* The model of an agent is read from the cache, whoever made it and whatever its age.
StartAgent(s, a) ==
    /\ running[s].at = "idle" /\ ensuring[s].at \in {"ready", "failed"}
    /\ running' = [running EXCEPT ![s] = [NotRunning EXCEPT
            !.at = "run", !.agent = a, !.model = cache.agents[a], !.tried = <<cache.agents[a]>>]]
    /\ UNCHANGED <<profiles, usable, changes, cache, ensuring, unfit>>

\* The agent succeeds or fails, or the provider turns down the role of its messages.
AgentEnds(s) ==
    /\ running[s].at = "run"
    /\ \/ running' = [running EXCEPT ![s] = NotRunning]
       \/ running' = [running EXCEPT ![s].at =
                        IF Len(running[s].tried) = 1 THEN "refused" ELSE "persist"]
    /\ UNCHANGED <<profiles, usable, changes, cache, ensuring, unfit>>

\* resolveAgentFallbackModelCandidates: the preferred models behind the present one, or
\* all when it is not among them, as the profile file of the cache's owner is now.  The
\* present model is left out at every level of thinking, but two levels of another are
\* two candidates: only an entry that is repeated is dropped.
CandidatesFromStart(prefers, m) == prefers
Behind(prefers, m) ==
    LET places == {j \in DOMAIN prefers : Plain[prefers[j]] = Plain[m]}
    IN  {i \in DOMAIN prefers : places # {} => \E j \in places : j < i}
Candidates(prefers, m) ==
    LET tail == {i \in Behind(prefers, m) : Plain[prefers[i]] # Plain[m]}
    IN  Picked(prefers, {i \in tail : \A j \in tail : prefers[j] = prefers[i] => i <= j})

LoadCandidates(s) ==
    /\ running[s].at = "refused"
    /\ LET prefers == IF IsCache(cache) THEN profiles[cache.owner][LaneOf[running[s].agent]] ELSE <<>>
       IN  running' = [running EXCEPT ![s].at = "persist",
                                      ![s].left = Candidates(prefers, running[s].model)]
    /\ UNCHANGED <<profiles, usable, changes, cache, ensuring, unfit>>

\* persistAgentFallbackModel reads the cache and replaces it, before the model is tried.
ReadForFallback(s) ==
    /\ running[s].at = "persist"
    /\ running' = [running EXCEPT ![s] =
                     IF running[s].left = <<>> THEN NotRunning
                     ELSE [running[s] EXCEPT !.at = "replace", !.buffer = cache]]
    /\ UNCHANGED <<profiles, usable, changes, cache, ensuring, unfit>>

MoveAgent(c, a, m) == [c EXCEPT !.fresh = TRUE, !.agents[a] = m]
MoveLane(c, a, m) ==
    [c EXCEPT !.fresh = TRUE,
              !.lanes[LaneOf[a]] = m,
              !.agents = [b \in Agents |-> IF LaneOf[b] = LaneOf[a] THEN m ELSE c.agents[b]]]

\* A write that fails is passed over, and the model tried all the same.
ReplaceForFallback(s) ==
    /\ running[s].at = "replace"
    /\ LET r == running[s]
           m == Head(r.left) IN
       /\ \/ IsCache(r.buffer) /\ cache' = MoveLane(r.buffer, r.agent, m)
          \/ UNCHANGED cache
       /\ running' = [running EXCEPT ![s] =
                        [NotRunning EXCEPT !.at = "run", !.agent = r.agent, !.model = m,
                                           !.left = Tail(r.left), !.tried = Append(r.tried, m)]]
    /\ UNCHANGED <<profiles, usable, changes, ensuring, unfit>>

-----------------------------------------------------------------------------
(* Users and the world                                                     *)

Change ==
    /\ changes < MaxChanges /\ changes' = changes + 1
    /\ \/ \E s \in Sessions, d \in Definitions :
            profiles' = [profiles EXCEPT ![s] = d] /\ UNCHANGED <<usable, cache>>
       \/ usable' \in Registries /\ UNCHANGED <<profiles, cache>>
       \/ cache' = [cache EXCEPT !.fresh = FALSE] /\ UNCHANGED <<profiles, usable>>
    /\ UNCHANGED <<ensuring, running, unfit>>

EnsureStep(s) == LookAtCache(s) \/ Activate(s) \/ WriteCache(s)
AgentStep(s) == AgentEnds(s) \/ LoadCandidates(s) \/ ReadForFallback(s) \/ ReplaceForFallback(s)

ProfilesNext ==
    \/ \E s \in Sessions : BeginEnsure(s) \/ RefreshCommand(s) \/ EnsureStep(s) \/ AgentStep(s)
    \/ \E s \in Dispatching, a \in Agents : StartAgent(s, a)
    \/ Change

ProfilesSpec == ProfilesInit /\ [][ProfilesNext]_profileVars

-----------------------------------------------------------------------------
(* Properties                                                              *)

\* When ensureResolved, asked with the registry, lets a workflow start, each required
\* lane (each one that the caller named, if it named any) had a model it could use at
\* that moment: not one that the bridge persisted without asking the registry, nor one
\* that was logged out of since, in a cache that was taken over unhashed.
EnsuredLanesWork ==
    \A s \in Sessions : ensuring[s].at = "ready" => unfit[s] = {}

\* All agents of a lane run on the model of the lane, through activations and fallbacks
\* of several sessions that replace each other's file.
LaneHasOneModel == \A a \in Agents : cache.agents[a] = cache.lanes[LaneOf[a]]

\* An agent is never run a second time with an entry that was turned down, nor with the
\* first model again at another level of thinking: so its fallbacks come to an end.
NoModelTwice ==
    \A s \in Sessions :
        LET tried == running[s].tried IN
        /\ IsInjective(tried)
        /\ \A i \in DOMAIN tried : i > 1 => Plain[tried[i]] # Plain[tried[1]]
=============================================================================
