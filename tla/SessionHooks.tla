----------------------------- MODULE SessionHooks ---------------------------
(* The hooks of one session: proactive compaction and the reminder that      *)
(* follows it (packages/pi-zflow-compaction/extensions/zflow-compaction/     *)
(* index.ts), plan mode (packages/pi-zflow-plan-mode/.../index.ts, state.ts) *)
(* and the claims that keep a second copy of an extension from adding its    *)
(* hooks again (packages/pi-zflow-core/src/registry.ts).                     *)
(*                                                                           *)
(* Pi calls the hooks: at the end of a turn, before and after it compacts    *)
(* the conversation, and before an agent starts.  A compaction that a hook   *)
(* asks for runs beside the session, so that a prompt may start an agent     *)
(* while it is under way.  Each copy of the compaction extension that        *)
(* registers hooks keeps flags of its own.                                   *)
EXTENDS Integers, FiniteSets

CONSTANTS
    Copies,         \* copies of the compaction extension that Pi loads
    VersionOf,      \* the version of each
    Window,         \* the context window
    Threshold,      \* the usage from which compaction is due
    MinDelta,       \* MIN_TOKEN_DELTA
    Growth,         \* what a turn may add to the context
    Kept,           \* what a compaction may leave of it
    NoCopy          \* no copy owns the capability

\* A copy claims with itself as the provider, never with nothing.
ASSUME HooksAssumption ==
    /\ NoCopy \notin Copies
    /\ Window \in Nat /\ Growth \subseteq Nat /\ Kept \subseteq Nat

VARIABLES
    loading,        \* copies whose activation has not run
    owner,          \* the copy that claimed the capability
    hooked,         \* copies that registered their hooks
    tokens,         \* tokens in the context
    compaction,     \* "none", "asked" or "started"
    inProgress,     \* compactionInProgress of each copy
    lastTokens,     \* lastCompactionTokens of each copy, 0 if null
    pendingHandoff, \* pendingCompactionHandoff of each copy
    marked,         \* the session holds a marker entry
    agent,          \* "idle", "starting" or "running"
    reminding,      \* copies that add their reminder to the agent's prompt
    planActive,     \* _state of plan mode is "active"
    tools,          \* "all" or "restricted": Pi's active tools
    base,           \* history: tokens after the last compaction
    owed,           \* history: a compaction ended and no agent started since
    due             \* history: the agent that starts or runs was owed a reminder

compactVars == <<loading, owner, hooked, tokens, compaction, inProgress, lastTokens, pendingHandoff, marked>>
agentVars == <<agent, reminding, planActive, tools>>
owedVars == <<base, owed, due>>
hookVars == <<compactVars, agentVars, owedVars>>

HooksTypeOK ==
    /\ loading \subseteq Copies /\ hooked \subseteq Copies
    /\ owner \in Copies \cup {NoCopy}
    /\ tokens \in 0..Window /\ base \in 0..Window
    /\ compaction \in {"none", "asked", "started"}
    /\ inProgress \in [Copies -> BOOLEAN]
    /\ lastTokens \in [Copies -> 0..Window]
    /\ pendingHandoff \in [Copies -> BOOLEAN]
    /\ agent \in {"idle", "starting", "running"}
    /\ reminding \subseteq Copies
    /\ {marked, planActive, owed, due} \subseteq BOOLEAN
    /\ tools \in {"all", "restricted"}

HooksInit ==
    /\ loading = Copies /\ owner = NoCopy /\ hooked = {}
    /\ tokens = 0 /\ base = 0 /\ compaction = "none"
    /\ inProgress = [c \in Copies |-> FALSE]
    /\ lastTokens = [c \in Copies |-> 0]
    /\ pendingHandoff = [c \in Copies |-> FALSE]
    /\ marked = FALSE /\ agent = "idle" /\ reminding = {}
    /\ planActive = FALSE /\ tools = "all"
    /\ owed = FALSE /\ due = FALSE

(***************************************************************************)
(* Activation.  A first claim is followed by the service and the hooks; a  *)
(* claim of another version is rejected, and a compatible one finds the    *)
(* service of the first copy: both leave without a hook.                   *)
(***************************************************************************)
Claimed(c) == owner = NoCopy \/ VersionOf[owner] = VersionOf[c]

Provided == owner # NoCopy

ActivateExtension(c) ==
    /\ c \in loading
    /\ loading' = loading \ {c}
    /\ IF Claimed(c) /\ ~Provided
         THEN owner' = c /\ hooked' = hooked \cup {c}
         ELSE UNCHANGED <<owner, hooked>>
    /\ UNCHANGED <<tokens, compaction, inProgress, lastTokens, pendingHandoff, marked, agentVars, owedVars>>

(***************************************************************************)
(* turn_end: usage has reached the threshold, no compaction of this copy   *)
(* is in progress, and enough was consumed since the last one.  The count  *)
(* kept for the next time is the one before this compaction.               *)
(***************************************************************************)
Asks(c) ==
    /\ c \in hooked /\ ~inProgress[c]
    /\ tokens' >= Threshold
    /\ lastTokens[c] = 0 \/ tokens' - lastTokens[c] >= MinDelta

TurnEnds(known) ==
    /\ agent = "running"
    /\ \E g \in Growth : tokens + g <= Window /\ tokens' = tokens + g
    /\ LET asking == {c \in Copies : known /\ Asks(c)}
       IN  /\ inProgress' = [c \in Copies |-> inProgress[c] \/ c \in asking]
           /\ lastTokens' = [c \in Copies |-> IF c \in asking THEN tokens' ELSE lastTokens[c]]
           /\ compaction' = IF asking # {} /\ compaction = "none" THEN "asked" ELSE compaction
    /\ UNCHANGED <<loading, owner, hooked, pendingHandoff, marked, agentVars, owedVars>>

\* The user, or Pi at the end of its window, asks for a compaction.
AskedOtherwise ==
    /\ loading = {} /\ compaction = "none" /\ tokens > 0
    /\ compaction' = "asked"
    /\ UNCHANGED <<loading, owner, hooked, tokens, inProgress, lastTokens, pendingHandoff, marked, agentVars, owedVars>>

(***************************************************************************)
(* session_before_compact: above the threshold a cheap model may write the *)
(* summary (it may be missing, not logged in, fail or answer nothing: the  *)
(* default compaction goes on then), and the reminder is pending already,  *)
(* before the compaction has ended.                                        *)
(***************************************************************************)
BeforeCompact(summarized) ==
    /\ compaction = "asked" /\ agent # "running"
    /\ compaction' = "started"
    /\ summarized => tokens >= Threshold
    /\ pendingHandoff' = [c \in Copies |-> pendingHandoff[c] \/ (summarized /\ c \in hooked)]
    /\ UNCHANGED <<loading, owner, hooked, tokens, inProgress, lastTokens, marked, agentVars, owedVars>>

\* session_compact.  The marker entry is written as far as the session can.
Compacted ==
    /\ compaction = "started"
    /\ compaction' = "none"
    /\ tokens' \in {k \in Kept : k < tokens} /\ base' = tokens'
    /\ pendingHandoff' = [c \in Copies |-> pendingHandoff[c] \/ c \in hooked]
    /\ inProgress' = [c \in Copies |-> inProgress[c] /\ c \notin hooked]
    /\ marked' \in {marked, hooked # {}}
    /\ owed' = (hooked # {})
    /\ UNCHANGED <<loading, owner, hooked, lastTokens, agentVars, due>>

\* A compaction is cancelled or fails: no hook hears of it.
CompactionFails ==
    /\ compaction # "none"
    /\ compaction' = "none"
    /\ UNCHANGED <<loading, owner, hooked, tokens, inProgress, lastTokens, pendingHandoff, marked, agentVars, owedVars>>

(***************************************************************************)
(* before_agent_start: the flag is cleared before the reminder is built,   *)
(* which reads a file, and what a compaction sets meanwhile is for the     *)
(* next agent.  Plan mode takes the tools that edit away.                  *)
(***************************************************************************)
ClearWhenBuilt(moment) ==
    pendingHandoff' = [c \in Copies |-> pendingHandoff[c] /\ (moment = "called" \/ c \notin hooked)]

ClearFlag(moment) ==
    pendingHandoff' = [c \in Copies |-> pendingHandoff[c] /\ (moment = "built" \/ c \notin hooked)]

PlanTools == IF planActive THEN "restricted" ELSE tools

AgentStarts ==
    /\ loading = {} /\ agent = "idle" /\ agent' = "starting"
    /\ reminding' = {c \in hooked : pendingHandoff[c]}
    /\ ClearFlag("called")
    /\ tools' = PlanTools
    /\ due' = owed /\ owed' = FALSE
    /\ UNCHANGED <<loading, owner, hooked, tokens, compaction, inProgress, lastTokens, marked, planActive, base>>

AgentRuns ==
    /\ agent = "starting" /\ agent' = "running"
    /\ ClearFlag("built")
    /\ UNCHANGED <<loading, owner, hooked, tokens, compaction, inProgress, lastTokens, marked, reminding, planActive,
                   tools, owedVars>>

AgentDone ==
    /\ agent = "running" /\ agent' = "idle"
    /\ reminding' = {} /\ due' = FALSE
    /\ UNCHANGED <<compactVars, planActive, tools, base, owed>>

\* /zflow-plan and /zflow-plan exit.  Only AgentStarts sets Pi's tools, and
\* only to the restricted ones.
TogglePlanMode ==
    /\ loading = {} /\ planActive' = ~planActive
    /\ UNCHANGED <<compactVars, agent, reminding, tools, owedVars>>

\* What a call of edit or write needs: the tool, and plan mode not blocking it.
MayEdit == tools = "all" /\ ~planActive

\* Pi starts again on the same session: what the hooks kept in memory is gone.
Restarts ==
    /\ loading = {} /\ loading' = Copies
    /\ owner' = NoCopy /\ hooked' = {} /\ compaction' = "none"
    /\ inProgress' = [c \in Copies |-> FALSE]
    /\ lastTokens' = [c \in Copies |-> 0]
    /\ pendingHandoff' = [c \in Copies |-> FALSE]
    /\ agent' = "idle" /\ reminding' = {} /\ planActive' = FALSE /\ tools' = "all"
    /\ owed' = FALSE /\ due' = FALSE
    /\ UNCHANGED <<tokens, marked, base>>

HooksNext ==
    \/ \E c \in Copies : ActivateExtension(c)
    \/ \E known \in BOOLEAN : TurnEnds(known)
    \/ AskedOtherwise
    \/ \E summarized \in BOOLEAN : BeforeCompact(summarized)
    \/ Compacted
    \/ CompactionFails
    \/ AgentStarts
    \/ AgentRuns
    \/ AgentDone
    \/ TogglePlanMode
    \/ Restarts

HooksSpec == HooksInit /\ [][HooksNext]_hookVars

(***************************************************************************)
(* Properties                                                              *)
(***************************************************************************)

\* The agent that starts after a compaction, in the same process, gets the
\* reminder to read its artifacts again, and gets it once: whatever ends while
\* a start is under way, whichever copies of the extension Pi has loaded.
HandoffFollows ==
    agent = "running" => /\ Cardinality(reminding) <= 1
                         /\ due => reminding # {}

\* Above the threshold, with no compaction in progress for the hooks and the
\* minimum consumed after the last compaction, a turn asks for another one.
CompactsAtThreshold ==
    [][ /\ TurnEnds(TRUE)
        /\ compaction = "none" /\ \A c \in hooked : ~inProgress[c]
        /\ tokens' >= Threshold /\ tokens' - base >= MinDelta
        => compaction' = "asked" ]_hookVars

\* Leaving plan mode gives the next agent the tools that edit back.
EditingIsRestored == agent = "running" /\ ~planActive => MayEdit
=============================================================================
