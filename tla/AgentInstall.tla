----------------------------- MODULE AgentInstall ---------------------------
(* /zflow-setup-agents and /zflow-update-agents (packages/pi-zflow-agents/   *)
(* extensions/zflow-agents/index.ts, install.ts, manifest.ts): the files of  *)
(* the agents and chains of the package are copied into the directory of the *)
(* user, and a manifest records which version of the package was installed.  *)
(*                                                                           *)
(* The user edits the installed files, installs other versions of the        *)
(* package, and stops commands in the middle; copies fail.                   *)
EXTENDS Integers, Sequences

CONSTANTS
    Package         \* the versions of the package: what each holds of each file

ASSUME PackageIsNamed ==
    /\ Len(Package) \in Nat \ {0} /\ DOMAIN Package = 1..Len(Package)
    /\ \A v \in DOMAIN Package : \A f \in DOMAIN Package[v] : Package[v][f] \in Nat \ {0}

VARIABLES
    packaged,       \* the version of the package
    installed,      \* content of the installed files
    recorded,       \* packageVersion of the manifest, 0 without one
    installer,      \* "idle", "choosing" or "copying"
    forced,         \* options.force
    updating,       \* options.update, with a manifest there
    todo,           \* files the loop has not come to
    target,         \* the file being copied, if any
    failed,         \* files in errors
    kept,           \* files in warnings: told to be there with other content
    report,         \* what the last command told: "none", "current", "success" or "errors"
    touched,        \* history: files the user changed since the command began
    promised        \* history: warned of by a setup, and not overwritten since

installVars == <<packaged, installed, recorded, installer, forced, updating, todo, target, failed, kept, report,
                 touched, promised>>

Files == UNION {DOMAIN Package[v] : v \in DOMAIN Package}
Contents == UNION {{Package[v][f] : f \in DOMAIN Package[v]} : v \in DOMAIN Package}
Absent == 0
Edited == -1        \* something of the user's
Half == -2          \* a copy that was cut off

InstallTypeOK ==
    /\ packaged \in DOMAIN Package /\ recorded \in 0..Len(Package)
    /\ installed \in [Files -> Contents \cup {Absent, Edited, Half}]
    /\ installer \in {"idle", "choosing", "copying"}
    /\ {forced, updating} \subseteq BOOLEAN
    /\ todo \cup target \cup failed \cup kept \cup touched \cup promised \subseteq Files
    /\ report \in {"none", "current", "success", "errors"}

InstallInit ==
    /\ packaged = 1 /\ installed = [f \in Files |-> Absent] /\ recorded = 0
    /\ installer = "idle" /\ forced = FALSE /\ updating = FALSE
    /\ todo = {} /\ target = {} /\ failed = {} /\ kept = {}
    /\ report = "none" /\ touched = {} /\ promised = {}

Source == Package[packaged]

(***************************************************************************)
(* The commands.  Update compares the manifest with the package, and not   *)
(* the files; without a manifest it goes on as a setup does.               *)
(***************************************************************************)
Install(force, update) ==
    /\ installer' = "choosing"
    /\ forced' = force /\ updating' = (update /\ recorded # 0)
    /\ todo' = DOMAIN Source
    /\ failed' = {} /\ kept' = {} /\ touched' = {} /\ report' = "none"
    /\ UNCHANGED <<packaged, installed, recorded, target, promised>>

Setup(force) == installer = "idle" /\ Install(force, FALSE)

NeedsUpdate == recorded # packaged

Update(force) ==
    /\ installer = "idle"
    /\ IF recorded = 0 \/ NeedsUpdate
         THEN Install(force, TRUE)
         ELSE /\ report' = "current"
              /\ UNCHANGED <<packaged, installed, recorded, installer, forced, updating, todo, target, failed, kept,
                             touched, promised>>

(***************************************************************************)
(* The loop over the files.  An identical file is left alone, a different  *)
(* one is left alone and warned of unless this is forced or an update, and *)
(* everything else is overwritten in place.                                *)
(***************************************************************************)
Identical(f) == installed[f] = Source[f]

Protected(f) == installed[f] # Absent /\ ~Identical(f) /\ ~forced /\ ~updating

WarnedOfUnlessRecorded(f) == Protected(f) /\ NeedsUpdate

WarnedOf(f) == Protected(f)

LeaveFile(f) ==
    /\ installer = "choosing" /\ f \in todo
    /\ Identical(f) \/ Protected(f)
    /\ todo' = todo \ {f}
    /\ IF WarnedOf(f) THEN kept' = kept \cup {f} /\ promised' = promised \cup {f}
                      ELSE UNCHANGED <<kept, promised>>
    /\ UNCHANGED <<packaged, installed, recorded, installer, forced, updating, target, failed, report, touched>>

BeginCopy(f) ==
    /\ installer = "choosing" /\ f \in todo
    /\ ~Identical(f) /\ ~Protected(f)
    /\ installer' = "copying" /\ target' = {f} /\ todo' = todo \ {f}
    /\ UNCHANGED <<packaged, installed, recorded, forced, updating, failed, kept, report, touched, promised>>

\* The file is opened, which empties it, before it is filled.
CopyOpens(f) ==
    /\ f \in target /\ installed[f] # Half
    /\ installed' = [installed EXCEPT ![f] = Half]
    /\ UNCHANGED <<packaged, recorded, installer, forced, updating, todo, target, failed, kept, report, touched,
                   promised>>

CopyEnds(f) ==
    /\ f \in target /\ installed[f] = Half
    /\ installed' = [installed EXCEPT ![f] = Source[f]]
    /\ installer' = "choosing" /\ target' = {}
    /\ promised' = promised \ {f}
    /\ UNCHANGED <<packaged, recorded, forced, updating, todo, failed, kept, report, touched>>

CopyFails(f) ==
    /\ f \in target
    /\ failed' = failed \cup {f}
    /\ installer' = "choosing" /\ target' = {}
    /\ UNCHANGED <<packaged, installed, recorded, forced, updating, todo, kept, report, touched, promised>>

\* The manifest names the version of the package, whatever the loop did.
WriteManifest ==
    /\ installer = "choosing" /\ todo = {}
    /\ recorded' = packaged
    /\ report' = IF failed = {} THEN "success" ELSE "errors"
    /\ installer' = "idle"
    /\ UNCHANGED <<packaged, installed, forced, updating, todo, target, failed, kept, touched, promised>>

\* The write of the manifest fails, or the process ends.
InstallStops ==
    /\ installer # "idle"
    /\ installer' = "idle" /\ todo' = {} /\ target' = {}
    /\ UNCHANGED <<packaged, installed, recorded, forced, updating, failed, kept, report, touched, promised>>

UserEdits(f) ==
    /\ installed[f] \notin {Absent, Edited} /\ f \notin target
    /\ installed' = [installed EXCEPT ![f] = Edited]
    /\ touched' = touched \cup {f} /\ promised' = promised \ {f}
    /\ UNCHANGED <<packaged, recorded, installer, forced, updating, todo, target, failed, kept, report>>

Upgrade ==
    /\ installer = "idle" /\ packaged < Len(Package)
    /\ packaged' = packaged + 1 /\ report' = "none"
    /\ UNCHANGED <<installed, recorded, installer, forced, updating, todo, target, failed, kept, touched, promised>>

InstallNext ==
    \/ \E force \in BOOLEAN : Setup(force)
    \/ \E force \in BOOLEAN : Update(force)
    \/ \E f \in Files : \/ LeaveFile(f)
                        \/ BeginCopy(f)
                        \/ CopyOpens(f)
                        \/ CopyEnds(f)
                        \/ CopyFails(f)
                        \/ UserEdits(f)
    \/ WriteManifest
    \/ InstallStops
    \/ Upgrade

InstallSpec == InstallInit /\ [][InstallNext]_installVars

(***************************************************************************)
(* Properties                                                              *)
(***************************************************************************)

\* A command that reports success has installed the files of the package, all
\* but those it names in a warning and those the user changed meanwhile:
\* whatever earlier commands left there, cut off or failed in the middle.
SuccessIsComplete ==
    report = "success" => \A f \in DOMAIN Source \ (kept \cup touched) : Identical(f)

\* The warning of a setup says that /zflow-update-agents overwrites the file:
\* when that command has found nothing to do, no such file is left.
UpdateReachesKept == report = "current" => promised = {}
=============================================================================
