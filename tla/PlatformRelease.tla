--------------------------- MODULE PlatformRelease ---------------------------
(***************************************************************************)
(* Releases of the platform itself (services/platform-release): the CI     *)
(* report as a gate, tofu apply, the history a rollback consults, canary   *)
(* routing, and the registry of pinned module versions that a tenant's     *)
(* cell must name.  Each manager is a process with its own copy of the two *)
(* JSON files, read when it starts and rewritten whole at every change; a  *)
(* kill may come at any step, also in the middle of a rewrite.  tofu and   *)
(* the people who edit module directories are external.                    *)
(***************************************************************************)
EXTENDS Naturals, Sequences, FiniteSets, SequencesExt

CONSTANTS
  Managers,       \* processes of release managers
  Versions,       \* platform versions
  Checkouts,      \* what CI finds in services/; {"no report"}: no CI was run
  ModuleVersions, \* versions of the one module
  Identifiers,    \* what a router routes
  Routers,        \* CanaryRouters: a salt, and new_version_fraction in percent
  Bucket,         \* Bucket[s][i]: bucket_value of identifier i under salt s, in percent
  MaxReleaseOps,  \* bound: operations
  MaxCrashes,     \* bound: kills
  MaxTroubles,    \* bound: tofu runs that fail or do not end
  MaxModuleEdits  \* bound: edits of the module directory

NoVersion == "none"

ASSUME PlatformReleaseAssumption ==
  /\ NoVersion \notin Versions
  /\ \A r \in Routers : r.fraction \in 0..100 /\ Bucket[r.salt] \in [Identifiers -> 0..99]
  /\ \A c \in Checkouts :
       c \subseteq {"no report", "no tests", "no venv", "exit 0", "exit 1", "timeout"}

VARIABLES
  mgr,       \* mgr[m]: memory and current operation of manager m
  historyFile, \* release_history.json
  pinsFile,  \* pinned_module_versions.json
  audit,     \* platform_release_audit_log.jsonl: <<kind, release>>
  deployed,  \* the version tofu's state holds
  applied,   \* every change of it, in order
  dir,       \* content of the module directory
  validated, \* <<version, content>> that all three steps of a validation passed
  moved,     \* <<version, content>> pinned after an edit during its promotion
  cells,     \* module versions of the cell definitions accepted
  splits,    \* the routers configured and the identifiers each sends to the new version
  disturbed, \* a window between apply and append was hit
  releaseOps, crashes, troubles, moduleEdits

releaseVars == <<mgr, historyFile, pinsFile, audit, deployed, applied, dir, validated, moved,
          cells, splits, disturbed, releaseOps, crashes, troubles, moduleEdits>>
files == <<historyFile, pinsFile>>
modules == <<dir, validated, moved, cells>>
counters == <<crashes, troubles, moduleEdits>>

NotRunning ==
  [pc |-> "down", hist |-> <<>>, pins |-> {}, v |-> NoVersion, from |-> NoVersion, id |-> 0,
   seen |-> "none"]
SetMgr(m, r) == mgr' = [mgr EXCEPT ![m] = r]
Finished(r) ==
  [r EXCEPT !.pc = "ready", !.v = NoVersion, !.from = NoVersion, !.id = 0, !.seen = "none"]

ReleaseInit ==
  /\ mgr = [m \in Managers |-> NotRunning]
  /\ historyFile = <<>> /\ pinsFile = {} /\ audit = {}
  /\ deployed = NoVersion /\ applied = <<>>
  /\ dir = "good" /\ validated = {} /\ moved = {} /\ cells = {} /\ splits = {}
  /\ disturbed = FALSE
  /\ releaseOps = 0 /\ crashes = 0 /\ troubles = 0 /\ moduleEdits = 0

(***************************************************************************)
(* Processes.                                                              *)
(***************************************************************************)

\* ReleaseHistory.__init__ and ModuleVersionRegistry.__init__: the files are
\* read; one that a kill has cut short raises.
Start(m) ==
  /\ mgr[m].pc = "down"
  /\ historyFile # <<"torn">> /\ pinsFile # {"torn"}
  /\ SetMgr(m, [NotRunning EXCEPT !.pc = "ready", !.hist = historyFile, !.pins = pinsFile])
  /\ UNCHANGED <<files, audit, deployed, applied, modules, splits, disturbed, releaseOps, counters>>

\* A kill of the process, external; `torn' in the middle of write_text.
Crash(m, torn) ==
  /\ mgr[m].pc # "down" /\ crashes < MaxCrashes
  /\ torn => mgr[m].pc \in {"append", "pin"}
  /\ crashes' = crashes + 1
  /\ historyFile' = IF torn /\ mgr[m].pc = "append" THEN <<"torn">> ELSE historyFile
  /\ pinsFile' = IF torn /\ mgr[m].pc = "pin" THEN {"torn"} ELSE pinsFile
  /\ disturbed' = (disturbed \/ mgr[m].pc = "append")
  /\ SetMgr(m, NotRunning)
  /\ UNCHANGED <<audit, deployed, applied, modules, splits, releaseOps, troubles, moduleEdits>>

Begin(m) == mgr[m].pc = "ready" /\ releaseOps < MaxReleaseOps /\ releaseOps' = releaseOps + 1

(***************************************************************************)
(* Releases and rollbacks.                                                 *)
(***************************************************************************)

\* run_service_tests: the status of one service, by what its pytest did.
RunServiceTests(found) ==
  CASE found = "no venv" -> "not_runnable" [] found = "exit 0" -> "passed"
    [] found \in {"exit 1", "timeout"} -> "failed"

\* discover_services, run_platform_ci: the statuses in the report.
RunPlatformCi(checkout) ==
  IF checkout = {"no report"} THEN {"absent"}
  ELSE {RunServiceTests(found) : found \in checkout \ {"no tests"}}

\* CIReport.all_passed: services that could not be run do not count.
AllPassed(report) == "failed" \notin report

\* Variant: a failing report is recorded and the release goes on.
BlockedNever(report) == FALSE
\* start_release: a report that was supplied and did not pass blocks.
Blocked(report) == report # {"absent"} /\ ~AllPassed(report)

\* start_release: audited, with the report, before anything is applied.
StartRelease(m, v, checkout) ==
  LET report == RunPlatformCi(checkout) IN
  /\ Begin(m)
  /\ audit' = audit \cup {<<"release_started", releaseOps + 1>>}
                    \cup (IF "failed" \in report THEN {<<"release_ci_failed", releaseOps + 1>>}
                          ELSE {})
  /\ SetMgr(m, IF Blocked(report) THEN mgr[m]
               ELSE [mgr[m] EXCEPT !.pc = "apply", !.v = v, !.id = releaseOps + 1])
  /\ UNCHANGED <<files, deployed, applied, modules, splits, disturbed, counters>>

\* ReleaseHistory.previous and current
Previous(hist) == hist[Len(hist) - 1]
Current(hist) == hist[Len(hist)]

\* rollback, up to the apply: NoPriorReleaseError leaves only the first event.
StartRollback(m) ==
  /\ Begin(m)
  /\ audit' = audit \cup {<<"rollback_started", releaseOps + 1>>}
  /\ SetMgr(m, IF Len(mgr[m].hist) < 2 THEN mgr[m]
               ELSE [mgr[m] EXCEPT !.pc = "apply", !.v = Previous(mgr[m].hist),
                                   !.from = Current(mgr[m].hist), !.id = releaseOps + 1])
  /\ UNCHANGED <<files, deployed, applied, modules, splits, disturbed, counters>>

\* Another manager has applied and not recorded yet.
Overlaps(m) == \E n \in Managers \ {m} : mgr[n].pc = "append"

Deploy(m) ==
  /\ deployed' = mgr[m].v
  /\ applied' = Append(applied, [v |-> mgr[m].v, from |-> mgr[m].from, id |-> mgr[m].id])

\* Variant: the outcome is not looked at.
AfterFailureRecorded(m) == [mgr[m] EXCEPT !.pc = "append"]
\* release and rollback_to_previous: nothing is recorded of a failed apply.
AfterFailure(m) ==
  IF mgr[m].from = NoVersion THEN Finished(mgr[m]) ELSE [mgr[m] EXCEPT !.pc = "completed"]

\* apply_platform_version: init, then apply.
ApplyPlatformVersion(m) ==
  /\ mgr[m].pc = "apply"
  /\ Deploy(m)
  /\ disturbed' = (disturbed \/ Overlaps(m))
  /\ SetMgr(m, [mgr[m] EXCEPT !.pc = "append"])
  /\ UNCHANGED <<files, audit, modules, splits, releaseOps, counters>>

\* tofu reports a failure; a failed apply may have changed the deployment.
ApplyFails(m, changed) ==
  /\ mgr[m].pc = "apply" /\ troubles < MaxTroubles
  /\ troubles' = troubles + 1
  /\ IF changed THEN Deploy(m) ELSE UNCHANGED <<deployed, applied>>
  /\ disturbed' = (disturbed \/ changed)
  /\ SetMgr(m, AfterFailure(m))
  /\ UNCHANGED <<files, audit, modules, splits, releaseOps, crashes, moduleEdits>>

\* run_tofu's timeout: TimeoutExpired leaves the operation.
ApplyTimesOut(m, changed) ==
  /\ mgr[m].pc = "apply" /\ troubles < MaxTroubles
  /\ troubles' = troubles + 1
  /\ IF changed THEN Deploy(m) ELSE UNCHANGED <<deployed, applied>>
  /\ disturbed' = (disturbed \/ changed)
  /\ SetMgr(m, Finished(mgr[m]))
  /\ UNCHANGED <<files, audit, modules, splits, releaseOps, crashes, moduleEdits>>

\* ReleaseHistory.append: this process's copy, and the file replaced by it.
AppendHistory(m) ==
  LET hist == Append(mgr[m].hist, mgr[m].v) IN
  /\ mgr[m].pc = "append"
  /\ historyFile' = hist
  /\ disturbed' = (disturbed \/ mgr[m].hist # historyFile)
  /\ SetMgr(m, IF mgr[m].from = NoVersion THEN [Finished(mgr[m]) EXCEPT !.hist = hist]
               ELSE [mgr[m] EXCEPT !.hist = hist, !.pc = "completed"])
  /\ UNCHANGED <<pinsFile, audit, deployed, applied, modules, splits, releaseOps, counters>>

\* rollback: its outcome is audited too.
RollbackCompleted(m) ==
  /\ mgr[m].pc = "completed"
  /\ audit' = audit \cup {<<"rollback_completed", mgr[m].id>>}
  /\ SetMgr(m, Finished(mgr[m]))
  /\ UNCHANGED <<files, deployed, applied, modules, splits, disturbed, releaseOps, counters>>

(***************************************************************************)
(* Canary routing.                                                         *)
(***************************************************************************)

\* CanaryRouter.route: does the router send identifier i to the new version?
Route(i, router) == Bucket[router.salt][i] < router.fraction

\* configure_canary: the split of any router, measured (measure_split) and audited.
ConfigureCanary(m, router) ==
  /\ Begin(m)
  /\ splits' = splits \cup {[router |-> router, to |-> {i \in Identifiers : Route(i, router)}]}
  /\ audit' = audit \cup {<<"canary_routing_configured", releaseOps + 1>>}
  /\ UNCHANGED <<mgr, files, deployed, applied, modules, disturbed, counters>>

\* promote_full_rollout only records.
PromoteFullRollout(m) ==
  /\ Begin(m)
  /\ audit' = audit \cup {<<"release_promoted_full", releaseOps + 1>>}
  /\ UNCHANGED <<mgr, files, deployed, applied, modules, splits, disturbed, counters>>

(***************************************************************************)
(* Module versions.                                                        *)
(***************************************************************************)

\* validate_module_version: init, validate and plan must all succeed.
StepsOf(content) ==
  IF content = "good" THEN <<TRUE, TRUE, TRUE>> ELSE <<TRUE, TRUE, FALSE>>

Approved(steps) == \A i \in DOMAIN steps : steps[i]

\* promote_module_version, the validation.
ValidateModuleVersion(m, v) ==
  /\ Begin(m)
  /\ IF Approved(StepsOf(dir))
     THEN /\ SetMgr(m, [mgr[m] EXCEPT !.pc = "pin", !.v = v, !.seen = dir])
          /\ validated' = IF dir = "good" THEN validated \cup {<<v, dir>>} ELSE validated
     ELSE UNCHANGED <<mgr, validated>>
  /\ UNCHANGED <<files, audit, deployed, applied, dir, moved, cells, splits, disturbed, counters>>

\* promote_module_version, the record: hash_module_dir reads the directory
\* again; promote replaces the file by this process's records.
PromoteModuleVersion(m) ==
  LET pins == {p \in mgr[m].pins : p[1] # mgr[m].v} \cup {<<mgr[m].v, dir>>} IN
  /\ mgr[m].pc = "pin"
  /\ pinsFile' = pins
  /\ moved' = IF dir = mgr[m].seen THEN moved ELSE moved \cup {<<mgr[m].v, dir>>}
  /\ SetMgr(m, [Finished(mgr[m]) EXCEPT !.pins = pins])
  /\ UNCHANGED <<historyFile, audit, deployed, applied, dir, validated, cells, splits, disturbed,
                 releaseOps, counters>>

\* validate_cell_definition: only a version that was promoted, by name.
ValidateCellDefinition(m, v) ==
  /\ Begin(m)
  /\ \E p \in mgr[m].pins : p[1] = v
  /\ cells' = cells \cup {v}
  /\ UNCHANGED <<mgr, files, audit, deployed, applied, dir, validated, moved, splits,
                 disturbed, counters>>

\* Somebody edits the module directory: external.
EditModule ==
  /\ moduleEdits < MaxModuleEdits
  /\ moduleEdits' = moduleEdits + 1
  /\ dir' = IF dir = "good" THEN "bad" ELSE "good"
  /\ UNCHANGED <<mgr, files, audit, deployed, applied, validated, moved, cells, splits,
                 disturbed, releaseOps, crashes, troubles>>

ReleaseNext ==
  \/ \E m \in Managers :
       \/ Start(m) \/ \E torn \in BOOLEAN : Crash(m, torn)
       \/ \E v \in Versions, c \in Checkouts : StartRelease(m, v, c)
       \/ StartRollback(m) \/ ApplyPlatformVersion(m)
       \/ \E changed \in BOOLEAN : ApplyFails(m, changed) \/ ApplyTimesOut(m, changed)
       \/ AppendHistory(m) \/ RollbackCompleted(m)
       \/ \E router \in Routers : ConfigureCanary(m, router)
       \/ PromoteFullRollout(m)
       \/ \E v \in ModuleVersions : ValidateModuleVersion(m, v) \/ ValidateCellDefinition(m, v)
       \/ PromoteModuleVersion(m)
  \/ EditModule

ReleaseSpec == ReleaseInit /\ [][ReleaseNext]_releaseVars

(***************************************************************************)
(* Properties.                                                             *)
(***************************************************************************)
ReleaseTypeOK ==
  /\ \A m \in Managers :
       mgr[m].pc \in {"down", "ready", "apply", "append", "completed", "pin"}
  /\ deployed \in Versions \cup {NoVersion} /\ cells \subseteq ModuleVersions
  /\ \A s \in splits : s.router \in Routers /\ s.to \subseteq Identifiers

\* A rollback deploys a version that was deployed before, never one whose
\* release failed (rollback.py:176, 216); and as long as no kill, no tofu
\* trouble and no second manager came between an apply and its record, the
\* history ends with what is deployed, which is what the next rollback
\* relies on (rollback.py:202-203).
RollbacksReturn ==
  /\ ReleaseTypeOK
  /\ \A i \in DOMAIN applied :
       applied[i].from # NoVersion => \E j \in 1..(i - 1) : applied[j].v = applied[i].v
  /\ (~disturbed /\ \A m \in Managers : mgr[m].pc # "append") =>
       IF historyFile = <<>> THEN deployed = NoVersion ELSE Last(historyFile) = deployed

\* Nothing is deployed that was not announced in the audit log first, and
\* nothing whose CI report showed a failing service (release_manager.py:52-73,
\* 115).  A cell names only module versions that passed a validation
\* (module_versioning.py:237-254, 290), and a pinned record holds the bytes
\* that were validated for its version unless the directory was edited between
\* the validation and the hash of its promotion (module_versioning.py:237,
\* 249).  Of two routers with one salt, the one with the larger fraction sends
\* nobody back to the old version (canary.py:73-79).
ReleasesAreGated ==
  /\ \A i \in DOMAIN applied :
       /\ \E e \in audit :
            e[2] = applied[i].id /\ e[1] \in {"release_started", "rollback_started"}
       /\ <<"release_ci_failed", applied[i].id>> \notin audit
  /\ \A v \in cells : \E p \in validated : p[1] = v
  /\ pinsFile # {"torn"} => pinsFile \subseteq validated \cup moved
  /\ \A s, t \in splits :
       (s.router.salt = t.router.salt /\ s.router.fraction <= t.router.fraction) =>
         s.to \subseteq t.to
=============================================================================
