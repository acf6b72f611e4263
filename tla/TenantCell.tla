------------------------------ MODULE TenantCell ------------------------------
(***************************************************************************)
(* A run on a node that its cloud may take back (services/tenant-cell):    *)
(* cold start, the interruption watcher's five steps, and, around the same *)
(* row of the run registry, the orchestrator process that verifies the run *)
(* on that node, the people who answer it, and the fleet dashboard that    *)
(* polls it (services/fleet-dashboard).                                    *)
(*                                                                         *)
(* The provisioning client, the cloud and the clock are external.  Stages  *)
(* before implementation and after the change review are left out; they    *)
(* are in Orchestrator.                                                    *)
(***************************************************************************)
EXTENDS VerificationPipeline, RunStages

CONSTANTS
  Runners,       \* of {"two", "seven", "bare"}: the layers a verification may have
  Changes,       \* what the workspace may be like when it is verified
  WarningWindow, \* warning_window_seconds, in units of one request's drain
  InFlight,      \* in-flight requests when the warning comes
  BoardTenants,  \* tenants of the dashboard's callers
  RunTenant,     \* the tenant of the run
  Pollers,       \* request threads of the dashboard
  MaxPolls,      \* max_polls of a cold start
  MaxRowVersion, \* bound: writes of the row
  MaxNodes,      \* bound: nodes requested
  MaxCount       \* bound: checkpoints the dashboard has counted

ASSUME TenantCellAssumption ==
  /\ WarningWindow \in Nat /\ InFlight \subseteq Nat /\ MaxPolls \in Nat \ {0}
  /\ Runners \subseteq {"two", "seven", "bare"} /\ RunTenant \in BoardTenants
  /\ MaxRowVersion \in Nat \ {0} /\ MaxNodes \in Nat /\ MaxCount \in Nat
  /\ \A c \in Changes : IsChange(c)

VARIABLES
  row,       \* the run's row: version, stage, checkpoint_pointer
  returned,  \* the versions at which it last came back to implementation
  orch,      \* the orchestrator process
  pipeline,  \* its VerificationPipeline of this run
  failures,  \* attempts that failed in that pipeline, escalated or not
  node,      \* the node, and the polls of its cold start
  requested, \* nodes requested so far
  watcher,   \* one handle_interruption
  lost,      \* questions a watcher's checkpoint replaced, with its warning
  sink,      \* the infra events of the current warning, in order
  clock,     \* since the warning
  fetched,   \* what each request thread of the dashboard has read
  seenBy     \* the dashboard's RunObservation

cellVars == <<row, returned, orch, pipeline, failures, node, requested, watcher, lost, sink, clock,
          fetched, seenBy>>
registry == <<row, returned>>
process == <<orch, pipeline, failures>>
cell == <<node, requested>>
warning == <<watcher, lost, sink>>
board == <<fetched, seenBy>>

Down == [pc |-> "down", runner |-> "none", version |-> 0, to |-> "none", verdict |-> "none",
         sound |-> TRUE]
Ready(runner) == [Down EXCEPT !.pc = "ready", !.runner = runner]
NoNode == [st |-> "none", polls |-> 0, inFlight |-> 0]
NoPointer == [kind |-> "none", at |-> 0, nth |-> 0]
Calm == [pc |-> "idle", version |-> 0, until |-> 0, began |-> 0, flushed |-> FALSE,
         landed |-> FALSE, result |-> "none"]
NoRead == [version |-> 0, stage |-> "none", pointer |-> NoPointer]
\* RunObservation, and what it is true of: the version it was made at, the
\* one the watching began with, and whether an older read came after a newer.
Unseen == [version |-> 0, stage |-> "none", pointer |-> NoPointer, count |-> 0, badge |-> "none",
           since |-> 0, order |-> "kept"]

CellInit ==
  /\ row = [version |-> 1, stage |-> IMPLEMENTATION, pointer |-> NoPointer]
  /\ returned = [failed |-> 0, review |-> 0]
  /\ orch = Down /\ pipeline = NewPipeline /\ failures = 0
  /\ node = NoNode /\ requested = 0
  /\ watcher = Calm /\ lost = {} /\ sink = <<>> /\ clock = 0
  /\ fetched = [p \in Pollers |-> NoRead] /\ seenBy = Unseen

(***************************************************************************)
(* Cold start (cold_start.py).                                             *)
(***************************************************************************)

\* track_cold_start, request_node: every request is a node of its own.
RequestNode ==
  /\ node.st = "none" /\ requested < MaxNodes
  /\ requested' = requested + 1
  /\ node' = [NoNode EXCEPT !.st = "booting"]
  /\ UNCHANGED <<registry, process, warning, clock, board>>

\* track_cold_start, one poll; the last one that fails gives up, and the
\* node stays allocated.  The orchestrator starts on a node that serves.
PollHealth(healthy) ==
  /\ node.st = "booting"
  /\ IF healthy
     THEN /\ node' = [node EXCEPT !.st = "serving"]
          /\ \E runner \in Runners : orch' = Ready(runner)
          /\ pipeline' = NewPipeline /\ failures' = 0
     ELSE /\ node' = IF node.polls + 1 = MaxPolls THEN NoNode
                     ELSE [node EXCEPT !.polls = @ + 1]
          /\ UNCHANGED process
  /\ UNCHANGED <<registry, requested, warning, clock, board>>

(***************************************************************************)
(* The registry (modelled in full in RunRegistry).                         *)
(***************************************************************************)

\* Variant: the version is not compared.
FitsAlways(version) == TRUE
\* write_checkpoint, transition_stage: the version the caller has seen.
Fits(version) == row.version = version

WritePointer(kind) ==
  /\ row' = [row EXCEPT !.version = @ + 1,
                        !.pointer = [kind |-> kind, at |-> row.version + 1,
                                     nth |-> row.pointer.nth + 1]]
  /\ UNCHANGED returned

WriteStage(stage) ==
  /\ row' = [row EXCEPT !.version = @ + 1, !.stage = stage]
  /\ returned' =
       IF stage # IMPLEMENTATION THEN returned
       ELSE IF row.stage = VERIFICATION THEN [returned EXCEPT !.failed = row.version + 1]
       ELSE IF row.stage = CHANGE_REVIEW_GATE THEN [returned EXCEPT !.review = row.version + 1]
       ELSE returned

(***************************************************************************)
(* The orchestrator on the node (modelled in full in Orchestrator).        *)
(***************************************************************************)

\* _pending_checkpoint: a pointer that is no Elicitation raises.
Drives ==
  /\ row.pointer.kind \in {"none", "resolved"}
  /\ row.stage \in {IMPLEMENTATION, VERIFICATION}

\* What the process is to write after a step.  A question is written with the
\* version read before the step; for a stage the row is read again.
Outcome(o, to) ==
  IF to = "ask" THEN [o EXCEPT !.pc = "write", !.version = row.version, !.to = to]
  ELSE [o EXCEPT !.pc = "reread", !.to = to]

\* drive: the row is read, and a batch of the implementation is run.
Implement ==
  /\ orch.pc = "ready" /\ row.stage = IMPLEMENTATION /\ Drives
  /\ \E to \in {VERIFICATION, "ask"} : orch' = Outcome(orch, to)
  /\ UNCHANGED <<registry, pipeline, failures, cell, warning, clock, board>>

\* What the layers of a runner may report, and whether rightly.
Outcomes ==
  [runner \in Runners |->
     {[layers |-> LayerResults(runner, c), sound |-> ToolsRan(c) => Clean(runner, c)] :
        c \in Changes}]

\* What a report tells its caller.
Verdict(report) ==
  IF report.eligible THEN "eligible" ELSE IF report.escalated THEN "escalated" ELSE "retry"

\* drive at the verification stage: VerificationRunner.run; a failure loops
\* back or asks, and an escalation is only a word in the summary.
Verify(o) ==
  LET report == SubmitAttempt(pipeline, o.layers) IN
  /\ orch.pc = "ready" /\ row.stage = VERIFICATION /\ Drives
  /\ pipeline' = report.pipeline
  /\ failures' = IF report.eligible THEN failures ELSE failures + 1
  /\ \E to \in IF report.eligible THEN {CHANGE_REVIEW_GATE} ELSE {IMPLEMENTATION, "ask"} :
       orch' = Outcome([orch EXCEPT !.verdict = Verdict(report), !.sound = o.sound], to)
  /\ UNCHANGED <<registry, cell, warning, clock, board>>

\* drive: run = self._get_run(run.id), after the step
Reread ==
  /\ orch.pc = "reread"
  /\ orch' = [orch EXCEPT !.pc = "write", !.version = row.version]
  /\ UNCHANGED <<registry, pipeline, failures, cell, warning, clock, board>>

\* _transition, _write_checkpoint_pointer: a refusal raises OrchestratorError.
Write ==
  /\ orch.pc = "write" /\ row.version < MaxRowVersion
  /\ IF ~Fits(orch.version) THEN UNCHANGED registry
     ELSE IF orch.to = "ask" THEN WritePointer("pending") ELSE WriteStage(orch.to)
  /\ orch' = Ready(orch.runner)
  /\ UNCHANGED <<pipeline, failures, cell, warning, clock, board>>

\* resolve_checkpoint, on behalf of a person
AnswerQuestion ==
  /\ row.pointer.kind = "pending" /\ row.version < MaxRowVersion
  /\ WritePointer("resolved")
  /\ UNCHANGED <<process, cell, warning, clock, board>>

\* decide_change_review: changes are requested
RequestChanges ==
  /\ row.stage = CHANGE_REVIEW_GATE /\ row.version < MaxRowVersion
  /\ WriteStage(IMPLEMENTATION)
  /\ UNCHANGED <<process, cell, warning, clock, board>>

(***************************************************************************)
(* The interruption watcher.                                               *)
(***************************************************************************)

\* The cloud's warning; its handler is given the version of the row.
Warn(n) ==
  /\ node.st = "serving" /\ watcher.pc = "idle"
  /\ node' = [node EXCEPT !.st = "warned", !.polls = 0, !.inFlight = n]
  /\ watcher' = [Calm EXCEPT !.pc = "cordon", !.version = row.version]
  /\ clock' = 0 /\ sink' = <<>>
  /\ UNCHANGED <<registry, process, requested, lost, board>>

\* Steps 1 and 2: cordon, stop_accepting_inference.
CordonOrStop ==
  /\ watcher.pc \in {"cordon", "stop"}
  /\ watcher' = [watcher EXCEPT !.pc = IF watcher.pc = "cordon" THEN "stop" ELSE "drain"]
  /\ UNCHANGED <<registry, process, cell, lost, sink, clock, board>>

\* Variant: what has passed of the window is forgotten.
RemainingBeforeDrainWhole == WarningWindow
\* handle_interruption: max(0, window - elapsed)
RemainingBeforeDrain == IF clock > WarningWindow THEN 0 ELSE WarningWindow - clock

\* Step 3, drain (provisioning_client.py): it ends with the last request, or
\* with the budget, and then the rest fails back to the caller's retries.
StartDrain ==
  LET inFlight == node.inFlight
      budget == RemainingBeforeDrain
  IN  /\ watcher.pc = "drain"
      /\ watcher' = [watcher EXCEPT !.pc = "draining", !.began = clock,
                       !.until = clock + IF inFlight <= budget THEN inFlight ELSE budget]
      /\ UNCHANGED <<registry, process, cell, lost, sink, clock, board>>

EndDrain ==
  /\ watcher.pc = "draining" /\ clock = watcher.until
  /\ watcher' = [watcher EXCEPT !.pc = "flush"]
  /\ node' = [node EXCEPT !.inFlight = 0]
  /\ UNCHANGED <<registry, process, requested, lost, sink, clock, board>>

\* Step 4: the flush, and its event.
FlushObservability(ok) ==
  /\ watcher.pc = "flush"
  /\ watcher' = [watcher EXCEPT !.pc = "checkpoint", !.flushed = ok]
  /\ sink' = Append(sink, "observability_flush")
  /\ UNCHANGED <<registry, process, cell, lost, clock, board>>

\* Step 5: write_checkpoint with the version of the warning, then its event
\* and the result.
WriteCheckpoint ==
  /\ watcher.pc = "checkpoint" /\ row.version < MaxRowVersion
  /\ IF Fits(watcher.version)
     THEN /\ WritePointer("interrupt")
          /\ lost' = IF row.pointer.kind = "pending"
                     THEN lost \cup {<<row.pointer.at, watcher.version>>} ELSE lost
     ELSE UNCHANGED <<registry, lost>>
  /\ watcher' = [watcher EXCEPT !.pc = "over", !.landed = Fits(watcher.version),
                   !.result = IF Fits(watcher.version) /\ watcher.flushed
                              THEN "succeeded" ELSE "failed"]
  /\ sink' = Append(sink, "checkpoint_write")
  /\ UNCHANGED <<process, cell, clock, board>>

\* A step of the client raises: the rest of the sequence is skipped.
StepRaises ==
  /\ watcher.pc \in {"cordon", "stop", "drain", "flush"}
  /\ watcher' = [watcher EXCEPT !.pc = "over", !.result = "raised"]
  /\ UNCHANGED <<registry, process, cell, lost, sink, clock, board>>

\* Time passes; a drain that sleeps wakes when its time has come.
PassTime ==
  /\ node.st = "warned" /\ clock <= WarningWindow
  /\ ~(watcher.pc = "draining" /\ clock = watcher.until)
  /\ clock' = clock + 1
  /\ UNCHANGED <<registry, process, cell, warning, board>>

\* The node goes at the end of the window, with all that runs on it.
Reclaim ==
  /\ node.st = "warned" /\ clock >= WarningWindow
  /\ node' = NoNode
  /\ orch' = Down /\ pipeline' = NewPipeline /\ failures' = 0
  /\ watcher' = Calm
  /\ clock' = 0 /\ sink' = <<>>
  /\ UNCHANGED <<registry, requested, lost, board>>

(***************************************************************************)
(* The fleet dashboard.                                                    *)
(***************************************************************************)

\* resolve_scope: which tenants a request may be answered about.
ResolveScope(authorized, asked, scopeAll) ==
  IF asked # "none" THEN authorized \cap {asked}
  ELSE IF scopeAll \/ Cardinality(authorized) <= 1 THEN authorized
  ELSE {}  \* TenantScopeError

\* The scopes of the requests that callers may make.
Scopes ==
  {ResolveScope(authorized, asked, scopeAll) :
     authorized \in SUBSET BoardTenants, asked \in BoardTenants \cup {"none"},
     scopeAll \in BOOLEAN}

\* DashboardService.poll, _fetch_all_runs: the thread of a request has read
\* the rows of a tenant.
FetchRuns(p, scope) ==
  /\ fetched[p] = NoRead /\ RunTenant \in scope
  /\ fetched' = [fetched EXCEPT ![p] = row]
  /\ UNCHANGED <<registry, process, cell, warning, clock, seenBy>>

\* Variant: the badge stays.
BouncedForever(o, read) ==
  o.badge = "bounced" \/ (o.stage = VERIFICATION /\ read.stage = IMPLEMENTATION)
\* observe: set by the way back to implementation, cleared by leaving it.
Bounced(o, read) ==
  IF read.stage = o.stage THEN o.badge = "bounced"
  ELSE read.stage = IMPLEMENTATION /\ (o.badge = "bounced" \/ o.stage = VERIFICATION)

IsNew(pointer, o) == pointer.kind # "none" /\ pointer # o.pointer

\* PollHistory.observe, under its lock: what the thread has read, which may
\* be older than what is recorded.
Observe(p) ==
  LET read == fetched[p]
      first == seenBy.version = 0
  IN  /\ read # NoRead /\ seenBy.count <= MaxCount
      /\ fetched' = [fetched EXCEPT ![p] = NoRead]
      /\ seenBy' =
           [version |-> read.version, stage |-> read.stage, pointer |-> read.pointer,
            count |-> IF IsNew(read.pointer, seenBy) THEN seenBy.count + 1 ELSE seenBy.count,
            badge |-> IF ~first /\ Bounced(seenBy, read) THEN "bounced" ELSE "none",
            since |-> IF first THEN read.version ELSE seenBy.since,
            order |-> IF read.version < seenBy.version THEN "overtaken" ELSE seenBy.order]
      /\ UNCHANGED <<registry, process, cell, warning, clock>>

\* The dashboard is restarted: its threads and PollHistory are gone.
Forget ==
  /\ seenBy # Unseen
  /\ fetched' = [p \in Pollers |-> NoRead] /\ seenBy' = Unseen
  /\ UNCHANGED <<registry, process, cell, warning, clock>>

CellNext ==
  \/ RequestNode \/ \E healthy \in BOOLEAN : PollHealth(healthy)
  \/ Implement \/ (orch.pc # "down" /\ \E o \in Outcomes[orch.runner] : Verify(o))
  \/ Reread \/ Write \/ AnswerQuestion \/ RequestChanges
  \/ \E n \in InFlight : Warn(n)
  \/ CordonOrStop \/ StartDrain \/ EndDrain
  \/ \E ok \in BOOLEAN : FlushObservability(ok)
  \/ WriteCheckpoint \/ StepRaises \/ PassTime \/ Reclaim
  \/ \E p \in Pollers : (\E scope \in Scopes : FetchRuns(p, scope)) \/ Observe(p)
  \/ Forget

CellSpec == CellInit /\ [][CellNext]_cellVars

(***************************************************************************)
(* Properties.                                                             *)
(***************************************************************************)
CellTypeOK ==
  /\ row.version \in 1..MaxRowVersion
  /\ row.stage \in {IMPLEMENTATION, VERIFICATION, CHANGE_REVIEW_GATE}
  /\ orch.pc \in {"down", "ready", "reread", "write"} /\ pipeline.used \in 0..4
  /\ node.st \in {"none", "booting", "serving", "warned"} /\ requested \in 0..MaxNodes
  /\ watcher.pc \in {"idle", "cordon", "stop", "drain", "draining", "flush", "checkpoint", "over"}

\* A question that the orchestrator asks while the watcher runs is never
\* replaced by the watcher's checkpoint: the checkpoint carries the version
\* of the warning and is refused (interruption_watcher.py:199-204); and a
\* sequence that ends has sent the event of its flush before that of its
\* checkpoint.
QuestionsOutliveRaces ==
  /\ CellTypeOK
  /\ \A q \in lost : q[1] <= q[2]
  /\ (watcher.pc = "over" /\ watcher.result # "raised") =>
       sink = <<"observability_flush", "checkpoint_write">>

\* The drain ends inside the warning window whatever the first steps took,
\* so that the flush and the checkpoint can begin (interruption_watcher.py:
\* 161-165), unless those steps alone have used it up.
DrainFitsWindow ==
  watcher.pc \in {"draining", "flush", "checkpoint"} =>
    watcher.until <= (IF watcher.began > WarningWindow THEN watcher.began ELSE WarningWindow)

\* A change that is reported eligible has no failing test in its scope but
\* the ones known to its runner and nothing that a layer of that runner
\* should have found, as long as the tools ran, and none is eligible with a
\* layer left out (existing_tests.py:88-127, report.py:21-44); of the failed
\* attempts that a process submits for the run, as many as the budget has
\* retries are sent back as retries, and every later one is escalated, also
\* when the drive loop has sent an escalated one back (pipeline.py:45-58).
VerdictsAreSound ==
  /\ orch.verdict = "eligible" => orch.sound /\ orch.runner # "bare"
  /\ orch.verdict = "retry" => failures <= MaxAttempts
  /\ orch.verdict = "escalated" => failures > MaxAttempts
  /\ pipeline.used <= pipeline.attempts /\ pipeline.used <= MaxAttempts

\* The board shows the badge only on a run that it shows in development; and
\* unless one request's read has overtaken another's (dashboard_service.py:
\* 152-165), only on a run that did come back while it was watched, from a
\* failed verification or from a change review that the polls cannot tell
\* from it, and it counts no checkpoint that was not written
\* (poll_state.py:101-134).
BoardIsTrue ==
  /\ seenBy.badge = "bounced" => seenBy.stage = IMPLEMENTATION
  /\ seenBy.order = "kept" =>
       /\ seenBy.badge = "bounced" =>
            returned.failed > seenBy.since \/ returned.review > seenBy.since
       /\ seenBy.count <= row.pointer.nth
=============================================================================
