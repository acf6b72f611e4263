---------------------------- MODULE Orchestrator ----------------------------
(***************************************************************************)
(* The drive loop of one Run (services/orchestrator/.../core.py).          *)
(*                                                                         *)
(* Durable state: the Run's registry row, the plan store and the progress  *)
(* store.  A driver is a process that runs one entry point of Orchestrator *)
(* (resume_run, approve_plan, approve_change_review, resolve_checkpoint)   *)
(* to its end; every durable write is a step of its own, so a driver may   *)
(* crash between any two of them (an exception that leaves _drive, for     *)
(* instance from author_plan or the verification runner, has the same      *)
(* effect).  The registry's conditional writes are RunRegistry's: here one *)
(* step that compares the version.  The two stores are plain files, read   *)
(* and written without any check.                                          *)
(*                                                                         *)
(* The model and the verification pipeline are external: they return any   *)
(* diff, any verdict, or raise.                                            *)
(***************************************************************************)
EXTENDS RunStages, Checkpoints

CONSTANTS
  Drivers,        \* processes that may drive the run
  Subtasks,       \* the plan's subtasks, in plan order
  DependsOn,      \* subtask -> the subtasks it depends on
  RawGroup,       \* subtask -> the parallel_group the model gave it, or NoGroup
  Contracted,     \* the subtasks with an interface_contract
  NoGroup,
  Files,          \* files a diff may touch
  DeclaredScope,  \* the scope the plan declares
  DiffLines,      \* numbers of lines a diff may change
  Budget,         \* the resolved budget of the plan
  MaxCrashes,     \* bound: crashes
  MaxAnswers      \* bound: human decisions

SubtaskIds == {Subtasks[i] : i \in DOMAIN Subtasks}

ASSUME OrchestratorAssumption ==
  /\ Subtasks \in Seq(SubtaskIds)
  /\ Contracted \subseteq SubtaskIds
  /\ IsFiniteSet(Files) /\ DeclaredScope \subseteq Files
  /\ DiffLines \subseteq Nat
  /\ MaxCrashes \in Nat /\ MaxAnswers \in Nat

\* One driver at a time: the process-wide lock of the run's worker.
OneDriver == \E d \in Drivers : Drivers = {d}

\* Every dependency is a subtask of the plan and there is no cycle: some of any
\* set of unfinished subtasks depend on finished ones only.  Nothing in the code
\* rejects another plan.
PlanIsSound ==
  \A S \in SUBSET SubtaskIds :
    S # {} => \E st \in S : DependsOn[st] \subseteq SubtaskIds \ S

\* checkpoint_pointer: an Elicitation, or none yet.
NoElicitation ==
  [trigger |-> Trigger("none", 0, 0, {}, 0), stage |-> INTAKE,
   status |-> "none", decision |-> "none"]

\* RunProgress; status "none" stands for a missing file.
NoProgress ==
  [status |-> "none", done |-> {}, files |-> {}, lines |-> 0, fails |-> 0,
   acked |-> {}, failure |-> "none"]

NewProgress == [NoProgress EXCEPT !.status = "saved"]

NoPlan == [version |-> 0, scope |-> {}]

VARIABLES
  run,       \* the registry row: stage, version, checkpoint pointer, attempt
  plan,      \* the latest plan artifact
  progress,  \* the progress file
  late,      \* wall-clock budget: "no", "warn" (80% used up), "over"
  drv,       \* per driver: where it is and what it holds in memory
  crashes,   \* crashes so far
  answers,   \* human decisions so far
  seen       \* what happened, for the properties only (see below)

vars == <<run, plan, progress, late, drv, crashes, answers, seen>>

\* A driver's memory: the row it last read, the plan scope and the progress it
\* works on, the trigger it is about to present, the outcome of a step, the
\* stage it is about to enter and where it goes on from there, the human
\* decision it serves.
Idle ==
  [pc |-> "idle", run |-> [stage |-> INTAKE, version |-> 0,
                           ptr |-> NoElicitation, attempt |-> 0],
   scope |-> {}, prog |-> NoProgress, trigger |-> NoElicitation.trigger,
   outcome |-> "none", target |-> INTAKE, then |-> "idle",
   decision |-> "none"]

\* The diff accumulated so far.
Diff(p) == [files |-> p.files, lines |-> p.lines, done |-> p.done]

Init ==
  /\ run = [stage |-> INTAKE, version |-> 1, ptr |-> NoElicitation, attempt |-> 1]
  /\ plan = NoPlan
  /\ progress = NoProgress
  /\ late = "no"
  /\ drv = [d \in Drivers |-> Idle]
  /\ crashes = 0
  /\ answers = 0
  /\ seen = [approvedPlan |-> 0, verified |-> Diff(NoProgress),
             reviewed |-> Diff(NoProgress), decision |-> "none"]

-----------------------------------------------------------------------------
(* Helpers of core.py and plan_artifact.py.                                *)

TriggerKinds == {"size", "risk", "time_cost", "stuck"}

pending_checkpoint(r) == r.ptr.status = "pending"

\* _demote_ungoverned_parallel_groups: a group of two or more runs in
\* parallel only if every member has a contract.
parallel_group(st) ==
  LET members == {u \in SubtaskIds : RawGroup[u] = RawGroup[st]}
  IN  IF Cardinality(members) >= 2 /\ ~(members \subseteq Contracted)
        THEN NoGroup ELSE RawGroup[st]

ready(st, done) == st \notin done /\ DependsOn[st] \subseteq done

First(places) == CHOOSE i \in places : \A j \in places : i <= j

\* The first ready subtask in plan order, as a sequence of length at most 1.
next_subtask(done) ==
  LET places == {i \in DOMAIN Subtasks : ready(Subtasks[i], done)}
  IN  IF places = {} THEN <<>> ELSE <<Subtasks[First(places)]>>

ready_subtask_batch(first, done) ==
  IF parallel_group(first) = NoGroup THEN {first}
  ELSE {st \in SubtaskIds : /\ ready(st, done)
                            /\ parallel_group(st) = parallel_group(first)}

\* The triggers of progress p under a declared scope.
triggers(p, scope) ==
  evaluate_checkpoints(p.files, p.lines, scope, Budget, late, p.fails)

\* The first unacknowledged one of some kinds, as a sequence of length at most 1.
first_trigger(p, scope, kinds) ==
  LET ts     == triggers(p, scope)
      places == {i \in Unacknowledged(ts, p.acked) : ts[i].kind \in kinds}
  IN  IF places = {} THEN <<>> ELSE <<ts[First(places)]>>

any_trigger(p, scope) == first_trigger(p, scope, TriggerKinds)

stuck_trigger(p, scope) == first_trigger(p, scope, {"stuck"})

\* Driver d continues at pc with row r in memory and nothing else.
at(d, pc, r) == [drv EXCEPT ![d] = [Idle EXCEPT !.pc = pc, !.run = r]]

finished(d) == drv' = [drv EXCEPT ![d] = Idle]

\* Driver d is about to enter stage s and to go on at pc `then`.
moving(d, r, s, then) ==
  [drv EXCEPT ![d] = [Idle EXCEPT !.pc = "move", !.run = r, !.target = s,
                                  !.then = then]]

-----------------------------------------------------------------------------
(* The registry's conditional writes, as the drivers use them.             *)

\* transition_stage on the row the driver holds; a refused one raises
\* OrchestratorError, which ends the driver.
Move(d) ==
  LET me == drv[d]
      row == [run EXCEPT !.stage = me.target, !.version = @ + 1]
  IN  /\ me.pc = "move"
      /\ IF run.version = me.run.version /\ is_legal_transition(run.stage, me.target)
           THEN /\ run' = row
                /\ IF me.then = "idle" THEN finished(d)
                                       ELSE drv' = at(d, me.then, row)
           ELSE finished(d) /\ UNCHANGED run
      /\ UNCHANGED <<plan, progress, late, crashes, answers, seen>>

\* write_checkpoint with the Elicitation of the trigger at hand.
Ask(d) ==
  LET me == drv[d]
      row == [run EXCEPT
                !.ptr = [trigger |-> me.trigger, stage |-> me.run.stage,
                         status |-> "pending", decision |-> "none"],
                !.version = @ + 1]
  IN  /\ me.pc = "ask"
      /\ IF run.version = me.run.version
           THEN /\ run' = row
                /\ drv' = [at(d, "reload", row) EXCEPT ![d].outcome = "paused"]
           ELSE finished(d) /\ UNCHANGED run
      /\ UNCHANGED <<plan, progress, late, crashes, answers, seen>>

-----------------------------------------------------------------------------
(* Entry points.  A human decision reaches whichever driver picks it up;   *)
(* start_run is create_run (the initial state) followed by resume_run.     *)

ResumeRun(d) ==
  /\ drv[d].pc = "idle"
  /\ drv' = at(d, "drive", run)
  /\ UNCHANGED <<run, plan, progress, late, crashes, answers, seen>>

answering ==
  /\ answers < MaxAnswers
  /\ answers' = answers + 1

ApprovePlan(d, decision) ==
  /\ drv[d].pc = "idle"
  /\ run.stage = PLAN_APPROVAL_GATE
  /\ answering
  /\ CASE decision = "approve" ->
            /\ drv' = moving(d, run, IMPLEMENTATION, "fresh")
            /\ seen' = [seen EXCEPT !.approvedPlan = plan.version]
       [] decision = "request_changes" ->
            drv' = at(d, "new_attempt", run) /\ UNCHANGED seen
       [] decision = "reject" ->
            drv' = moving(d, run, ABANDONED, "idle") /\ UNCHANGED seen
  /\ UNCHANGED <<run, plan, progress, late, crashes>>

\* approve: progress_store.start_new, then _drive reads the run again.
StartProgress(d) ==
  /\ drv[d].pc = "fresh"
  /\ progress' = NewProgress
  /\ late' = "no"
  /\ drv' = at(d, "drive", run)
  /\ UNCHANGED <<run, plan, crashes, answers, seen>>

\* request_changes: append_attempt at plan_authoring, then the run is re-read.
AppendAttempt(d) ==
  LET row == [run EXCEPT !.stage = PLAN_AUTHORING, !.version = @ + 1,
                         !.attempt = @ + 1]
  IN  /\ drv[d].pc = "new_attempt"
      /\ IF run.version = drv[d].run.version
              /\ is_legal_transition(run.stage, PLAN_AUTHORING)
           THEN run' = row /\ drv' = at(d, "replan", row)
           ELSE finished(d) /\ UNCHANGED run
      /\ UNCHANGED <<plan, progress, late, crashes, answers, seen>>

\* The agent writes a plan; it becomes the latest version.
store_plan(d) ==
  /\ plan' = [version |-> plan.version + 1, scope |-> DeclaredScope]
  /\ drv' = moving(d, drv[d].run, PLAN_APPROVAL_GATE, "idle")
  /\ UNCHANGED <<run, progress, late, crashes, answers, seen>>

RePlan(d) == drv[d].pc = "replan" /\ store_plan(d)

ApproveChangeReview(d, decision) ==
  /\ drv[d].pc = "idle"
  /\ run.stage = CHANGE_REVIEW_GATE
  /\ answering
  /\ CASE decision = "approve" ->
            /\ drv' = moving(d, run, PACKAGING, "drive")
            /\ seen' = [seen EXCEPT !.reviewed = Diff(progress)]
       [] decision = "request_changes" ->
            drv' = moving(d, run, IMPLEMENTATION, "drive") /\ UNCHANGED seen
       [] decision = "reject" ->
            drv' = moving(d, run, ABANDONED, "idle") /\ UNCHANGED seen
  /\ UNCHANGED <<run, plan, progress, late, crashes>>

\* resolve_checkpoint reads the run, then writes the resolved Elicitation.
ResolveCheckpoint(d, decision) ==
  /\ drv[d].pc = "idle"
  /\ pending_checkpoint(run)
  /\ answering
  /\ drv' = [at(d, "resolve", run) EXCEPT ![d].decision = decision]
  /\ seen' = [seen EXCEPT !.decision = decision]
  /\ UNCHANGED <<run, plan, progress, late, crashes>>

Resolve(d) ==
  LET me == drv[d]
      row == [run EXCEPT !.ptr = [me.run.ptr EXCEPT !.status = "resolved",
                                                    !.decision = me.decision],
                         !.version = @ + 1]
  IN  /\ me.pc = "resolve"
      /\ IF run.version # me.run.version
           THEN finished(d) /\ UNCHANGED run
           ELSE /\ run' = row
                /\ IF me.decision = "stop"
                     THEN drv' = moving(d, row, ABANDONED, "idle")
                     ELSE drv' = [at(d, "ack", row) EXCEPT
                                    ![d].decision = me.decision]
      /\ UNCHANGED <<plan, progress, late, crashes, answers, seen>>

\* The signature is recorded as acknowledged, if there is a progress file.
Acknowledge(d) ==
  LET me == drv[d]
      widen == me.decision = "extend_scope" /\ me.run.ptr.trigger.kind = "risk"
  IN  /\ me.pc = "ack"
      /\ IF progress.status = "none" THEN UNCHANGED progress
         ELSE progress' = [progress EXCEPT !.acked = @ \cup {me.run.ptr.trigger}]
      /\ drv' = at(d, IF widen THEN "widen" ELSE "drive",
                   IF widen THEN me.run ELSE run)
      /\ UNCHANGED <<run, plan, late, crashes, answers, seen>>

ExtendDeclaredScope(d) ==
  LET me == drv[d]
  IN  /\ me.pc = "widen"
      /\ plan' = [version |-> plan.version + 1,
                  scope |-> plan.scope \cup me.run.ptr.trigger.out]
      /\ drv' = at(d, "drive", run)
      /\ seen' = [seen EXCEPT !.approvedPlan = IF @ = plan.version THEN @ + 1 ELSE @]
      /\ UNCHANGED <<run, progress, late, crashes, answers>>

-----------------------------------------------------------------------------
(* _drive: one iteration per stage, on the row in memory.                  *)

\* Mutant: the loop does not look at the pending question.
driving_while_pending(d, stage) ==
  /\ drv[d].pc = "drive"
  /\ drv[d].run.stage = stage

driving(d, stage) ==
  /\ drv[d].pc = "drive"
  /\ ~pending_checkpoint(drv[d].run)
  /\ drv[d].run.stage = stage

\* Mutant: a resumed run does not wait for its change review.
DriveReturns_skips_review(d) ==
  /\ driving(d, CHANGE_REVIEW_GATE)
  /\ drv' = moving(d, drv[d].run, PACKAGING, "drive")
  /\ UNCHANGED <<run, plan, progress, late, crashes, answers, seen>>

\* A pending question, a gate or a terminal stage ends the loop.
DriveReturns(d) ==
  /\ \/ drv[d].pc = "drive" /\ pending_checkpoint(drv[d].run)
     \/ \E s \in {PLAN_APPROVAL_GATE, CHANGE_REVIEW_GATE} \cup TERMINAL_STAGES :
          driving(d, s)
  /\ finished(d)
  /\ UNCHANGED <<run, plan, progress, late, crashes, answers, seen>>

\* The stages with no durable effect but the transition.  What research_fn
\* and packaging_fn do is outside this model.
DriveOn(d) ==
  /\ \/ driving(d, INTAKE) /\ drv' = moving(d, drv[d].run, RESEARCH, "drive")
     \/ driving(d, RESEARCH) /\ drv' = moving(d, drv[d].run, PLAN_AUTHORING, "drive")
     \/ driving(d, PACKAGING) /\ drv' = moving(d, drv[d].run, RETROSPECTIVE, "drive")
     \/ driving(d, RETROSPECTIVE) /\ drv' = moving(d, drv[d].run, COMPLETED, "idle")
  /\ UNCHANGED <<run, plan, progress, late, crashes, answers, seen>>

AuthorPlan(d) == driving(d, PLAN_AUTHORING) /\ store_plan(d)

-----------------------------------------------------------------------------
(* _implementation_step.                                                   *)

\* No progress file yet: the approval crashed before it wrote one.
InitProgress(d) ==
  /\ driving(d, IMPLEMENTATION)
  /\ progress.status = "none"
  /\ progress' = NewProgress
  /\ UNCHANGED <<run, plan, late, drv, crashes, answers, seen>>

implementing(d) ==
  /\ driving(d, IMPLEMENTATION)
  /\ plan.version > 0
  /\ progress.status = "saved"

\* Driver d holds progress p, to be saved at pc; the step then has `outcome`.
holding(d, pc, p, outcome) ==
  [drv EXCEPT ![d].pc = pc, ![d].prog = p, ![d].scope = plan.scope,
              ![d].outcome = outcome]

\* implement_subtask(s_parallel): the batch comes back with a diff.
ImplementBatch(d, files, lines) ==
  LET next == next_subtask(progress.done)
      p    == [progress EXCEPT
                 !.done = @ \cup ready_subtask_batch(Head(next), progress.done),
                 !.files = @ \cup files, !.lines = @ + lines, !.fails = 0]
  IN  /\ implementing(d)
      /\ next # <<>>
      /\ drv' = holding(d, "save_batch", p,
                        IF next_subtask(p.done) = <<>> THEN "verify" ELSE "continue")
      /\ UNCHANGED <<run, plan, progress, late, crashes, answers, seen>>

\* Nothing left to implement, but the last verification failed: a fix-up.
ImplementFixup(d, files, lines) ==
  /\ implementing(d)
  /\ next_subtask(progress.done) = <<>>
  /\ progress.failure # "none"
  /\ drv' = holding(d, "save",
                    [progress EXCEPT !.files = @ \cup files, !.lines = @ + lines,
                                     !.failure = "none"],
                    "verify")
  /\ UNCHANGED <<run, plan, progress, late, crashes, answers, seen>>

NothingToImplement(d) ==
  /\ implementing(d)
  /\ next_subtask(progress.done) = <<>>
  /\ progress.failure = "none"
  /\ drv' = [drv EXCEPT ![d].pc = "reload", ![d].outcome = "verify"]
  /\ UNCHANGED <<run, plan, progress, late, crashes, answers, seen>>

\* Mutant: the failure is not counted.
ImplementRaises_uncounted(d) ==
  /\ implementing(d)
  /\ next_subtask(progress.done) # <<>> \/ progress.failure # "none"
  /\ drv' = holding(d, "save_failure", progress, "continue")
  /\ UNCHANGED <<run, plan, progress, late, crashes, answers, seen>>

\* The agent raises, on a batch or on a fix-up: _handle_implementation_failure.
ImplementRaises(d) ==
  /\ implementing(d)
  /\ next_subtask(progress.done) # <<>> \/ progress.failure # "none"
  /\ drv' = holding(d, "save_failure", [progress EXCEPT !.fails = @ + 1], "continue")
  /\ UNCHANGED <<run, plan, progress, late, crashes, answers, seen>>

\* The progress is saved; the triggers at hand decide whether to ask.
saving(d, ts) ==
  LET me == drv[d]
  IN  /\ progress' = me.prog
      /\ drv' = IF ts = <<>>
                  THEN [drv EXCEPT ![d].pc = "reload"]
                  ELSE [drv EXCEPT ![d].pc = "ask", ![d].trigger = Head(ts)]
      /\ UNCHANGED <<run, plan, late, crashes, answers, seen>>

SaveBatch(d) ==
  drv[d].pc = "save_batch" /\ saving(d, any_trigger(drv[d].prog, drv[d].scope))

SaveFailure(d) ==
  drv[d].pc = "save_failure" /\ saving(d, stuck_trigger(drv[d].prog, drv[d].scope))

\* A fix-up and a passed verification evaluate no triggers.
Save(d) == drv[d].pc = "save" /\ saving(d, <<>>)

-----------------------------------------------------------------------------
(* _verification_step, and what _drive does with the outcome of a step.    *)

Verify(d, passed) ==
  LET p == IF progress.status = "none" THEN NewProgress ELSE progress
  IN  /\ driving(d, VERIFICATION)
      /\ IF passed
           THEN /\ drv' = holding(d, "save", [p EXCEPT !.fails = 0, !.failure = "none"],
                                  "passed")
                /\ seen' = [seen EXCEPT !.verified = Diff(progress)]
           ELSE /\ drv' = holding(d, "save_failure",
                                  [p EXCEPT !.fails = @ + 1, !.failure = "failed"],
                                  "retry")
                /\ UNCHANGED seen
      /\ UNCHANGED <<run, plan, progress, late, crashes, answers>>

\* Mutant: a failed verification goes to review as a passed one does.
Reload_ignores_verdict(d) ==
  LET outcome == drv[d].outcome
  IN  /\ drv[d].pc = "reload"
      /\ drv' = CASE outcome \in {"passed", "retry"} ->
                       moving(d, run, CHANGE_REVIEW_GATE, "idle")
                  [] outcome = "verify" -> moving(d, run, VERIFICATION, "drive")
                  [] OTHER -> at(d, "drive", run)
      /\ UNCHANGED <<run, plan, progress, late, crashes, answers, seen>>

\* The run is read again before its stage changes.
Reload(d) ==
  LET outcome == drv[d].outcome
  IN  /\ drv[d].pc = "reload"
      /\ drv' = CASE outcome = "passed" -> moving(d, run, CHANGE_REVIEW_GATE, "idle")
                  [] outcome = "retry"  -> moving(d, run, IMPLEMENTATION, "drive")
                  [] outcome = "verify" /\ run.stage # VERIFICATION ->
                       moving(d, run, VERIFICATION, "drive")
                  [] OTHER -> at(d, "drive", run)
      /\ UNCHANGED <<run, plan, progress, late, crashes, answers, seen>>

-----------------------------------------------------------------------------
(* The environment.                                                        *)

\* The process dies, or an exception ends the entry point.
Crash(d) ==
  /\ drv[d].pc # "idle"
  /\ crashes < MaxCrashes
  /\ crashes' = crashes + 1
  /\ finished(d)
  /\ UNCHANGED <<run, plan, progress, late, answers, seen>>

\* 80%, then all of the wall-clock budget is used up, counted from the start of
\* the progress file.
Tick ==
  /\ progress.status = "saved"
  /\ late # "over"
  /\ late' = IF late = "no" THEN "warn" ELSE "over"
  /\ UNCHANGED <<run, plan, progress, drv, crashes, answers, seen>>

DriverStep(d) ==
  \/ Move(d) \/ Ask(d) \/ StartProgress(d) \/ AppendAttempt(d) \/ RePlan(d)
  \/ Resolve(d) \/ Acknowledge(d) \/ ExtendDeclaredScope(d)
  \/ DriveReturns(d) \/ DriveOn(d) \/ AuthorPlan(d) \/ InitProgress(d)
  \/ \E files \in SUBSET Files, lines \in DiffLines :
       ImplementBatch(d, files, lines) \/ ImplementFixup(d, files, lines)
  \/ NothingToImplement(d) \/ ImplementRaises(d)
  \/ SaveBatch(d) \/ SaveFailure(d) \/ Save(d)
  \/ \E passed \in BOOLEAN : Verify(d, passed)
  \/ Reload(d)

EntryPoint(d) ==
  \/ ResumeRun(d)
  \/ \E decision \in {"approve", "request_changes", "reject"} :
       ApprovePlan(d, decision) \/ ApproveChangeReview(d, decision)
  \/ \E decision \in {"continue", "extend_scope", "stop"} :
       ResolveCheckpoint(d, decision)

Next ==
  \/ \E d \in Drivers : DriverStep(d) \/ EntryPoint(d) \/ Crash(d)
  \/ Tick

Spec == Init /\ [][Next]_vars

\* A driver that has started and does not crash goes on: it is one thread of
\* one process, and the calls it makes return or raise.
FairSpec == Spec /\ \A d \in Drivers : WF_vars(DriverStep(d))

-----------------------------------------------------------------------------
(* Properties.                                                             *)

TriggerType ==
  [kind : TriggerKinds \cup {"none"}, lines : Nat,
   nfiles : Nat, out : SUBSET Files, fails : Nat]

ElicitationType ==
  [trigger : TriggerType, stage : ALL_STAGES,
   status : {"none", "pending", "resolved"},
   decision : {"none", "continue", "extend_scope", "stop"}]

RowType ==
  [stage : ALL_STAGES, version : Nat, ptr : ElicitationType, attempt : Nat]

DiffType == [files : SUBSET Files, lines : Nat, done : SUBSET SubtaskIds]

ProgressType ==
  [status : {"none", "saved"}, done : SUBSET SubtaskIds, files : SUBSET Files,
   lines : Nat, fails : Nat, acked : SUBSET TriggerType, failure : {"none", "failed"}]

PCs ==
  {"idle", "drive", "move", "ask", "fresh", "new_attempt", "replan", "resolve",
   "ack", "widen", "save_batch", "save_failure", "save", "reload"}

DriverType ==
  [pc : PCs, run : [stage : ALL_STAGES, version : Nat, ptr : ElicitationType,
                    attempt : Nat],
   scope : SUBSET Files, prog : ProgressType, trigger : TriggerType,
   outcome : {"none", "continue", "verify", "passed", "retry", "paused"},
   target : ALL_STAGES, then : PCs,
   decision : {"none", "continue", "extend_scope", "stop"}]

\* Every variable has its type (membership in a set of all sets of triggers
\* is spelled out, so that TLC does not enumerate it).
TypeOK ==
  /\ run \in RowType
  /\ plan \in [version : Nat, scope : SUBSET Files]
  /\ progress \in ProgressType
  /\ late \in {"no", "warn", "over"}
  /\ drv \in [Drivers -> DriverType]
  /\ crashes \in 0 .. MaxCrashes
  /\ answers \in 0 .. MaxAnswers
  /\ seen \in [approvedPlan : Nat, verified : DiffType, reviewed : DiffType,
               decision : {"none", "continue", "extend_scope", "stop"}]

PostApproval ==
  {IMPLEMENTATION, VERIFICATION, CHANGE_REVIEW_GATE, PACKAGING, RETROSPECTIVE,
   COMPLETED}

PostReview == {PACKAGING, RETROSPECTIVE, COMPLETED}

\* Code is written, checked and shipped under the plan version a human approved
\* (or that version with its scope widened by a human), never under a later one
\* an interrupted planning step left behind.
ApprovedPlanOnly ==
  run.stage \in PostApproval =>
    plan.version # 0 /\ seen.approvedPlan = plan.version

\* While a question is pending nothing is decided without the human: no stage
\* change, no further diff recorded.
PauseIsFirm ==
  [][pending_checkpoint(run) => run'.stage = run.stage /\ Diff(progress') = Diff(progress)]_vars

\* The change a human reviews is the change that passed verification, and the
\* change that is packaged is the one that was reviewed, whatever was retried or
\* restarted in between.
ReviewedDiffWasVerified ==
  /\ run.stage = CHANGE_REVIEW_GATE => seen.verified = Diff(progress)
  /\ run.stage \in PostReview =>
       seen.reviewed = Diff(progress) /\ seen.verified = Diff(progress)

\* A restart never loses recorded work or an answer already given.
ProgressNeverLost ==
  [][/\ progress.status = "saved" => progress'.status = "saved"
     /\ progress.done \subseteq progress'.done
     /\ progress.files \subseteq progress'.files
     /\ progress.lines <= progress'.lines
     /\ progress.acked \subseteq progress'.acked]_vars

\* No verdict is asked for, and no review held, before every subtask is done;
\* and no subtask is done before those it depends on.
SubtasksDoneInOrder ==
  /\ run.stage \in PostApproval \ {IMPLEMENTATION} => progress.done = SubtaskIds
  /\ \A st \in progress.done : DependsOn[st] \subseteq progress.done

\* Subtasks recorded in one step were run in parallel: they are in one group
\* and all have their interface contract.
ContractsBeforeParallelWrites ==
  [][LET batch == progress'.done \ progress.done
     IN  Cardinality(batch) > 1 =>
           /\ batch \subseteq Contracted
           /\ \A s, t \in batch : RawGroup[s] = RawGroup[t]]_vars

\* A run does not fail more often than the retry budget without asking: only
\* an answered "stuck" question, or a crash before the question is written,
\* makes room for one failure more.
FailuresBounded ==
  progress.fails <= DEFAULT_STUCK_RETRY_BUDGET + crashes
                    + Cardinality({t \in progress.acked : t.kind = "stuck"})

\* Every call of an entry point returns: at a gate, at a question, at the end
\* of the run, or with an error.
DriveTerminates == \A d \in Drivers : drv[d].pc # "idle" ~> drv[d].pc = "idle"

\* A run at rest that nobody has to answer is over, or was left by a crash
\* and is taken up by the next resume_run.
RestsOnlyForAHuman ==
  (/\ \A d \in Drivers : drv[d].pc = "idle"
   /\ crashes = 0
   /\ run.version > 1) =>
     \/ run.stage \in TERMINAL_STAGES \cup {PLAN_APPROVAL_GATE, CHANGE_REVIEW_GATE}
     \/ pending_checkpoint(run)

\* Nothing is implemented, verified, reviewed or packaged that was not planned,
\* approved and finished first (core.py), whatever crashes and retries do.
WorkIsSanctioned ==
  TypeOK /\ ApprovedPlanOnly /\ ReviewedDiffWasVerified /\ SubtasksDoneInOrder

\* The orchestrator asks in time and rests only for a human: failures stay
\* within the retry budget, and a run at rest has a gate or a question open.
AsksInTime == FailuresBounded /\ RestsOnlyForAHuman

\* What a step may never do: decide past a pending question, lose recorded
\* work or an answer, or run subtasks in parallel without their contracts.
StepsAreSafe == PauseIsFirm /\ ProgressNeverLost /\ ContractsBeforeParallelWrites

\* The decision driver d carries: where a gate or a stopped question sends the
\* run, or the answer it is about to record.
carries(d) ==
  CASE /\ drv[d].pc = "move"
       /\ \/ drv[d].run.stage \in {PLAN_APPROVAL_GATE, CHANGE_REVIEW_GATE}
          \/ drv[d].target = ABANDONED        -> {drv[d].target}
    [] drv[d].pc = "new_attempt"              -> {PLAN_AUTHORING}
    [] drv[d].pc = "resolve"                  -> {drv[d].decision}
    [] OTHER                                  -> {}

mandate == UNION {carries(d) : d \in Drivers}

Lifecycle ==
  INSTANCE RunLifecycle WITH stage <- run.stage, question <- run.ptr.status,
                             mandate <- mandate, decisions <- answers

\* The drive loop, its retries and its crashes implement RunLifecycle: out of
\* a gate and past a question only by one human decision for each.
ImplementsLifecycle == Lifecycle!Spec

-----------------------------------------------------------------------------
(* What the repository says of the program and the program does not do.    *)

\* resolve_checkpoint: "stop" abandons the run.  Once the answer is recorded,
\* the run is abandoned or stays where it is.
StopIsHonoured ==
  [][run.ptr.decision = "stop" =>
       /\ run'.stage \in {run.stage, ABANDONED}
       /\ Diff(progress') = Diff(progress)]_vars
=============================================================================
