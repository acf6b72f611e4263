------------------------------- MODULE ToolUse -------------------------------
(***************************************************************************)
(* The tool-using backend (tool_use_bedrock_backend.py) on git worktrees   *)
(* (worktree.py), driven by core.py's implementation step: a subtask is a  *)
(* loop of turns in which the model reads, writes and edits files until it *)
(* calls finish; a group of ready subtasks runs concurrently, each in a    *)
(* worktree of its own, and is merged into the run's worktree.             *)
(*                                                                         *)
(* An edit is the pair of the subtask that made it and the file; a tree    *)
(* has committed edits (head), uncommitted ones (dirty), and a merge that  *)
(* stopped on a conflict, or none.  The subtasks of a plan have distinct   *)
(* ids, so a batch is a set and the plan gives its order.  git and the     *)
(* model are external.                                                     *)
(***************************************************************************)
EXTENDS Naturals, Sequences, FiniteSets, SequencesExt

CONSTANTS
  Plan,           \* the subtasks, in the plan's order
  Group,          \* Group[t]: parallel_group, "none" if there is none
  DependsOn,      \* DependsOn[t]: the subtasks t waits for
  Reach,          \* Reach[t]: bound: the files the model names in subtask t
  StorySize,      \* run_context["story_size"], "none" if missing
  WallClockSeconds, \* WallClockSeconds[s]: DEFAULT_BUDGETS[s], 0 for XL
  SecondsPerTurn, \* _ASSUMED_SECONDS_PER_TURN
  FallbackTurns,  \* _FALLBACK_MAX_TURNS
  MaxBatches,     \* bound: dispatches of core.py
  MaxFaults       \* bound: kills of the worker process, and worktrees that git
                  \* refuses to create or to remove

\* What a plan and a deployment give; MCAgentServices assumes it.
ToolUseAssumption ==
  /\ Plan \in Seq(STRING) /\ IsInjective(Plan)
  /\ ToSet(Plan) \subseteq DOMAIN Group \cap DOMAIN DependsOn
  /\ SecondsPerTurn \in Nat \ {0} /\ FallbackTurns \in Nat \ {0}

VARIABLES
  trees,      \* the worktrees registered in the repository
  op,         \* the backend call core.py waits for
  worker,     \* worker[t]: the loop of subtask t
  done,       \* progress.completed_subtask_ids
  touched,    \* progress.files_touched
  batches,    \* dispatches so far
  faults,     \* such faults so far
  made,       \* made[t]: edits of t's latest attempt
  leaky,      \* a kill, or git refusing a worktree, has left worktrees behind
  cut         \* a kill, a conflict or a refused removal after the merges has
              \* left commits nobody reported

vars == <<trees, op, worker, done, touched, batches, faults, made, leaky, cut>>

Main == <<"main", 0>>
Tasks == ToSet(Plan) \cup {"fixup"}
FilesOf(edits) == {e[2] : e \in edits}
NoOp == [stage |-> "idle", batch |-> {}, todo |-> {}, before |-> {}, dirt |-> {},
         files |-> {}, then |-> "none"]
Rest == [pc |-> "rest", tree |-> Main, turn |-> 0, files |-> {}, base |-> {}]
Running == {t \in Tasks : worker[t].pc \notin {"rest", "ok", "failed", "uncreated"}}

(***************************************************************************)
(* Turn budgets.                                                           *)
(***************************************************************************)
AtLeastOne(n) == IF n < 1 THEN 1 ELSE n

\* _soft_turn_target_for_story_size: a third of the story's time.
SoftTurnTarget(size) ==
  IF size = "none" \/ size \notin DOMAIN WallClockSeconds THEN FallbackTurns
  ELSE IF WallClockSeconds[size] = 0 THEN FallbackTurns
  ELSE AtLeastOne((WallClockSeconds[size] \div 3) \div SecondsPerTurn)

\* _hard_turn_cap_for_story_size: three times the target.
HardTurnCap(size) == AtLeastOne(SoftTurnTarget(size) * 3)

(***************************************************************************)
(* The tools, on the worktree of the loop.                                 *)
(***************************************************************************)

\* What the model asks for: a tool, a file, and how its input fits: "good";
\* a path that escapes the worktree, a missing field; for edit_file also a
\* text that occurs more than once, or not; and a call the operating system
\* refuses, which is the one that is not reported back to the model.
ToolCalls(t) ==
  [name : {"read_file", "list_files", "write_file", "edit_file"}, file : Reach[t],
   input : {"good", "escapes", "missing_field", "not_found", "many", "os_error"}]

\* _safe_join refuses a path outside the worktree.
SafeJoin(c) == c.input # "escapes"

\* _execute_edit_file: the text must occur, once unless replace_all is given.
ExecuteEditFile(c, replaceAll) ==
  c.input = "good" \/ (c.input = "many" /\ replaceAll)

\* _execute_tool: the edits a call makes.
ExecuteTool(t, c, replaceAll) ==
  LET writes == /\ SafeJoin(c)
                /\ \/ c.name = "write_file" /\ c.input = "good"
                   \/ c.name = "edit_file" /\ ExecuteEditFile(c, replaceAll)
  IN IF writes THEN {<<t, c.file>>} ELSE {}

\* The edits a tool call of subtask t may make, none among them.
ToolEdits ==
  [t \in Tasks |-> {ExecuteTool(t, c, replaceAll) :
     c \in {d \in ToolCalls(t) : d.input # "os_error"}, replaceAll \in BOOLEAN}]

(***************************************************************************)
(* One loop: implement_subtask.                                            *)
(***************************************************************************)
SetWorker(t, w) == worker' = [worker EXCEPT ![t] = w]

\* Variant: the loop starts over instead of giving up.
NextTurnAgain(w) ==
  [w EXCEPT !.turn = IF @ + 1 < HardTurnCap(StorySize) THEN @ + 1 ELSE 0]
\* The next turn, or BedrockAgenticLoopExhaustedError.
NextTurn(w) ==
  IF w.turn + 1 < HardTurnCap(StorySize) THEN [w EXCEPT !.turn = @ + 1]
  ELSE [w EXCEPT !.pc = "failed", !.turn = 0]

Edited(tree, edits) == [tree EXCEPT !.dirty = @ \cup edits]

\* A turn: the model answers with text, or with a tool call and perhaps with
\* finish, which does not keep the other call of the turn from being made.
\* Without finish in the last turn the loop is exhausted.
Turn(t, edits, finish) ==
  LET w == worker[t] IN
  /\ w.pc = "turn"
  /\ trees' = [trees EXCEPT ![w.tree] = Edited(@, edits)]
  /\ made' = [made EXCEPT ![t] = @ \cup edits]
  /\ SetWorker(t,
       IF finish THEN [w EXCEPT !.pc = "commit", !.turn = 0] ELSE NextTurn(w))
  /\ UNCHANGED <<op, done, touched, batches, faults, leaky, cut>>

ModelTurn(t) ==
  \E edits \in ToolEdits[t], finish \in BOOLEAN : Turn(t, edits, finish)

\* The converse call raises, or a tool meets an operating system's error:
\* the edits made so far stay in the tree.
TurnRaises(t) ==
  /\ worker[t].pc = "turn"
  /\ SetWorker(t, [worker[t] EXCEPT !.pc = "failed", !.turn = 0])
  /\ UNCHANGED <<trees, op, done, touched, batches, faults, made, leaky, cut>>

\* Variant: the statistics are taken after the commit.
DiffStatsOfClean(tree) == {}
\* _real_git_diff_stats: the files that differ from the head.
DiffStats(tree) == FilesOf(tree.dirty)

\* _real_git_commit: everything is added and committed; it also concludes a
\* merge that stopped on a conflict.
Committed(tree) ==
  [tree EXCEPT !.head = @ \cup tree.dirty, !.dirty = {}, !.merging = "no",
               !.marked = tree.merging]

\* After finish: statistics, then the commit, which git may refuse.
FinishSubtask(t, refused) ==
  LET w == worker[t] IN
  /\ w.pc = "commit"
  /\ IF refused
       THEN /\ SetWorker(t, [w EXCEPT !.pc = "failed"])
            /\ UNCHANGED trees
       ELSE /\ SetWorker(t, [w EXCEPT !.pc = "ok", !.files = DiffStats(trees[w.tree])])
            /\ trees' = [trees EXCEPT ![w.tree] = Committed(@)]
  /\ UNCHANGED <<op, done, touched, batches, faults, made, leaky, cut>>

(***************************************************************************)
(* core.py: the next subtask, its group, and the record of the work.       *)
(***************************************************************************)
Before(t, u) == \E i \in DOMAIN Plan : Plan[i] = t /\ \A j \in 1..i : Plan[j] # u
Earliest(batch) == {t \in batch : \A u \in batch \ {t} : Before(t, u)}

ReadySubtasks == {t \in ToSet(Plan) : t \notin done /\ DependsOn[t] \subseteq done}

\* _ready_subtask_batch.
ReadySubtaskBatch(first) ==
  IF Group[first] = "none" THEN {first}
  ELSE {t \in ReadySubtasks : Group[t] = Group[first]}

\* _next_subtask and its batch; without one, the subtask that fixes what the
\* verification found.
NextBatches ==
  IF ReadySubtasks = {} THEN {{"fixup"}}
  ELSE {ReadySubtaskBatch(first) : first \in Earliest(ReadySubtasks)}

IsAlone(batch) == \E t \in batch : batch = {t}

Start(batch) ==
  LET pc == IF IsAlone(batch) THEN "turn" ELSE "create" IN
  /\ op' = [NoOp EXCEPT !.stage = IF IsAlone(batch) THEN "alone" ELSE "parallel",
                        !.batch = batch, !.todo = batch, !.before = trees[Main].head,
                        !.dirt = trees[Main].dirty]
  /\ worker' = [t \in Tasks |-> IF t \in batch THEN [Rest EXCEPT !.pc = pc] ELSE Rest]
  /\ made' = [t \in Tasks |-> IF t \in batch THEN {} ELSE made[t]]
  /\ batches' = batches + 1

ImplementationStep ==
  /\ op.stage = "idle" /\ batches < MaxBatches
  /\ \E batch \in NextBatches : Start(batch)
  /\ UNCHANGED <<trees, done, touched, faults, leaky, cut>>

\* The call of a lone subtask returns or raises.
ReturnAlone ==
  /\ op.stage = "alone"
  /\ \E t \in op.batch :
       /\ worker[t].pc \in {"ok", "failed"}
       /\ op' = [op EXCEPT !.stage = IF worker[t].pc = "ok" THEN "save" ELSE "raise",
                           !.files = worker[t].files]
  /\ UNCHANGED <<trees, worker, done, touched, batches, faults, made, leaky, cut>>

\* The batch is recorded and the progress saved.
Save ==
  /\ op.stage = "save"
  /\ done' = done \cup (op.batch \ {"fixup"})
  /\ touched' = touched \cup op.files
  /\ op' = NoOp /\ worker' = [t \in Tasks |-> Rest]
  /\ UNCHANGED <<trees, batches, faults, made, leaky, cut>>

\* _handle_implementation_failure: the failure is counted, nothing recorded.
HandleImplementationFailure ==
  /\ op.stage = "raise"
  /\ op' = NoOp /\ worker' = [t \in Tasks |-> Rest]
  /\ UNCHANGED <<trees, done, touched, batches, faults, made, leaky, cut>>

(***************************************************************************)
(* implement_subtasks_parallel.                                            *)
(***************************************************************************)
Register(id, tree) == [i \in DOMAIN trees \cup {id} |-> IF i = id THEN tree ELSE trees[i]]

\* create_agent_worktree, under the repository's lock, on the branch of the
\* run.
CreateAgentWorktree(t) ==
  /\ worker[t].pc = "create"
  /\ trees' = Register(<<t, batches>>, [trees[Main] EXCEPT !.dirty = {}, !.merging = "no"])
  /\ SetWorker(t, [Rest EXCEPT !.pc = "turn", !.tree = <<t, batches>>,
                               !.base = trees[Main].head])
  /\ UNCHANGED <<op, done, touched, batches, faults, made, leaky, cut>>

\* git refuses, outside the try that collects errors.
CreationRefused(t) ==
  /\ worker[t].pc = "create" /\ faults < MaxFaults
  /\ SetWorker(t, [Rest EXCEPT !.pc = "uncreated"])
  /\ leaky' = TRUE /\ faults' = faults + 1
  /\ UNCHANGED <<trees, op, done, touched, batches, made, cut>>

BatchTrees == {worker[t].tree : t \in op.batch} \ {Main}
Ended(pcs) == \E t \in op.batch : worker[t].pc \in pcs

\* The commits of subtask t's branch that the run's branch did not have.
Incoming(t) == trees[worker[t].tree].head \ worker[t].base

\* The call removes the worktrees of the batch, then ends as outcome says.
Cleanup(outcome) == [op EXCEPT !.stage = "remove", !.then = outcome]

\* Variant: what succeeded is merged although another loop failed.
JoinAnyway ==
  /\ op.stage = "parallel" /\ Running = {}
  /\ IF Ended({"failed", "uncreated"})
       THEN /\ op' = Cleanup("raise")
            /\ trees' = [trees EXCEPT ![Main].head = @ \cup
                 UNION {Incoming(t) : t \in {u \in op.batch : worker[u].pc = "ok"}}]
       ELSE op' = [op EXCEPT !.stage = "merge"] /\ UNCHANGED trees
  /\ UNCHANGED <<worker, done, touched, batches, faults, made, leaky, cut>>

\* All loops have ended.  A creation that failed is raised at once; an error
\* of a loop is raised after every worktree is removed; else the merges.
Join ==
  /\ op.stage = "parallel" /\ Running = {}
  /\ op' = IF Ended({"uncreated"}) THEN [op EXCEPT !.stage = "raise"]
           ELSE IF Ended({"failed"}) THEN Cleanup("raise")
           ELSE [op EXCEPT !.stage = "merge"]
  /\ UNCHANGED <<trees, worker, done, touched, batches, faults, made, leaky, cut>>

\* git merge: refused over a merge that is still open or over uncommitted
\* changes; it may stop on a conflict where both sides changed a file.
MergeRefused(t) ==
  \/ trees[Main].merging = "yes"
  \/ FilesOf(trees[Main].dirty) \cap FilesOf(Incoming(t)) # {}
MayConflict(t) ==
  FilesOf(trees[Main].head \ worker[t].base) \cap FilesOf(Incoming(t)) # {}
Merged(t) == [trees[Main] EXCEPT !.head = @ \cup Incoming(t)]
Conflicted(t) == [trees[Main] EXCEPT !.merging = "yes", !.dirty = @ \cup Incoming(t)]

\* A merge that failed is raised after every worktree is removed.
MergeFailed(t) ==
  /\ op' = Cleanup("raise")
  /\ trees' = IF MergeRefused(t) THEN trees ELSE [trees EXCEPT ![Main] = Conflicted(t)]
  /\ cut' = TRUE

MergeSubtask(t, conflict) ==
  /\ op.stage = "merge" /\ t \in Earliest(op.todo)
  /\ IF MergeRefused(t) \/ (conflict /\ MayConflict(t))
       THEN MergeFailed(t)
       ELSE /\ op' = [op EXCEPT !.todo = @ \ {t}, !.files = @ \cup worker[t].files]
            /\ trees' = [trees EXCEPT ![Main] = Merged(t)]
            /\ UNCHANGED cut
  /\ UNCHANGED <<worker, done, touched, batches, faults, made, leaky>>

\* Everything merged: the diffs are returned once the worktrees are removed.
ReturnParallel ==
  /\ op.stage = "merge" /\ op.todo = {}
  /\ op' = Cleanup("save")
  /\ UNCHANGED <<trees, worker, done, touched, batches, faults, made, leaky, cut>>

\* The worktree of t is the last of the batch that is left.
CleanedUp(t) == BatchTrees \cap DOMAIN trees \subseteq {worker[t].tree}

\* remove_agent_worktree, one at a time, in the order the loops ended in.
RemoveAgentWorktree(t) ==
  /\ op.stage = "remove" /\ t \in op.batch
  /\ worker[t].tree \in DOMAIN trees \ {Main}
  /\ trees' = [i \in DOMAIN trees \ {worker[t].tree} |-> trees[i]]
  /\ op' = IF CleanedUp(t) THEN [op EXCEPT !.stage = op.then] ELSE op
  /\ UNCHANGED <<worker, done, touched, batches, faults, made, leaky, cut>>

\* git refuses one: WorktreeError takes the place of whatever the call was
\* about to raise or return, and the rest of the worktrees stay.
RemovalRefused ==
  /\ op.stage = "remove" /\ faults < MaxFaults
  /\ op' = [op EXCEPT !.stage = "raise"]
  /\ leaky' = TRUE /\ cut' = (cut \/ op.then = "save") /\ faults' = faults + 1
  /\ UNCHANGED <<trees, worker, done, touched, batches, made>>

(***************************************************************************)
(* The environment: the worker process is killed; a person who was asked   *)
(* about the conflict aborts the merge in the run's worktree.              *)
(***************************************************************************)
Crash ==
  /\ op.stage # "idle" /\ faults < MaxFaults
  /\ faults' = faults + 1
  /\ op' = NoOp /\ worker' = [t \in Tasks |-> Rest]
  /\ leaky' = TRUE /\ cut' = TRUE
  /\ UNCHANGED <<trees, done, touched, batches, made>>

HumanAbortsMerge ==
  /\ op.stage = "idle" /\ trees[Main].merging = "yes"
  /\ trees' = [trees EXCEPT ![Main] = [@ EXCEPT !.merging = "no", !.dirty = {}]]
  /\ UNCHANGED <<op, worker, done, touched, batches, faults, made, leaky, cut>>

Init ==
  /\ trees = [i \in {Main} |->
               [head |-> {}, dirty |-> {}, merging |-> "no", marked |-> "no"]]
  /\ op = NoOp /\ worker = [t \in Tasks |-> Rest]
  /\ done = {} /\ touched = {} /\ batches = 0 /\ faults = 0
  /\ made = [t \in Tasks |-> {}] /\ leaky = FALSE /\ cut = FALSE

Loop(t) ==
  \/ ModelTurn(t) \/ TurnRaises(t) \/ CreateAgentWorktree(t) \/ CreationRefused(t)
  \/ \E refused \in BOOLEAN : FinishSubtask(t, refused)

Call ==
  \/ ReturnAlone \/ Save \/ HandleImplementationFailure \/ Join \/ ReturnParallel
  \/ RemovalRefused
  \/ \E t \in Tasks : RemoveAgentWorktree(t)
  \/ \E t \in Tasks, conflict \in BOOLEAN : MergeSubtask(t, conflict)

Next ==
  \/ ImplementationStep \/ Call \/ Crash \/ HumanAbortsMerge
  \/ \E t \in Tasks : Loop(t)

\* The threads of a call are scheduled; each converse call ends (ModelCalls).
Fairness == WF_vars(Call) /\ \A t \in Tasks : WF_vars(Loop(t))

Spec == Init /\ [][Next]_vars /\ Fairness

(***************************************************************************)
(* Properties.                                                             *)
(***************************************************************************)

\* implement_subtask, implement_subtasks_parallel and the record of core.py:
\* whatever a subtask wrote in the attempt that was recorded as completed is
\* committed on the run's branch, the one that packaging pushes; and every
\* file changed on that branch is in files_touched, from which the
\* checkpoints are computed.  Three events lose what was committed from that
\* list: a kill, a merge that failed after others of its batch, and a worktree
\* that git will not remove after the last merge, where WorktreeError replaces
\* the result (tool_use_bedrock_backend.py:723-726).
RecordedWorkIsReal ==
  op.stage = "idle" =>
    /\ \A t \in done : made[t] \subseteq trees[Main].head
    /\ ~cut => FilesOf(trees[Main].head) \subseteq touched

\* implement_subtasks_parallel: a batch in which a loop failed leaves the
\* run's worktree as it was, whatever the others did meanwhile; and a merge
\* that stopped on a conflict is left to a person: no later subtask commits
\* it with its conflict markers.
FailedBatchLeavesBranch ==
  /\ op.stage = "raise" /\ ~IsAlone(op.batch) /\ Ended({"failed", "uncreated"}) =>
       trees[Main].head = op.before /\ trees[Main].dirty = op.dirt
  /\ trees[Main].marked = "no"

\* No call leaves a worktree behind, whether it returns, a loop failed or a
\* merge stopped: the exceptions are a kill and a worktree that git would not
\* create or would not remove, which end the call before the others are removed.
NoWorktreeLeft == op.stage = "idle" /\ ~leaky => DOMAIN trees = {Main}

(***************************************************************************)
(* The inductive invariant from which the two are proved: what the trees   *)
(* and the loops are in each stage of a call.                              *)
(***************************************************************************)
IsTree(x) ==
  x = [head |-> x.head, dirty |-> x.dirty, merging |-> x.merging, marked |-> x.marked]
IsWorker(w) ==
  /\ w = [pc |-> w.pc, tree |-> w.tree, turn |-> w.turn, files |-> w.files, base |-> w.base]
  /\ w.pc \in {"rest", "create", "turn", "commit", "ok", "failed", "uncreated"}

\* A loop at work: what it made is in its tree, nothing is committed before it
\* finishes, and then its files are reported.
WorkOK(w, x, edits, before) ==
  /\ w.pc \in {"turn", "commit", "failed"} => x.head = before
  /\ w.pc \in {"turn", "commit"} => edits \subseteq x.head \cup x.dirty
  /\ w.pc = "ok" => /\ edits \subseteq x.head /\ before \subseteq x.head
                    /\ FilesOf(x.head \ before) \subseteq w.files

AloneOK ==
  /\ trees[Main].merging = "no"
  /\ \A t \in op.batch :
       /\ worker[t].pc \in {"turn", "commit", "ok", "failed"} /\ worker[t].tree = Main
       /\ WorkOK(worker[t], trees[Main], made[t], op.before)

\* The worktree of a loop of a batch.
InWorktree(t) ==
  /\ worker[t].tree = <<t, batches>> /\ worker[t].tree \in DOMAIN trees
  /\ worker[t].base = op.before
  /\ WorkOK(worker[t], trees[worker[t].tree], made[t], op.before)

ParallelOK ==
  /\ trees[Main].head = op.before /\ trees[Main].dirty = op.dirt /\ op.todo = op.batch
  /\ \A t \in op.batch :
       \/ worker[t].pc = "create" /\ worker[t].tree = Main /\ made[t] = {}
       \/ worker[t].pc = "uncreated" /\ worker[t].tree = Main
       \/ worker[t].pc \in {"turn", "commit", "ok", "failed"} /\ InWorktree(t)
  /\ (\E t \in op.batch : worker[t].pc = "uncreated") => leaky

MergeOK ==
  /\ op.todo \subseteq op.batch /\ op.before \subseteq trees[Main].head
  /\ trees[Main].merging = "yes" => op.todo = op.batch
  /\ FilesOf(trees[Main].head \ op.before) \subseteq op.files
  /\ \A t \in op.batch :
       /\ worker[t].pc = "ok" /\ InWorktree(t)
       /\ t \notin op.todo => made[t] \subseteq trees[Main].head

SaveOK ==
  /\ trees[Main].merging = "no"
  /\ FilesOf(trees[Main].head \ op.before) \subseteq op.files
  /\ \A t \in op.batch : made[t] \subseteq trees[Main].head

RaiseOK ==
  /\ trees[Main].head = op.before \/ cut
  /\ ~IsAlone(op.batch) /\ Ended({"failed", "uncreated"}) =>
       trees[Main].head = op.before /\ trees[Main].dirty = op.dirt

RemoveOK ==
  /\ op.then \in {"raise", "save"} /\ Running = {}
  /\ op.then = "save" => SaveOK /\ ~Ended({"failed", "uncreated"})
  /\ op.then = "raise" => RaiseOK
  /\ \A t \in op.batch : worker[t].tree \in {Main, <<t, batches>>}

LoopTypeOK ==
  /\ trees = [i \in DOMAIN trees |-> trees[i]] /\ Main \in DOMAIN trees
  /\ \A i \in DOMAIN trees : IsTree(trees[i])
  /\ trees[Main].merging \in {"yes", "no"}
  /\ op = [stage |-> op.stage, batch |-> op.batch, todo |-> op.todo, before |-> op.before,
           dirt |-> op.dirt, files |-> op.files, then |-> op.then]
  /\ op.stage \in {"idle", "alone", "parallel", "merge", "remove", "save", "raise"}
  /\ worker = [t \in Tasks |-> worker[t]] /\ made = [t \in Tasks |-> made[t]]
  /\ \A t \in Tasks : IsWorker(worker[t]) /\ (t \notin op.batch => worker[t] = Rest)
  /\ batches \in Nat /\ done \subseteq Tasks \ {"fixup"}
  /\ leaky \in BOOLEAN /\ cut \in BOOLEAN

\* What is under way is what core.py would dispatch again: the record has not
\* changed since.
BatchOK ==
  IF op.stage = "idle" THEN op = NoOp
  ELSE /\ op.batch \in NextBatches /\ op.batch \subseteq Tasks /\ op.batch # {}
       /\ op.batch \cap done = {}
       /\ op.stage = "alone" => IsAlone(op.batch)
       /\ op.stage \in {"parallel", "merge", "remove"} => ~IsAlone(op.batch) /\ batches > 0
       /\ op.stage \in {"save", "raise"} => Running = {}

StageOK ==
  /\ op.stage = "alone" => AloneOK
  /\ op.stage = "parallel" => ParallelOK
  /\ op.stage = "merge" => MergeOK
  /\ op.stage = "remove" => RemoveOK
  /\ op.stage = "save" => SaveOK
  /\ op.stage = "raise" => RaiseOK

\* A merge that stopped on a conflict is in the way of the same batch, and of
\* nothing else, until a person aborts it.
ConflictOK ==
  /\ trees[Main].marked = "no"
  /\ trees[Main].merging = "yes" => \A batch \in NextBatches : ~IsAlone(batch)

RecordOK ==
  /\ \A t \in done : made[t] \subseteq trees[Main].head
  /\ ~cut => IF op.stage = "idle" THEN FilesOf(trees[Main].head) \subseteq touched
             ELSE FilesOf(op.before) \subseteq touched

TreesOK ==
  ~leaky => /\ op.stage \in {"parallel", "merge"} => DOMAIN trees = {Main} \cup BatchTrees
            /\ op.stage = "remove" => DOMAIN trees \subseteq {Main} \cup BatchTrees
            /\ op.stage \notin {"parallel", "merge", "remove"} => DOMAIN trees = {Main}

LoopInv == LoopTypeOK /\ BatchOK /\ StageOK /\ ConflictOK /\ RecordOK /\ TreesOK
=============================================================================
