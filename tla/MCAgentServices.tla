---------------------------- MODULE MCAgentServices ----------------------------
(***************************************************************************)
(* What an agent of the orchestrator works with: the model it asks         *)
(* (ModelCalls), the loop that implements subtasks in worktrees (ToolUse)  *)
(* and the tools it calls through hooks and sandboxes (Sandbox).  The      *)
(* three share no state, only the rule that a call of one of them ends, so *)
(* their product adds no behaviour: `part' chooses the one that runs.      *)
(*                                                                         *)
(* ToolUse: a group of two and a subtask that waits for it, two files, so  *)
(* that changes may collide, a time that allows one turn as a target and   *)
(* three as the cap.  ModelCalls: two models in two regions, so that the   *)
(* preference can lie in the middle of the list, and four calls, so that   *)
(* an outage can move the preference and end again.  Sandbox: one call     *)
(* (calls share the chain and nothing else), two connections, three hooks. *)
(***************************************************************************)
EXTENDS ToolUse

CONSTANTS
  Vendors, NModels, NRegions, MaxRetries, MaxBatch, MaxCalls,
  Calls, Agents, Permitted, Registered, Requests, Hooks, MaxConns, MaxFailures

VARIABLES
  part,
  vendor, sticky, ask, calls, trusted,
  call, ran, hookLog, box, request, proxy, conn, decisions, execLog, failures

models == <<vendor, sticky, ask, calls, trusted>>
boxes == <<call, ran, hookLog, box, request, proxy, conn, decisions, execLog, failures>>

M == INSTANCE ModelCalls WITH call <- ask
S == INSTANCE Sandbox

ASSUME AgentServicesAssumption ==
  ToolUseAssumption /\ M!ModelCallsAssumption /\ S!SandboxAssumption

MCPlan == <<"a", "b", "c">>
MCGroup == [t \in {"a", "b", "c"} |-> IF t = "c" THEN "none" ELSE "g"]
MCDependsOn == [t \in {"a", "b", "c"} |-> IF t = "c" THEN {"a", "b"} ELSE {}]
MCReach == [t \in {"a", "b", "c", "fixup"} |->
              IF t = "b" THEN {"f1", "f2"} ELSE IF t = "c" THEN {"f2"} ELSE {"f1"}]
MCWallClockSeconds == [s \in {"S", "XL"} |-> IF s = "S" THEN 60 ELSE 0]
MCVendors == {"bedrock", "anthropic", "openai", "ollama"}
MCPermitted == [a \in {"implementer", "reviewer"} |->
                  IF a = "implementer" THEN {"run", "gone"} ELSE {"search"}]
Plain == [agent |-> "implementer", tool |-> "run", command |-> "plain", path |-> "inside",
          egress |-> FALSE, written |-> TRUE, reviewed |-> FALSE, docker |-> TRUE]
MCRequests ==
  {[Plain EXCEPT !.egress = e, !.docker = d] : e, d \in BOOLEAN}
    \cup {[Plain EXCEPT !.command = "destructive", !.written = FALSE, !.reviewed = TRUE],
          [Plain EXCEPT !.path = "forbidden", !.docker = FALSE],
          [Plain EXCEPT !.tool = "gone"], [Plain EXCEPT !.agent = "reviewer"]}
MCHooks == <<"SecretRedactionHook", "ScopeBoundaryHook", "DestructiveCommandHook">>

\* A part that does not run keeps the first state Init allows it.
UnusedModels ==
  /\ vendor = "bedrock" /\ sticky = 0 /\ calls = 0 /\ trusted = {} /\ ask = M!Idle

AgentsInit ==
  /\ Init /\ S!Init
  /\ \/ part = "models" /\ M!Init
     \/ part \in {"loop", "tools"} /\ UnusedModels

AgentsNext ==
  \/ part = "models" /\ M!Next /\ UNCHANGED <<part, vars, boxes>>
  \/ part = "loop" /\ Next /\ UNCHANGED <<part, models, boxes>>
  \/ part = "tools" /\ S!Next /\ UNCHANGED <<part, vars, models>>

AgentsSpec ==
  /\ AgentsInit /\ [][AgentsNext]_<<part, vars, models, boxes>>
  /\ Fairness /\ M!Fairness /\ S!Fairness

(***************************************************************************)
(* Properties.                                                             *)
(***************************************************************************)

\* call_converse_with_retry: a call gives up only after every combination of
\* model and region had all its attempts (ModelCalls!GivesUpOnlyAfterAll); and
\* while the combination that answered last has not failed since, attempts go
\* nowhere else (ModelCalls!SendsWhereItWorks).
FailoverIsThorough == M!FailoverIsThorough

\* implement_subtasks_parallel: a failed batch leaves the run's branch as it
\* was, a conflict is left to a person, and no worktree stays behind unless git
\* refused to create or to remove one (ToolUse).
FailedBatchLeavesNothing == FailedBatchLeavesBranch /\ NoWorktreeLeft

\* execute: when it has returned its proxy takes no connection and its command
\* runs no more, unless `docker rm' failed on the container
\* (Sandbox!NothingLeftRunning).
NothingLeftRunning == S!NothingLeftRunning

\* "created immediately before that unit of work and destroyed immediately
\* after" (docker_sandbox.py:8-9): no container outlives the call it was made
\* for (Sandbox!ContainersDestroyed).
ContainersDestroyed == S!ContainersDestroyed

\* HookChain: a call that a hook of the chain blocks never reaches its tool, and
\* is recorded once, redacted (Sandbox!ChainHolds).  The runtimes: one record
\* for every execution, with its code and timeout, and in a container's the
\* egress decisions its command was told (Sandbox!ExecutionsAreTrue).
ToolCallsAreTrue == S!ChainHolds /\ S!ExecutionsAreTrue

\* A call of the part that runs is under way.
Busy == \/ ask.pc # "idle" \/ op.stage # "idle"
        \/ \E c \in Calls : call[c].pc \notin {"idle", "over"}

\* Every call ends: of the model, with a result or an exception; of the loop,
\* whose hard cap stops a model that never finishes; of a tool, however long
\* its command runs.  (One part runs, with one call at a time.)
AgentCallsEnd == Busy ~> ~Busy
=============================================================================
