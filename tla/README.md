# TLA+ models of sdlc-os

sdlc-os takes a story from an issue tracker and drives it, through a fixed
sequence of stages, to a reviewed and packaged change.  Models write plans and
code; humans approve plans, review changes and answer questions when a run
leaves its budget.  This directory holds TLA+ models of the parts of the system
that decide what happens next, TLC runs that check them on small instances, and
proofs that TLAPS checks for every instance.

## 1. Inventory

| Part | State | Operations | What is hard | What makes it correct |
|---|---|---|---|---|
| run-registry | one row per run (stage, version, checkpoint pointer, location, attempt), attempts, stage history; SQLite | create_run, get_run, list_runs, append_attempt, transition_stage, write_checkpoint, write_execution_location | several processes, read and write in different transactions, lost answers | no lost update; history, attempts and row agree; terminal stages are final |
| orchestrator (core, checkpoints, plan store, progress store) | plan versions, progress file, the registry row; nothing in memory survives | start_run, resume_run, approve_plan, approve_change_review, resolve_checkpoint, the drive loop | crash between any two writes, retries, budgets, several triggers at once | nothing passes a gate or a question without a human; what ships was verified and reviewed; every call returns |
| job-dispatcher | in-flight capacity request and trigger queue per tenant, in memory | handle_webhook, retry_queued | threads that join one request, failure of the leader, a trigger popped and not yet handled | one scale-up per burst; nobody waits for ever; a queued trigger is not dropped |
| run-worker (`deploy/run-worker`) | processed and pending JSON files, a lock file | poll, pick up, post questions, apply replies | crash between tracker, registry and files; exceptions and failed calls; old replies | one driver per run; a reply answers the question it was written for; no story is forgotten |
| gates | gate records, handles, escalations | open, decide, escalate, batch | authority read before the decision, timer against decision | each gate decided once, by someone entitled |
| agent backends (Bedrock, Anthropic, OpenAI, Ollama) | the sticky index of the combination that answered last | write a plan, implement, fix up; one call is many attempts | transient and permanent failures told apart, fallback over models and regions, a preference in the middle of the list | no combination is skipped, no refusal is retried, an outage is paid for once |
| tool-use backend, agent worktrees | worktrees of the repository, loops of turns | implement one subtask, or a group in parallel | one of several fails, a merge stops on a conflict, a kill leaves worktrees, dirt of an earlier loop | what is recorded as done is committed; a failed batch leaves nothing |
| sandboxes, hooks, skills | hook chain, audit logs, processes, containers, proxies | call a tool, run a command | a timeout while the daemon still works, proxy threads during the conclusion | the command does not outlive its call; a blocked call never runs; records are true |
| source-control | clients per installation, token cache under a lock | open_pr, check status, file contents, list files, revocation webhook | eviction during a fetch, lost answers, two requests for one pull request | no ended token is used again; answers say what happened |
| issue-tracker | none of its own; Jira holds the issues | create epic and story, link, transition, comment, assign, search, relay | several requests per operation, lost and late ones, people who edit meanwhile | answers are true, a retry makes no second issue, only opted-in stories are dispatched |
| platform-release | release history and pinned versions, each a JSON file | release, roll back, canary, promote a module version, define a cell | several processes with copies of one file, kill between apply and record, failed tofu | a rollback goes back to what ran; nothing passes its gate |
| tenant-cell | node, in-flight requests, the run's row | cold start, interruption warning, drain, flush, checkpoint | a warning during a step of the orchestrator, on the same row | no question is lost; the drain fits the window |
| verification-pipeline | retry budget per run, in memory | the seven layers, submit an attempt | tools that crash or say nothing, budget lost with the process | a change reported eligible is clean; the retries of a process are bounded |
| fleet-dashboard | observations kept between polls | poll (read the rows, record them), scope a request | request threads whose reads overtake each other, moves between two polls, restarts | the board shows what happened, as far as reads come in order |
| index-server | per repository: file records, links, last indexed commit, a ranking | build, refresh, find definitions, references and callers, search | the repository changes while it is read; only changed files are parsed; git fails | the index is that of one commit; no reference is missed |
| kms-boundary, mcp-stubs, observability, evaluation-harness, security-hardening, infra | none, recorded answers, append-only logs, reports, tests, declarations | | I/O, cryptography or read-only | not modelled, see section 7 |

How they interact: the issue tracker's relay signs a dispatch, the dispatcher
creates runs in the registry; the run-worker calls the orchestrator's entry
points and relays human decisions from the tracker; the orchestrator and the
tenant cell both write the registry row, under its version check; the
orchestrator calls the agent (a model backend, or the tool-use backend with
worktrees, hooks and sandboxes) and the verification pipeline, stores plan and
progress in files of its own, and packages through source-control.  The
dashboard reads the rows.

## 2. Modules

| Module | Models | Extends / uses |
|---|---|---|
| `RunStages` | the stage vocabulary and its transition graph (`stages.py`) | |
| `RunRegistry` | tables and calls of the registry (`service.py`, `repository.py`) | `RunStages` |
| `RunRegistryProofs` | theorems about `RunRegistry` | `RunRegistry`, TLAPS |
| `Checkpoints` | budgets and the four checkpoint triggers (`checkpoints.py`), as operators | |
| `RunLifecycle` | abstract specification: which stage changes need a human | `RunStages` |
| `Orchestrator` | the drive loop and the entry points (`core.py`, `plan_artifact.py`, `progress.py`) | `RunStages`, `Checkpoints`; implements `RunLifecycle` |
| `OrchestratorProofs` | theorems about `Orchestrator`, its refinement of `RunLifecycle` and the size check of `Checkpoints` | `Orchestrator`, TLAPS |
| `JobDispatcher` | webhook threads, coalesced capacity requests, tenant queues (`dispatcher.py`, `tenant_queue.py`, `http_app.py`) | |
| `JobDispatcherProofs` | theorems about `JobDispatcher` and `IssueTracker`, the two ends of a dispatch | `JobDispatcher`, `IssueTracker`, TLAPS |
| `RunWorker` | the unattended worker, its files, its lock and its tracker (`jira_poll_run.py`, `_run_lib.py`) | `RunStages` |
| `RunWorkerProofs` | theorems about `RunWorker` | `RunWorker`, TLAPS |
| `Gates` | opening, deciding and escalating gates (`gate_service.py`, `escalation.py`, `self_approval.py`, `codeowners.py`, `business_calendar.py`, `audit.py`) | |
| `RepoIndex` | the index of a repository, its refresh, linking and queries (`repo_index.py`, `resolve.py`, `git_utils.py`, `service.py` of the index-server) | |
| `MCGatesAndIndex` | the instance of `Gates` and of `RepoIndex` | extends `Gates`, instantiates `RepoIndex` |
| `GatesAndIndexProofs` | theorems about `Gates` and `RepoIndex` | `MCGatesAndIndex`, TLAPS |
| `SourceControl` | requests, clients, tokens and the revocation webhook (`service.py`, `app_auth.py`, `github_client.py`, `errors.py`) | |
| `SourceControlProofs` | theorems about `SourceControl` | `SourceControl`, TLAPS |
| `ModelCalls` | one backend of a vendor asking its model (`bedrock_backend.py`, `anthropic_backend.py`, `openai_backend.py`, `ollama_backend.py`, `model_backend.py`, `backend_factory.py`) | |
| `ToolUse` | loops of turns, parallel batches, worktrees and merges (`tool_use_bedrock_backend.py`, `worktree.py`, the implementation step of `core.py`) | |
| `Sandbox` | tool calls through hooks into a subprocess or a container (`skills.py`, `hooks.py`, `sandbox.py`, `docker_sandbox.py`) | |
| `MCAgentServices` | the instance of the three modules above | extends `ToolUse`, instantiates the other two |
| `AgentServicesProofs` | theorems about `ModelCalls`, `ToolUse` and `Sandbox` | `MCAgentServices`, TLAPS |
| `IssueTracker` | the tools over Jira and Confluence, the relay and its signature | |
| `PlatformRelease` | CI gate, releases, rollbacks, canary, module versions | |
| `VerificationPipeline` | the layers, the report and the budget, as operators | |
| `TenantCell` | node, watcher, verifying process, people and dashboard over one row | `VerificationPipeline`, `RunStages` |
| `PlatformAndCellProofs` | theorems about `TenantCell`, `VerificationPipeline` and `PlatformRelease` | `TenantCell`, `PlatformRelease`, TLAPS |
| `MCServices` | the instances of `RunRegistry`, `TenantCell`, `IssueTracker` and `PlatformRelease` | extends the four |
| other `MC...` | the instances TLC checks | |

Where a module extends several components, all but one have names of their own
(`CellSpec`, `TrackerSpec`, `ReleaseSpec`, ...); where it extends an MC module it
uses that module's instances (`R!Spec`, `M!Spec`, `S!Spec`) and none of its
constants' values.

### RunRegistry

A client is a process with its own connection.  A write is three steps, as in
the code: `CallWrite` (SELECT and checks), `Commit...` (the transaction with the
conditional UPDATE) or `Rollback`, and `Reply` (the SELECT after the commit,
which may already see a later version).  `Raise` ends a call at any of those
points.  A call that is refused before its transaction changes nothing and is a
stuttering step.  Timestamps are abstracted to NULL / set, identifiers of
attempts to their number.

### Orchestrator

A driver runs one entry point.  Each durable write is one step: `Move`
(transition_stage), `Ask` and `Resolve` (write_checkpoint), `AppendAttempt`,
`Save...` (progress file), `store_plan` and `ExtendDeclaredScope` (plan files).
Between them it holds in memory exactly what the code holds: the row it read,
the progress it will write, the outcome of the step.  `Crash` drops that memory
at any point; an exception that leaves the drive loop is the same step.
`ImplementBatch`, `ImplementFixup`, `ImplementRaises` and `Verify` take any
answer of the agent and of the verification.  A diff is a set of files and a
number of lines; a trigger is its signature.  `seen` is not in the code: it
remembers which plan version was approved and which diff was verified and
reviewed, for the properties.

### JobDispatcher

A thread of the HTTP server serves one webhook (`HandleWebhook`) or one
`retry_queued`.  `RequestCapacity` is the critical section that makes it the
leader of its tenant or a follower of the leader in flight; the provider's
answer (`ProviderAnswers`: granted, at limit, exception), the removal from the
table (`Pop`) and the publication of the outcome (`Publish`) are steps of their
own, so another thread can arrive between any two.  After that a thread creates
its run or queues its trigger and posts the delay comment.  Every call that can
raise may raise.  `delivered`, `refused` and `dropped` are not in the code: they
count what became of each delivery, for the properties.

### RunWorker

A worker is one invocation of the script.  What outlives it is the issue, the
run, the two JSON files; what a step holds in memory is lost in `Crash`, in
`Exit` (SystemExit, which the worker's `except Exception` lets through) and,
partly, in `Raise` (an exception it catches).  Calls to the tracker fail
(`ListCommentsFails`, the failing alternatives of `Pickup`, `NothingNew`,
`FinishIssue`, and `ReportError`, the comment on a failed start, whose result
nobody looks at), and a question may be lost or be posted without the worker
learning its id (`PostFails`).  The orchestrator is seen from outside: `Work`
and `Ask` move the run along the stage graph or pause it, `Apply` and `Stop` are
the entry points a reply leads to.  A comment's id is its position; a reply
carries, for the properties only, the pause it was written for, and `applied`
records which reply decided which pause.  `told` records what was reported.

### Gates

A thread opens a gate, decides one or sweeps.  The tracker's record, the handle
in `_open_gates` and the audit entry are written in steps of their own
(`OpenGate`, `AuditOpened`, `PutHandle`; `MarkActioned`, `AuditActioned`,
`DeleteHandle`), since only the tracker's record is under its lock.  `Evaluate`
reads who is entitled and checks the clearance; the mark comes later.  `Sweep`
takes the clock and the list of open gates once; `Escalate` and `Skip` look at
each of them again, in any order (the list's order is that of opening).  A decision
remembers, for the properties only, whether the gate was escalated when it was
called (`late`).  A call
that raises before it writes changes nothing and is left out; the second of two
decisions is `AlreadyActioned`.  Identities are normalized (`strip`, `casefold`),
so one element of `People` is one human; `Owners` gives the people with a handle
CODEOWNERS names for a file.  A decision names the files of the change or, with
`checked` "no", none.  Time is in days and day 0 is a Monday; a fractional SLA
is truncated by `int()` in the code, so half a day means immediately and whole
days lose nothing.  A gate id names one opening.  `cleared` and `since` are not
in the code: they record who cleared a gate on which grounds, and when it was
escalated.

### RepoIndex

The server handles one call at a time, so an operation is under way (`op`) or
none is; but each git command and each file it reads is a step (`Build`,
`Refresh`, `Diff`, `Parse`, `Relink`, `ReadCommit`), and between two of them
people commit, rename, reset and edit (`Commit`, `Rename`, `Checkout`, `Edit`).
`Refresh` chooses as the code does between the diff of two commits, the hashes,
a build and nothing.  What the adapters find in a text is given (`Content`):
definitions, import bindings and references; a fully qualified name is a
sequence of names.  `ResolveChain`, `Link`, `ResolveSymbol`, `FindReferences`
and `FindCallers` are the code's, on sets.  What a reference means is part of
the instance and seen by the properties only.  `moved`, `off` and `torn` are not
in the code: they say which files changed under the reader, which were read from
something that the remembered commit does not have, and whether a refresh raised
half way; the properties exempt these.

### SourceControl

A request is a sequence of REST calls (`Calls`); each call asks its client for
a token (`GetToken`, `MintToken`, `StoreToken` under the cache's lock), sends it
(`Serve`) and, when it is refused, evicts (`ForceEvict`).  `MakeClient` may put a
second client over the first, since the table has no lock.  The webhook pops the
client (`WebhookPop`) and evicts its cache (`WebhookEvict`) in two steps, as the
code does.  GitHub may uninstall, reinstall, lose any answer, and a person may
close the pull request.

### ModelCalls, ToolUse, Sandbox

`ModelCalls` is one call at a time: `Begin`, `AttemptFails` or `AttemptAnswered`
per request sent, `Return`.  `Chat`, `Complete`, `CallTool` and
`ConverseInOneRegion` are the vendors' own classifications of a reply, the
`...Answer` operators what each makes of an answer's content.  `Order` is
`call_converse_with_retry`'s rotation from the preference.

In `ToolUse` an edit is a pair of a subtask and a file, a tree has a set of
committed and a set of uncommitted edits and perhaps an unfinished merge.
`ImplementationStep` chooses the batch as `core.py` does (ids are distinct, so a
batch is a set and the plan's order is `Before`); `ModelTurn` makes any calls of
tools, and `FinishSubtask` takes the statistics and commits; `CreateAgentWorktree`,
`Join`, `MergeSubtask`, `ReturnParallel` are the parallel batch.  git may refuse to
create a worktree or to commit, and a merge conflicts only where both sides changed
a file.  `made`, `leaky` and `cut` are not in the code; they say what an attempt
wrote and which failures the properties exempt. Worktrees are removed one at a time
(`RemoveAgentWorktree`), and git may refuse (`RemovalRefused`): the exception ends
the call wherever it is, with the other worktrees in place.

In `Sandbox` the proxy's handler threads are steps of their own (`Serve`,
`Decide`, `Answer`), and the Docker daemon creates and starts a container some
time after it was asked to, whether or not the client still waits.  A launch may be
refused; `docker kill`, `docker inspect` and `docker rm` may each fail, which the
code does not look at; a subprocess that ends, or is killed for its timeout, may leave
children behind (`orphaned`) that still talk to a handler of the proxy.  Hooks are
those the chain was built with: nothing in the repository registers one later.

The three share no variable, so one behaviour of `MCAgentServices` runs one of
them, chosen at the start: the states are the sum of theirs and not the product.

### IssueTracker

`Send` is one request: answered, refused, lost after it was applied, or given up and
applied later (`Land`).  `Search`, `CreateStory`, `CreateBlocksLink`, `ReadStatus`,
`ReadTransitions`, `PostTransition` are the requests of the operations in their
order; a request about an issue that is not there is answered 404.  An issue says in
which field its epic was written (`link`): the search asks for the parent field in
every mode, so a story of the custom field is not found (`Searchable`).  An
operation remembers whether its issue was opted in at any time since it began
(`opted`), for the properties only.  `Refetch`, `SignRequest` and `Deliver` are the
relay and the receiver's verification.

### PlatformRelease

A manager reads both files when it starts and rewrites them whole from its copy.
`StartRelease`, `ApplyPlatformVersion` (or `ApplyFails`, `ApplyTimesOut`, with or
without an effect) and `AppendHistory` are three steps; `Crash` may come between
any two and may tear the file being written, which the next start refuses.  A
validation reads the module directory, and the hash of the promotion reads it again:
`validated` holds versions with the content that passed, `moved` those pinned with
another.  `ConfigureCanary` takes any router, of any fraction and salt; `splits`
remembers whom each sends to the new version.  `moved`, `splits`, `applied` and
`disturbed` are not in the code.

### TenantCell and VerificationPipeline

A change is a record of what the tools would find; each layer is an operator on
it, written from the layer's own conditions.  In `TenantCell` the orchestrator's
step is `Implement` or `Verify`, followed, for a stage change, by `Reread` and
then `Write`; a question is written under the version read before the step.  The
watcher's five steps are `CordonOrStop`, `StartDrain`/`EndDrain`,
`FlushObservability` and `WriteCheckpoint`, the last under the version of the
warning; the cloud takes the node (`Reclaim`) any time after the window has ended,
wherever the watcher and the process are by then.  `failures` counts the attempts that
failed in the pipeline of the running process, also those after an escalation, which
the drive loop sends back like any other.  A request thread of the dashboard reads the
rows (`FetchRuns`) and records what it has read (`Observe`) in two steps, between which
the row moves and other threads do the same; the dashboard may restart (`Forget`).
`since` and `order` in its observation are not in the code: they say when the watching
began and whether an older read was recorded after a newer one.  There are three callers
of the pipeline: the orchestrator's runner ("two": two layers, the others skipped, no
known failures), one that runs all seven with the failures known before, and one that
hands over its two results alone ("bare"), which is never eligible.

## 3. Runs

| Run | Result | Question |
|---|---|---|
| `services` | holds | four services, one at a time. Registry: two processes race on all four writes of one run, no update is lost and the histories agree (`IInv`, `WritesFromCurrentRow`, `AttemptsAppendOnly`, `RunsOnlyAdvance`). Tenant cell: a question asked during a warning survives it, the drain keeps to the window, verdicts are right and a process's retries bounded, the board is true while no read overtakes another (`QuestionsOutliveRaces`, `DrainFitsWindow`, `VerdictsAreSound`, `BoardIsTrue`). Issue tracker: answers are true under lost and late requests, no duplicate of what the search can see unless two creations raced, only opted-in stories are dispatched (`AnswersAreTrue`, `NoDuplicateUnlessRaced`, `DispatchesAreOptedIn`). Releases: a rollback deploys what ran before, nothing is deployed past its gate, what is pinned is what was validated unless the directory was edited meanwhile (`RollbacksReturn`, `ReleasesAreGated`) |
| `orchestrator` | holds | only approved plans are implemented, what is reviewed was verified, dependencies hold (`WorkIsSanctioned`); questions come in time (`AsksInTime`); pauses are firm and progress is kept (`StepsAreSafe`); `ImplementsLifecycle`, the refinement; every entry point returns (`DriveTerminates`) |
| `dispatcher` | holds | one scale-up per tenant, no stranded follower (`IInv`), each delivery accounted for once (a retry that raised included), every request answered |
| `worker` | holds | files, run and issue agree under one fault of each of any four kinds (`FilesMatchRuns`); a reply decides the question it was written for (`RepliesDecideTheirQuestion`); every reply is acted upon by a worker that keeps running (`RepliesAreTaken`) |
| `gates_and_index` | holds | gates: cleared once and by someone entitled, complete sweeps, exact audit log and handles (`RecordsAgree`), final decisions; index: after any history of commits and refreshes it is that of the commit it remembers (`IndexIsFresh`), and every use of a symbol is found although only changed files were parsed (`ReferencesAreFound`) |
| `source_control` | holds | an ended token is never handed out again, `open_pr` tells exactly what it did, every request is answered |
| `agent_services` | holds | fallback and preference of model calls; a subtask recorded as done is committed and a failed batch leaves nothing; a blocked call never runs, no command outlives its call unless docker would not remove it, records are true; every call ends |
| `orchestrator_stop`, `worker_lock`, `dispatcher_queue`, `gate_escalation`, `container_leak` | violated | statements of the repository's comments, see section 6 |

Several properties are conjunctions of named parts (`WorkIsSanctioned`,
`FilesMatchRuns`, `RecordsAgree`, ...); the parts are defined just above them, with a
comment each.

Bounds.  `services`: the four share no variable, so a behaviour runs one of them,
chosen at the start (`part`), and the states are the sum of theirs.  Registry: two
clients are enough for every race on one row (a third can only repeat what one of
the two does between the other's read and commit); `MaxVersion` 5 lets both clients
write, lose and retry, and lets a run be abandoned and appended to.  `orchestrator`:
four subtasks make one governed and one ungoverned parallel group and a dependency
that points backwards in plan order; three decisions are enough to approve, answer
one question and decide the review; budget 1 line / 1 file puts every trigger within
reach; one crash at any step (two crashes repeat the recovery from a state it
already reaches). `dispatcher`: three threads are a leader, a follower and a thread
that arrives between `Pop` and `Publish`; three triggers of two tenants share and
separate queues.  `worker`: one story that can be moved back once, so a second run
of it can start; one kill, one exception, one exit, one failed read or write and one
failed post, any four of them in one behaviour (`MaxKinds`); two replies (one may be
stale when the other is written), three pauses and one failed verification per run.
A second worker matters only for the lock (`worker_lock`).  Several properties of
`worker` name the faults they exclude: the model has no fault-free part, each
property says in its own hypothesis which failure the code does not survive.
`gates_and_index`: two threads (two decisions, two sweeps, or one of each, at any
point of the other); a plan approval with an SLA of one day, a change review with an
SLA of zero, from Friday to Monday, so the weekend counts and the zero case is
reached; three people, of whom one triggered the run, one is the approver, one the
backup; two decisions, so that one may be refused by the other; for the index, four
files whose texts refer to each other by import, alias, qualified name, `self` and a
local variable, one of them in an ignored directory; three commits, so that one can
land during the refresh that follows another; one edit or reset and one failure of
git.

`source_control`: two threads, so that one fetches or creates while the other
does or while the webhook evicts; two tokens, the one before and the one after
an uninstallation, with a lifetime one tick above the refresh margin.
`agent_services`: two models in two regions make the preference start in the
middle of a list with something before and after it; two attempts per
combination; a group of two subtasks that may touch a common file, one after
them, and three dispatches, so that a failed batch is tried again; a hard cap
of a few turns; one call, of which every request the permissions, hooks and
tiers tell apart is tried, with two connections through the proxy.
The other parts of `services`.  Issue tracker: two callers with two operations each
and three between them (`TrackerOps`: a creation, its retry and another creation, or
two at once), one fault, one edit, a window of one tick on a clock of two; four
configurations, among them each `epic_link_mode`.  Releases: two managers, two
versions, three operations (two releases and a rollback), three routers of two salts,
one kill, one tofu failure, one edit.  Tenant cell: two nodes in turn; a drain of less
and of more than the window holds, each begun anywhere in the window or after it; two
request threads of the dashboard, enough for one read to overtake another, and up to
four counted checkpoints (`MaxCount`).  The verdict, the warning and the board each
have a part of their own (`verification`, `node`, `board`) in which the other two are
kept simple, since none of them reads what the others write but the row; five writes
of the row, six for the verdicts, are a question, its answer, a checkpoint, and the
moves to review and back, or the failures up to an escalation; what comes after the
escalation of one process is left to the theorem `SoundVerdicts`.

## 4. Fairness

* `orchestrator`: a driver that has started and has not crashed takes
  its next step (`WF` on `DriverStep`).  A driver is one thread with no waiting
  on others, and its calls return or raise.
* `dispatcher`: a request thread takes its next step (`WF` on
  `ThreadStep`).  Locks are held for a few statements, the provider and the
  registry return or raise.  Nothing calls `retry_queued` in the repository, so
  it is not fair and nothing is claimed for queued triggers.
* `worker`: a worker that runs takes its next step (`WF` on `WorkerStep`):
  `--watch` loops for ever.  Nothing in the repository starts a worker again that was
  killed or ended by SystemExit, so no fairness is assumed of `AcquireLock` and the
  property releases the replies of a worker that is gone.
* `source_control`: a thread that serves a request takes its next step.  HTTP
  calls have a timeout, and the cache's lock is held for one of them at most.
* `agent_services`: an attempt ends (the clients have a timeout), a turn of the
  loop ends, and the sandbox's own steps are taken; its timeout is one of them.
  The command, the daemon and the model's content are not fair.

Humans, resumes, deliveries, clouds and the clock are never fair.  The other
runs state no fairness and check safety only.

## 5. Proofs

A theorem holds for every value of the constants that satisfies the named
assumption of its module; the bounds the runs need (`MaxVersion`, `MaxCrashes`,
...) are constants too, so a theorem covers every bound.  Each invariant below
was checked by TLC on the run's instance before it was proved.

### RunRegistryProofs

* `RegistryInvariant`: `Spec => []IInv`, with `IInv` the conjunction of
  `TypeOK`, `TenantScoped`, `InFlightSeesItsVersion`, `CurrentAttemptIsLatest`,
  `OpenHistoryIsCurrentStage` and `HistoryIsLegalPath`;
* `RegistryTypeOK`, `RegistryCurrentAttempt`, `RegistryHistory`: its parts;
* `RegistryNoLostUpdate`, `RegistryOnlyAdvances`, `RegistryAppendOnly`: the
  action properties `WritesFromCurrentRow`, `RunsOnlyAdvance` and
  `AttemptsAppendOnly`.

The key conjunct is `InFlightSeesItsVersion`: a call between its read and its
transaction holds the row as it was at the version it expects, so if the version
still matches at commit, nothing else of the row has changed; then the stage the
legality check looked at is the stage the transition leaves.  Without it
`HistoryIsLegalPath` is not inductive.  Append-only needs one fact more,
`NoRowsBeforeCreate`: create_run writes a first attempt over whatever the table
has for its run, which is nothing.  Assumed is `ConstantsAssumption` (the null
values are not rows or calls, the reasons are of the vocabulary).

### OrchestratorProofs

* `WorkSanctioned`, `AskedInTime`: the invariants `WorkIsSanctioned` and
  `AsksInTime`;
* `SafeSteps`: the action property `StepsAreSafe`;
* `ImplementsTheLifecycle`: `Spec => Lifecycle!Spec`, the refinement.

They hold for every plan, budget and number of crashes and decisions, under two
hypotheses that are stated in the theorems and not assumed of the constants.
`OneDriver`: one process drives the run, which the lock of the run-worker is
there for (`jira_poll_run.py:427-447`; the run `worker_lock` shows where the lock
fails).  `PlanIsSound`, for `WorkSanctioned` only: dependencies are subtasks of
the plan and there is an order of the subtasks in which they come first; the
plan schema checks neither, and with a cycle the code goes to verification with
the cycle undone (section 6).  The instance TLC checks satisfies both
(`InstanceIsCovered`).

The inductive invariant says of each place a driver can be in what its memory
has to do with the stores.  `RunOK`: stage, plan version and progress belong
together.  `DriverOK`: per place, what the row in memory still says (`PlaceOK`),
that a move leads along the stage graph from the row's stage (`MoveOK`), that a
question is one of the progress just saved (`AskOK`), that an outcome is what the
saved progress warrants (`ReloadOK`), and what the progress about to be written
may add to the old one (`SaveBatchOK`, `SaveFailureOK`, `SaveOK`).  `FailuresOK`
counts failures against the budget, the answered questions and the crashes:
after a failure has been saved its question is either pending, answered or still
in the driver's hands (`Excused`), and a crash there is paid for by `crashes`.
`RestOK` says which drivers may stop.  `SubtasksDoneInOrder` needs a minimal
element among the subtasks not done, which `PlanIsSound` provides: a plan that is
not finished has a ready subtask.

For the refinement, `mandate` is what the driver carries from a human: a decision
at a gate, or the answer of a question.  Writing it is a step of `RunLifecycle`
(`Decide`, `Settle`), taking it up or losing it in a crash is one too (`Carry`,
`Forget`), moves of the system itself and questions are `Move` and `Ask`, and
everything else, all of implementation and verification, is a stutter.

Of the size check alone: `GrowthNeverClearsSize` (a diff over its ceiling stays over
it while it grows, for every budget, although the line ceiling drops to a third at
the second file) and `PromotionNeverTightens` (the next size class of the default
budgets allows at least as much).

### RunWorkerProofs

* `WorkerInvariant`: `Spec /\ []OneInstance => []IInv`;
* `FilesAgree` (`FilesMatchRuns`) and `RepliesExact` (`RepliesDecideTheirQuestion`),
  under the same hypothesis, for any number of stories, runs, replies and faults;
* `OneWorkerIsEnough`: with a single worker process both hold without it.

`OneInstance` (no two workers are at work at once) is a hypothesis because the code
does not ensure it: the lock is released too early, which `worker_lock` shows.  A
worker's step concerns one story, so the invariant is stated for each story and for
one worker's record (`W`), and every lemma splits into the story in hand and the
others, which are framed.  Of a story: what its pending record says (`RecordOK`,
`PauseOK`), that a processed one is over (`EndedOK`), that one set to done completed
unless a kill explains it (`DoneOK`), and that it was told or is still to be taken
up, unless a kill, an exit or a report that failed explains the silence (`ToldOK`).
Of a worker: what it holds in each place (`HandOK`, `PlaceOK`, `ReportOK`,
`ReplyOK`).  Replies need two ideas.  `Pinned`: the last question of a story is
about the pause its run is in, and so are all comments after it; comments are only
appended, so a reply read after the question answers that pause.  `Past`: a gate is
not entered again once it is left, so even a reply applied late, after an exception,
meets its own gate or none; this does not hold of checkpoints, and the property
excludes kills and exceptions there (`Trusted`).

### JobDispatcherProofs

* `CoordinatorInvariant`: `Spec => []IInv`, with `IInv` the conjunction of
  `TypeOK`, `TableIsExact`, `NobodyStranded` and `QueuesAreTenants`;
* `OneScaleUp`, `NoStranding`, `SeparateQueues`: its consequences.
  `QueuesAreTenants`, like `TenantScoped` above, is proved and has no run;
* `EveryTriggerCounted`: the invariant `EveryTriggerAccountedFor`.

`TableIsExact` (the in-flight table names exactly the threads between their
registration and their removal, each under its own tenant) makes
`OneScaleUpPerTenant` inductive: a thread that becomes leader finds no entry, so
nobody else of its tenant is in the provider.  `NobodyStranded` needs that a
follower's leader is of the follower's tenant and has yet to publish; the table
gives it at the moment of joining.  The accounting is about cardinalities: a step
of one thread changes the set of threads with a trigger in hand by that thread
at most (`HandCounts`), enqueueing adds one copy and taking the head removes one
(`EnqueueCounts`, `DequeueCounts`, by a bijection of places), so the sum of the
five counters moves with `delivered`.  It needs that an idle thread holds
nothing and that finitely many threads hold something (`HandsOK`), since the set
of threads may be infinite.  Assumed is `DispatcherAssumption` (the null values
are not threads or triggers, each trigger has a tenant).

* `AnswersTrue` (`AnswersAreTrue`), `NoDuplicates` (`NoDuplicateUnlessRaced`) and
  `DispatchesOptedIn` (`DispatchesAreOptedIn`), of `IssueTracker`, for any number of
  callers, issues, lost and late requests and edits.

The invariant is `TrackerInv`.  Issues are only added and only evolve: what makes
two of them equal stays, the field of an epic too, and links are only added.  So
what `OpOK` says of an operation between two of its requests (a story is there, its
links are made but for those in `left`) survives what other callers and people do.
`PendingOK`: a creation past its search would make no duplicate unless its summary
is in `raced`; a write that lands, late or in time, puts every equal creation still
pending there.  The same is said of the requests still under way in the network
(`FreshWrite`); that is where a lost and retried creation is caught.  Assumed is
`IssueTrackerAssumption` (types).

### GatesAndIndexProofs

* `GatesInvariant`: `Spec => []IInv`, with `IInv` the conjunction of `TypeOK`,
  `CallOK` for every thread, `GateOK` for every gate and `ClearedByEntitled`;
* `EntitledClearance`, `CompleteSweep`, `FinalDecision`: the invariants
  `ClearedByEntitled` and `SweepIsComplete` and the action property
  `ActionedIsFinal`;
* `DeadlineLeavesTheSla`: what `add_business_days` computes;
* `RecordsInAgreement`: the invariant `RecordsAgree`.

`ClearedByEntitled` is not inductive alone: the mark trusts a check made earlier.
`CallOK` says that a thread about to mark is entitled, and stays so because
escalation flags and marks only grow (`Grows`): the authority it read was current
when it was called or later, so a call made after the escalation is the backup's, and
one under way when the escalation fires may be either's (the run `gate_escalation`
shows that); a gate's opening day does
not change once it exists, so the same argument carries what a sweep has already
passed.  `RecordsAgree` counts: an event is in the log, or one thread is on its
way to log it (`AuditExact`); a gate has a handle exactly if it is open, or the
thread that opens it has still to put one, or the thread that decided it has
still to delete it (`HandlesOK`).  `EscalatedAfterSla` rests on the calendar:
`add_business_days` walks day by day, and the walk's length is counted with
`DeadlineLeavesTheSla`, proved by the least counterexample (`LeastNumber`), since
the walk is a recursive function.  Assumed is `GatesAssumption` (the types of the
constants).

* `IndexFresh` (`IndexIsFresh`) and `LinksCurrent` (`LinksFollowRecords`), of
  `RepoIndex`, for any repository and history of commits, renames, resets, edits and
  failures of git.

The invariant is `IndexInv`.  `ReadOK` says of an operation under way that a file it
has read, and nobody has touched since it began, is recorded as it is, and that a
diff names every file in which the two commits differ; `RecordsOK`, that the files
the operation does not look at are those of the remembered commit.  At its end the
two meet.  `DerivedOK` gives links and ranking as functions of the records: a
refresh parses some of the files and links them all.  The hypothesis
`FirstIsRepository` is the type of the first tree: it gives each path a text, or no
file.

### AgentServicesProofs

* `FailoverThorough` (`FailoverIsThorough`), of `ModelCalls`.  `AttemptsInOrder`:
  the combinations before the current one in the rotated order have had all their
  attempts, those after it none; the rotation is complete, so at its end every
  combination was tried, wherever the preference lay.  `TrustsPreference`: the
  combination that answered last is the one a call starts with.
* `RecordedWorkReal` (`RecordedWorkIsReal`) and `FailedBatchClean`
  (`FailedBatchLeavesNothing`), of `ToolUse`, from `LoopInv`, with the exemptions
  `cut` and `leaky` of the events named there: kills, conflicts, and worktrees git
  would not create or remove.  `StageOK` says, for
  each stage of a call, where the edits of each loop are: in its tree and not yet
  committed, committed in its worktree, or on the run's branch.  Loops share nothing
  but the repository, so a step of one leaves the others' worktrees alone.  Why a
  merge left open by a conflict is never committed by a later subtask is the subtle
  part: a lone subtask would commit it.  The batch that is dispatched is a function
  of the record (`BatchOK`), the record does not change when a batch fails, so the
  same batch comes again, it is not a lone one, and its merges are refused
  (`ConflictOK`).  That there is one such batch rests on the plan's order.
* `NothingRunsAfterwards` (`NothingLeftRunning`) and `ToolCallsTrue`
  (`ToolCallsAreTrue`), of `Sandbox`, from `SandboxInv`.  A step moves one call and
  frames the others, which share the hooks and the two logs with it.  `InSubprocess`
  and `InContainer` say what may run or still be asked for in each place of a call: a
  request outlives the client that timed out, but it can only start a container that
  was not removed, and none is created twice; where docker would not remove it nothing
  is claimed.  From then on the command is told
  nothing more, so the decisions copied into the record are all it was told
  (`ToldOK`, `RecordedOK`).  The hooks do not change, so what a call has
  passed it has passed (`PassedOK`), and it is logged once (`LoggedOK`).

Assumed is `AgentServicesAssumption` (types; the ids of a plan are distinct; budgets
are positive).  The cap on turns plays no part in these invariants; that loops end
is left to `AgentCallsEnd`.

### SourceControlProofs

* `SourceControlTypes`, `RevokedStayOut` (`RevokedTokensStayOut`) and
  `OpenPrExact` (`OpenPrAnswersExact`).

`Clean(c, S)` says of a client and a set of tokens that none of them is in the
client's cache or on its way there in the thread that holds the cache's lock.
`StaysClean` is the central lemma: a step that does not put a token of S into
the hands of a fetch leaves `Clean(c, S)` true, and GitHub never mints a token
twice (`TokensMove`).  The eviction of the webhook waits for the lock, so at its
end the client is clean of all that was ended before; that is where the property
would fail if the lock were left out.  The shape of the table (`Shape`) counts the
threads about to make a client, because two may, and the second overwrites the
first.  `OpenOK` follows one request of `open_pr` from call to call.  Assumed is
`SourceControlAssumption`.

### PlatformAndCellProofs

Of `PlatformRelease`:

* `ReleaseInvariant`, `RollbacksAreReturns` (`RollbacksReturn`) and `GatedReleases`
  (`ReleasesAreGated`), for any number of managers, operations, kills and failures
  of tofu.

Each manager works from its own copy of the history, so nothing can be said of the
copy and the file being equal.  `MgrOK` says instead that a copy holds only
versions that were deployed at some time, which suffices for a rollback to go back
to one of them; deployments are only added, so it survives whatever the other
managers do (`MgrStays`).  That the file ends with what is deployed needs
`AgreeOK`: until two managers overlap, a record is made from a copy that is not the
file, an apply fails half way or a kill comes before the record, at most one
is between its apply and its record, and the record it is about to make is of what
is deployed.  For the gate, an operation that has not begun is not in the audit log
(`AuditOK`), so a number that a release takes has no failing report.  A pin is made
of the content hashed at the end of a promotion, which is the content validated at its
beginning or is in `moved` (`PinsOK`).  Assumed is
`PlatformReleaseAssumption`.

Of `TenantCell` and `VerificationPipeline`:

* `EligibleIsClean`: for every change, every set of files, tests and known failures,
  and every runner, what the layers let through is clean if the tools ran, and a
  runner that leaves a layer out lets nothing through.  Each
  layer has a lemma (`ExistingTestsSound`, `AcceptanceSound`, `SecuritySound`); the
  layers are the code's conditions, `Clean` says the result without them;
* `CellInvariant`: `CellSpec => []IInv`, with a conjunct for each group of variables;
* `QuestionsOutlive` (`QuestionsOutliveRaces`), `DrainInWindow` (`DrainFitsWindow`),
  `SoundVerdicts` (`VerdictsAreSound`) and `TrueBoard` (`BoardIsTrue`).

`RowOK`: a pointer is not newer than its row, so a checkpoint that lands on the
version of the warning replaces nothing that was asked later.  `BudgetOK`: the budget used
is the number of failures of the running process up to the budget's size; with that a
verdict and the count agree, also after an escalation was sent back.  The bound is one
of each process: a reclaim starts both again.  `WatcherOK` gives the events sent so far
by the watcher's step.  For the board, `Follows` relates two reads of the row: if the
earlier one saw the run elsewhere and the later one in development, it came back in
between, and the later one saw no fewer pointers.  `FetchedOK` says it of any two reads
the threads hold, of the recorded one and each of them, and of each and the row, so an
observation whose reads were recorded in order stays true (`SeenOK`) whichever thread
records next.  Assumed are
`TenantCellAssumption` and `VerificationAssumption`: types, and that a change's
fields have the values the tools can produce (`IsChange`).

### Only model-checked

Liveness under fairness (`DriveTerminates`, `EveryRequestAnswered`,
`RequestsAnswered`, `RepliesAreTaken`, `AgentCallsEnd`), which the prover does not
handle; and `ReferencesAreFound`, which compares what the index answers with what the
texts of the instance mean and so is about that data.  Every other property a passing run
checks is stated by a theorem.  Induction principles with an operator as
parameter are out of the prover's reach; where a recursive function matters
(the calendar), a least counterexample replaces them.

## 6. Where code and text disagree

Shown by a run:

* `orchestrator_stop`: "stop" is recorded before the run is abandoned
  (`core.py:343-346`); after a crash in between the run is driven on.
* `worker_lock`: the lock file is a local variable of the function that takes
  it (`jira_poll_run.py:442`), so the lock is released when that returns.
* `dispatcher_queue`: `retry_queued` pops a trigger before the dispatch that may raise
  (`dispatcher.py:147`), and then it is in no queue and no run; `tenant_queue.py:20`
  and `:146` say "queued, not dropped".  `EveryTriggerAccountedFor` counts it as
  `dropped`, and says that nothing else is.
* `gate_escalation`: the default approver clears a gate whose escalation fired between
  the read of the authority and the mark (`gate_service.py:120`, `:140`);
  `escalation.py:14` lets only the backup act on an escalated gate.
* `container_leak`: a container whose creation the daemon finishes after `docker rm`, or
  that `docker rm` fails on, stays (`docker_sandbox.py:329`); `:8-9` and `:327-328` say
  destroyed, never leaked.

Met while modelling, visible as behaviours of the modules:

* A pause is recognised by kind and stage (`_run_lib.py:527`): after an
  exception an applied reply is applied again, to the next checkpoint of the
  same stage, which lines 500 and 513 mean to exclude; hence the hypothesis of
  `ReplyExactWithoutFailures`.
* A finished run accepts a new attempt (`service.py:209`), which stays open for
  ever; `models.py:30` says a terminal run seals its attempt.
* `transition_stage` goes back to plan authoring without a new attempt;
  `stages.py:101` says the service decides that, but the constant is unused.
* No ready subtask is taken to mean that all are done (`core.py:535`): a plan
  with cyclic dependencies goes to verification unfinished.
* A fix-up grows the diff without any checkpoint (`core.py:555-575`);
  `checkpoints.py:86` says every subtask is checked.
* After a stuck question in verification, "continue" verifies the same code
  again and never reaches the fix-up (`core.py:464`).
* The signature of a stuck question is its count, so an old answer silences a
  later streak's third failure (`core.py:799`).
* `hard_stop` is reported and read nowhere (`checkpoints.py:236`).
* A question that could not be posted is recorded with no comment id, so older
  replies are read again and decide it (`jira_poll_run.py:166`); hence the
  hypothesis of `GateRepliesExact`.
* After a kill between the abandonment of a run and the removal of its record
  the next tick reports exit code 0 and moves the issue to done
  (`_run_lib.py:458`); hence the hypothesis of `DoneUnlessKilled`.
* A worktree that cannot be created raises SystemExit (`_run_lib.py:278`) and
  leaves the story without a word; hence the hypothesis of `NoStoryForgotten`.
* A change review is cleared by the one person who acts, who must own every file
  (`self_approval.py:85-146`); `codeowners.py:13-20` reads the rule as several
  reviewers who cover the files jointly.  `ClearedByEntitled` states the stricter rule
  of the code.
* The report of a failed start may fail, and its result is ignored
  (`jira_poll_run.py:400-408`): the story has left the trigger status and nobody is
  told, which the comment at 393-398 means to exclude; hence `bad["post"]` in
  `NoStoryForgotten`.
* A failed search raises SystemExit (`jira_poll_run.py:339`), which ends `--watch` for
  every pending story; the comment at 300-304 says that a transient failure must never
  do that.  Hence `running` in `RepliesAreTaken`.
* The comment on audit kinds (`audit.py:38`) lists "gate_cleared"; the code logs
  "gate_actioned" (`escalation.py:97`).
* At level L0 an approved plan is implemented (`_run_lib.py:424`);
  `autonomy.py:118` says L0 drafts plans only.

* The docstring of the fallback says every region of a model is tried before
  the next model (`bedrock_backend.py:551-553`); once a preference is set the
  list is rotated and starts inside a model, which is left before its first
  regions (`bedrock_backend.py:598-599`).
* `sandbox.py:19-22` has every execution record its egress decisions; the record of a
  subprocess has no field for them (`sandbox.py:196-206`).  `ToolCallsAreTrue` asks for
  them of a container only.
* A timeout of a subprocess kills the direct child (`sandbox.py:171-179`); what it
  started runs on.  `NothingLeftRunning` is about the command itself.
* `_was_resource_limited` says "True iff" and answers False when the inspection fails
  (`docker_sandbox.py:381`), so a kill for memory may go unflagged.
* A worktree that git will not remove raises WorktreeError after the merges
  (`tool_use_bedrock_backend.py:723-724`, `worktree.py:128-134`): the merged files are
  in no record and the remaining worktrees stay; hence `cut` and `leaky`.
* The watcher writes its own kind of checkpoint into the pointer that the
  orchestrator takes for a question (`interruption_watcher.py:199-204`,
  `core.py:193-195`): the pointer of an interrupted run makes `resume_run`
  fail on a question nobody asked.
* The comment on the watcher's last step (`interruption_watcher.py:192`) says it
  always runs; an exception of an earlier step passes it by (`StepRaises`).
* With `epic_link_mode` "customfield" the epic is written to a custom field
  (`jira_client.py:158-163`) and the search still asks for `parent` (`:467-468`): the
  story is never found, and a retry makes another, where the answer of a repeated
  creation is meant to be "no duplicate created" (`:148`);
  `services/issue-tracker/SETUP.md:103-108` describes that mode.  Hence `Searchable`.
* A story that exists is answered as `empty` by a second creation, without the
  links the first one may have failed to make (`jira_client.py:144-150`).
* A linter that does not start reports nothing and counts as a pass, against
  `layers/base.py:17-18`; so does a missing pytest, which exits with 1 and leaves no
  test case ("0/0"), against `existing_tests.py:84-87`; hence `ToolsRan` in
  `VerdictsAreSound`.
* The drive loop sends an escalated attempt back like any other
  (`core.py:462-463`), so loops after it end by the stuck question only, and the budget
  is one of each process, lost in a restart; `pipeline.py:6-12` says "never an infinite
  loop", `budgets.py:57-61` one instance for each story.
* Two requests of the dashboard may read and record in the other order
  (`dashboard_service.py:152-165`, `http_app.py:132`): a read recorded late makes a run
  look as if it came back, and counts its pointers again; hence `order` in
  `BoardIsTrue`.  A return from a change review between two polls that saw verification
  and implementation sets the badge of a failed one (`poll_state.py:110-112`); the
  module's docstring calls both fields approximations.
* A module version is pinned with the hash of the directory as it is after the
  validation (`module_versioning.py:249`), not of what was validated, which the comment
  at 61-66 promises; the recorded hash is compared nowhere, and a cell is checked by the
  names of its versions (`:290`).  Hence `moved` in `ReleasesAreGated`.
* A build asks for HEAD after it has parsed (`repo_index.py:117-122`): a commit in
  between leaves the files it changed stale until they change again, though
  line 8 has a refresh parse what changed since the last indexed commit.  A
  refresh reads HEAD first and makes up for it the next time.  Refreshing by
  hash leaves the remembered commit alone (`:161-176`).  Hence `off`.
* A refresh by diff indexes files in the directories a build ignores
  (`repo_index.py:145-153`, `:39`); hence `Ignored` in `IndexIsFresh`.
* `service.py:163` reports references as exhaustive; a use on the line of the
  definition and an alias of a re-exported name are missed; hence `Hidden`.
* The release history ends with what is deployed only while nobody else
  applies in between (`rollback.py:129`, `:176`); hence `disturbed`.

## 7. Not modelled

* Parts without control of their own: `kms-boundary` (two calls of KMS and a
  cipher), `mcp-stubs` and their clients (recorded answers, translation of calls),
  `observability` (append-only logs and sums), `evaluation-harness` (scores),
  `security-hardening` (tests of the others), `infra` (declarations).
* In the index-server, the parsing of source text, the scores of a search,
  summaries, ownership and the rate counter.
* The content of plans, prompts, diffs and documents; JWT and HMAC; the schemas
  of the MCP tools; research and packaging callbacks.
* In the tenant cell, model diversity, version governance, naming and the
  readiness mark (checks of a configuration); in the gates, batches of reviews
  and the pull-request gate; in source-control, worktrees of a local clone; in
  worktrees, the lease manager, which no program calls.
* Torn files, except those of the release manager: a kill during
  `jira_poll_run.py:114` leaves half a file that no later tick can read.
* Two drivers on one run (`core.py:457`: the last writer of the progress file
  wins), which the run-worker's lock was meant to exclude; a gate id opened
  twice, which nothing in the repository does.

Known weaknesses that no property states, because the code makes no claim:
a crash between the batch's save and its checkpoints skips them
(`core.py:615`), as do fix-ups (`core.py:555`); of several triggers only the
first is asked (`core.py:656`); the line ceiling of a one-file diff is three
times that of a two-file diff (`checkpoints.py:181`, see
`GrowthNeverClearsSize`); the wall clock at 100% stops nothing
(`checkpoints.py:236`); the dispatcher's queues are in memory
(`tenant_queue.py:154`) and nothing calls `retry_queued` (`dispatcher.py:146`);
a cold start that gives up leaves its node allocated; two rollbacks in a row
swap two versions; a checkout without tests passes the CI gate.

## 8. What could follow

The batching of reviews, whose clock is read before its lock; two drivers in
`Orchestrator`, with the last writer of the progress file winning; a statement of
`ReferencesAreFound` that does not depend on given texts, which needs a grammar of
imports and names to quantify over.
