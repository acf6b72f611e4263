----------------------------- MODULE RunWorker -----------------------------
(***************************************************************************)
(* The unattended worker (deploy/run-worker): it polls the tracker, starts *)
(* a run for a story, asks its questions in comments, and resumes the run  *)
(* when somebody replies.                                                  *)
(*                                                                         *)
(* What survives the process: the issue with its comments, the registry    *)
(* and stores of the run (one record here: stage and pending checkpoint),  *)
(* the file of pending decisions and the file of processed stories.  The   *)
(* drive loop is the one of Orchestrator, seen from outside: it moves on,  *)
(* asks, or raises.  Stories are the ones that opted in.  A comment's id   *)
(* is its position.                                                        *)
(***************************************************************************)
EXTENDS RunStages, Integers, Sequences, FiniteSetsExt

CONSTANTS
  Workers,     \* invocations of jira_poll_run.py
  Stories,
  Level,       \* the autonomy level, "L0" .. "L3"
  HighRisk,    \* the plan's cross_cutting_or_high_risk
  Watch,       \* TRUE: --watch; FALSE: one tick per invocation
  NoWorker, NoStory,
  MaxFaults,   \* bounds: how often each kind of fault happens
  MaxKinds,    \* bound: kinds of faults in one behaviour
  MaxReplies,  \* bound: reply comments on one issue
  MaxBack,     \* bound: times a human moves a story back to the trigger status
  MaxAsks,     \* bound: pauses of one run
  MaxLoops     \* bound: failed verifications of one run

FaultKinds == {"crash", "raise", "exit", "jira", "post"}

ASSUME WorkerAssumption ==
  /\ Level \in {"L0", "L1", "L2", "L3"}
  /\ HighRisk \in BOOLEAN /\ Watch \in BOOLEAN
  /\ NoWorker \notin Workers /\ NoStory \notin Stories
  /\ MaxFaults \in [FaultKinds -> Nat]
  /\ {MaxKinds, MaxReplies, MaxBack, MaxAsks, MaxLoops} \subseteq Nat

VARIABLES
  issue,      \* story -> status and comments
  runs,       \* the runs, in the order they were started
  pending,    \* jira_pending_decisions.json: story -> record
  processed,  \* jira_processed.json
  worker,     \* worker -> where it is and what it holds in memory
  lock,       \* the worker that holds the file lock
  bad,        \* faults so far, by kind
  back,       \* times a story was moved back
  told,       \* story -> outcomes reported since its last pickup
  applied     \* decisions taken from replies: for which pause written, to which applied

vars == <<issue, runs, pending, processed, worker, lock, bad, back, told, applied>>

GATES == {PLAN_APPROVAL_GATE, CHANGE_REVIEW_GATE}

NoRecord == [run |-> 0, kind |-> "none", stage |-> INTAKE, seen |-> 0]

NoPause == [run |-> 0, no |-> 0]

Off ==
  [pc |-> "off", todo |-> {}, from |-> "poll", story |-> NoStory, run |-> 0,
   record |-> NoRecord, then |-> "loop", word |-> "none", about |-> NoPause,
   seen |-> 0, exit |-> 0]

Init ==
  /\ issue = [s \in Stories |-> [status |-> "trigger", comments |-> <<>>]]
  /\ runs = <<>>
  /\ pending = [s \in Stories |-> NoRecord]
  /\ processed = {}
  /\ worker = [w \in Workers |-> Off]
  /\ lock = NoWorker
  /\ bad = [k \in FaultKinds |-> 0]
  /\ back = 0
  /\ told = [s \in Stories |-> {}]
  /\ applied = {}

-----------------------------------------------------------------------------
(* The pause of a run, as RunStatus reports it.                            *)

pause_kind(r) ==
  IF r.question = "pending" THEN "checkpoint"
  ELSE IF r.stage \in GATES THEN "gate" ELSE "none"

paused(r) == pause_kind(r) # "none"

over(r) == r.stage \in TERMINAL_STAGES

\* services/gates: who must decide at a gate, by autonomy level.
requires_plan_approval_gate == Level \in {"L0", "L1"} \/ (Level = "L2" /\ HighRisk)

requires_change_review_gate == Level = "L1"

\* drive() approves this pause itself.
auto_approved(r) ==
  /\ pause_kind(r) = "gate"
  /\ \/ r.stage = PLAN_APPROVAL_GATE /\ ~requires_plan_approval_gate
     \/ r.stage = CHANGE_REVIEW_GATE /\ ~requires_change_review_gate

\* Mutant: only the kind of the pause is compared.
same_pause_kind_only(r, record) == pause_kind(r) = record.kind

\* The run is still at the pause the reply was recorded against.
same_pause(r, record) == pause_kind(r) = record.kind /\ r.stage = record.stage

Run(w) == runs[worker[w].run]

Fault(k) ==
  /\ bad[k] < MaxFaults[k]
  /\ Cardinality({j \in FaultKinds \ {k} : bad[j] > 0}) < MaxKinds
  /\ bad' = [bad EXCEPT ![k] = @ + 1]

goto(w, pc) == worker' = [worker EXCEPT ![w].pc = pc]

\* Back to the loop that the worker came from, without what it held.
done_with(w) ==
  worker' = [worker EXCEPT ![w] =
    IF @.from = "check" THEN [Off EXCEPT !.pc = "replies", !.todo = worker[w].todo]
    ELSE [Off EXCEPT !.pc = "over"]]

-----------------------------------------------------------------------------
(* main, _acquire_lock_or_exit.                                            *)

AcquireLock(w) ==
  /\ worker[w].pc = "off"
  /\ lock = NoWorker
  /\ lock' = w
  /\ goto(w, "locked")
  /\ UNCHANGED <<issue, runs, pending, processed, bad, back, told, applied>>

\* The function returns: lock_file is a local variable, so the file object goes
\* with it, the file is closed and the flock is gone.
ReturnFromAcquire(w) ==
  /\ worker[w].pc = "locked"
  /\ lock' = NoWorker
  /\ goto(w, "tick")
  /\ UNCHANGED <<issue, runs, pending, processed, bad, back, told, applied>>

-----------------------------------------------------------------------------
(* _check_pending_decisions.                                               *)

BeginTick(w) ==
  /\ worker[w].pc = "tick"
  /\ worker' = [worker EXCEPT ![w] =
       [Off EXCEPT !.pc = "replies",
          !.todo = {<<s, pending[s]>> : s \in {t \in Stories : pending[t] # NoRecord}}]]
  /\ UNCHANGED <<issue, runs, pending, processed, lock, bad, back, told, applied>>

\* The comments after the last one seen whose whole body is a decision word.
new_replies(s, record) ==
  {i \in DOMAIN issue[s].comments :
     i > record.seen /\ issue[s].comments[i].word \in {"yes", "no"}}

\* Mutant: a reply from the account of the worker itself is left out.
ReadReplies_other_authors(w) ==
  /\ worker[w].pc = "replies"
  /\ \E p \in worker[w].todo : worker' = [worker EXCEPT ![w].todo = @ \ {p}]
  /\ UNCHANGED <<issue, runs, pending, processed, lock, bad, back, told, applied>>

\* The most recent reply wins; without one the story waits for the next tick.
ReadReplies(w) ==
  /\ worker[w].pc = "replies"
  /\ \E p \in worker[w].todo :
       LET s == p[1]
           new == new_replies(s, p[2])
           rest == worker[w].todo \ {p}
       IN  worker' = [worker EXCEPT ![w] =
             IF new = {} THEN [@ EXCEPT !.todo = rest]
             ELSE LET c == issue[s].comments[Max(new)]
                  IN  [Off EXCEPT !.pc = "resume", !.todo = rest, !.from = "check",
                         !.story = s, !.run = p[2].run, !.record = p[2],
                         !.then = "match", !.word = c.word, !.about = c.about]]
  /\ UNCHANGED <<issue, runs, pending, processed, lock, bad, back, told, applied>>

ListCommentsFails(w) ==
  /\ worker[w].pc = "replies"
  /\ Fault("jira")
  /\ \E p \in worker[w].todo : worker' = [worker EXCEPT ![w].todo = @ \ {p}]
  /\ UNCHANGED <<issue, runs, pending, processed, lock, back, told, applied>>

EndReplies(w) ==
  /\ worker[w].pc = "replies"
  /\ worker[w].todo = {}
  /\ goto(w, "poll")
  /\ UNCHANGED <<issue, runs, pending, processed, lock, bad, back, told, applied>>

\* resume_paused_run_async: the same branch and worktree, then resume_run.
Resume(w) ==
  /\ worker[w].pc = "resume"
  /\ goto(w, "drive")
  /\ UNCHANGED <<issue, runs, pending, processed, lock, bad, back, told, applied>>

-----------------------------------------------------------------------------
(* _poll_once.                                                             *)

candidate(s) ==
  issue[s].status = "trigger" /\ s \notin processed /\ pending[s] = NoRecord

\* The pickup transition may fail; the run is started all the same.
Pickup(w) ==
  /\ worker[w].pc = "poll"
  /\ \E s \in Stories :
       /\ candidate(s)
       /\ \/ issue' = [issue EXCEPT ![s].status = "approval"] /\ UNCHANGED bad
          \/ Fault("jira") /\ UNCHANGED issue
       /\ told' = [told EXCEPT ![s] = {}]
       /\ worker' = [worker EXCEPT ![w] = [Off EXCEPT !.pc = "build", !.story = s]]
  /\ UNCHANGED <<runs, pending, processed, lock, back, applied>>

\* No candidate, or get_issue fails for each.
NothingNew(w) ==
  /\ worker[w].pc = "poll"
  /\ \/ ~(\E s \in Stories : candidate(s)) /\ UNCHANGED bad
     \/ Fault("jira")
  /\ goto(w, "over")
  /\ UNCHANGED <<issue, runs, pending, processed, lock, back, told, applied>>

\* start_run_async: branch, worktree, create_run.
StartRun(w) ==
  /\ worker[w].pc = "build"
  /\ runs' = Append(runs, [story |-> worker[w].story, stage |-> INTAKE,
                           question |-> "none", no |-> 0, loops |-> 0])
  /\ worker' = [worker EXCEPT ![w].pc = "drive", ![w].run = Len(runs) + 1]
  /\ UNCHANGED <<issue, pending, processed, lock, bad, back, told, applied>>

\* SystemExit: the search fails, or the worktree cannot be created.  It is not
\* an Exception, so nothing catches it and the process ends.
Exit(w) ==
  /\ worker[w].pc \in {"poll", "build"}
  /\ Fault("exit")
  /\ worker' = [worker EXCEPT ![w] = Off]
  /\ UNCHANGED <<issue, runs, pending, processed, lock, back, told, applied>>

EndTick(w) ==
  /\ worker[w].pc = "over"
  /\ worker' = [worker EXCEPT ![w] = IF Watch THEN [Off EXCEPT !.pc = "tick"] ELSE Off]
  /\ UNCHANGED <<issue, runs, pending, processed, lock, bad, back, told, applied>>

-----------------------------------------------------------------------------
(* The orchestrator under the worker: _drive and its entry points.         *)

set_run(w, r) == runs' = [runs EXCEPT ![worker[w].run] = r]

driving(w) == worker[w].pc = "drive" /\ ~paused(Run(w)) /\ ~over(Run(w))

\* The drive loop enters the next stage.
Work(w) ==
  LET r == Run(w)
  IN  /\ driving(w)
      /\ \E s \in ALL_STAGES :
           LET again == <<r.stage, s>> = <<VERIFICATION, IMPLEMENTATION>>
           IN  /\ <<r.stage, s>> \in LEGAL_TRANSITIONS
               /\ again => r.loops < MaxLoops
               /\ set_run(w, [r EXCEPT !.stage = s,
                                !.no = IF s \in GATES THEN @ + 1 ELSE @,
                                !.loops = IF again THEN @ + 1 ELSE @])
      /\ UNCHANGED <<issue, pending, processed, worker, lock, bad, back, told, applied>>

\* A checkpoint is written to the registry row.
Ask(w) ==
  /\ driving(w)
  /\ Run(w).stage \in {IMPLEMENTATION, VERIFICATION}
  /\ Run(w).no < MaxAsks
  /\ set_run(w, [Run(w) EXCEPT !.question = "pending", !.no = @ + 1])
  /\ UNCHANGED <<issue, pending, processed, worker, lock, bad, back, told, applied>>

\* resume_run has returned: the recorded decision is for this pause, or it is
\* left alone.
Match(w) ==
  /\ worker[w].pc = "drive" /\ worker[w].then = "match" /\ ~driving(w)
  /\ IF same_pause(Run(w), worker[w].record)
       THEN worker' = [worker EXCEPT ![w].pc = "apply", ![w].then = "loop"]
       ELSE worker' = [worker EXCEPT ![w].then = "loop", ![w].word = "none"]
  /\ UNCHANGED <<issue, runs, pending, processed, lock, bad, back, told, applied>>

\* The loop of drive(): the run is over, its pause is approved, or a human is
\* asked.
Loop(w) ==
  /\ worker[w].pc = "drive" /\ worker[w].then = "loop" /\ ~driving(w)
  /\ worker' = [worker EXCEPT ![w] =
       IF over(Run(w)) THEN [@ EXCEPT !.pc = "finish", !.exit = 0]
       ELSE IF auto_approved(Run(w)) THEN [@ EXCEPT !.pc = "apply", !.word = "auto"]
       ELSE [@ EXCEPT !.pc = "post"]]
  /\ UNCHANGED <<issue, runs, pending, processed, lock, bad, back, told, applied>>

\* approve_plan, approve_change_review, resolve_checkpoint with the decision
\* that the word stands for at this kind of pause.
Apply(w) ==
  LET r == Run(w)
      kind == pause_kind(r)
      word == worker[w].word
      here == [run |-> worker[w].run, no |-> r.no]
  IN  /\ worker[w].pc = "apply"
      /\ CASE kind = "checkpoint" ->
                 /\ set_run(w, [r EXCEPT !.question = "none"])
                 /\ goto(w, IF word = "no" THEN "stop" ELSE "drive")
           [] kind = "gate" /\ word = "no" ->
                 /\ set_run(w, [r EXCEPT !.stage = ABANDONED])
                 /\ worker' = [worker EXCEPT ![w].pc = "finish", ![w].exit = 1]
           [] OTHER ->
                 /\ set_run(w, [r EXCEPT !.stage = IF @ = PLAN_APPROVAL_GATE
                                                    THEN IMPLEMENTATION ELSE PACKAGING])
                 /\ goto(w, "drive")
      /\ applied' = IF word = "auto" THEN applied
                    ELSE applied \cup {[kind |-> kind, to |-> here, about |-> worker[w].about]}
      /\ UNCHANGED <<issue, pending, processed, lock, bad, back, told>>

\* resolve_checkpoint with "stop": the second write.
Stop(w) ==
  /\ worker[w].pc = "stop"
  /\ set_run(w, [Run(w) EXCEPT !.stage = ABANDONED])
  /\ worker' = [worker EXCEPT ![w].pc = "finish", ![w].exit = 1]
  /\ UNCHANGED <<issue, pending, processed, lock, bad, back, told, applied>>

\* An exception of the backend, the registry or GitHub, caught by the worker:
\* a resumed run keeps its record, a new one is to be reported on its issue.
Raise(w) ==
  /\ worker[w].pc \in {"resume", "build", "apply", "stop"} \/ driving(w)
  /\ Fault("raise")
  /\ IF worker[w].from = "check" THEN done_with(w) ELSE goto(w, "report")
  /\ UNCHANGED <<issue, runs, pending, processed, lock, back, told, applied>>

\* The comment that reports the exception.  Nothing looks at its result: when it
\* fails, the story has left the trigger status and nobody was told.
ReportError(w) ==
  /\ worker[w].pc = "report"
  /\ \/ told' = [told EXCEPT ![worker[w].story] = @ \cup {"error"}] /\ UNCHANGED bad
     \/ Fault("post") /\ UNCHANGED told
  /\ done_with(w)
  /\ UNCHANGED <<issue, runs, pending, processed, lock, back, applied>>

-----------------------------------------------------------------------------
(* _on_pause, _finish_issue and the two files.                             *)

question_comment(w) ==
  [word |-> "question", about |-> [run |-> worker[w].run, no |-> Run(w).no]]

with_question(w) ==
  [issue EXCEPT ![worker[w].story].comments = Append(@, question_comment(w))]

PostQuestion(w) ==
  /\ worker[w].pc = "post"
  /\ issue' = with_question(w)
  /\ worker' = [worker EXCEPT ![w].pc = "save",
                              ![w].seen = Len(issue[worker[w].story].comments) + 1]
  /\ UNCHANGED <<runs, pending, processed, lock, bad, back, told, applied>>

\* The post fails, or its answer is lost: last_seen_comment_id is None, read
\* back as -1, before every comment.
PostFails(w) ==
  /\ worker[w].pc = "post"
  /\ Fault("post")
  /\ issue' \in {issue, with_question(w)}
  /\ worker' = [worker EXCEPT ![w].pc = "save", ![w].seen = 0]
  /\ UNCHANGED <<runs, pending, processed, lock, back, told, applied>>

SavePending(w) ==
  /\ worker[w].pc = "save"
  /\ pending' = [pending EXCEPT ![worker[w].story] =
       [run |-> worker[w].run, kind |-> pause_kind(Run(w)), stage |-> Run(w).stage,
        seen |-> worker[w].seen]]
  /\ done_with(w)
  /\ UNCHANGED <<issue, runs, processed, lock, bad, back, told, applied>>

after_finish(w) == IF worker[w].from = "check" THEN "pop" ELSE "mark"

\* Exit code 0 moves the issue to done or, when that fails, comments on it; exit
\* code 1 comments and leaves it where it is.  The comment may fail as well.
FinishIssue(w) ==
  LET s == worker[w].story
      done == worker[w].exit = 0
  IN  /\ worker[w].pc = "finish"
      /\ \/ /\ done
            /\ issue' = [issue EXCEPT ![s].status = "done"]
            /\ told' = [told EXCEPT ![s] = @ \cup {"done"}]
            /\ UNCHANGED bad
         \/ /\ IF done THEN Fault("jira") ELSE UNCHANGED bad
            /\ told' = [told EXCEPT ![s] = @ \cup {IF done THEN "done" ELSE "abandoned"}]
            /\ UNCHANGED issue
         \/ Fault("post") /\ UNCHANGED <<issue, told>>
      /\ goto(w, after_finish(w))
      /\ UNCHANGED <<runs, pending, processed, lock, back, applied>>

\* Mutant: the record stays.
PopPending_keeps(w) ==
  /\ worker[w].pc = "pop"
  /\ goto(w, "mark")
  /\ UNCHANGED <<issue, runs, pending, processed, lock, bad, back, told, applied>>

PopPending(w) ==
  /\ worker[w].pc = "pop"
  /\ pending' = [pending EXCEPT ![worker[w].story] = NoRecord]
  /\ goto(w, "mark")
  /\ UNCHANGED <<issue, runs, processed, lock, bad, back, told, applied>>

MarkProcessed(w) ==
  /\ worker[w].pc = "mark"
  /\ processed' = processed \cup {worker[w].story}
  /\ done_with(w)
  /\ UNCHANGED <<issue, runs, pending, lock, bad, back, told, applied>>

-----------------------------------------------------------------------------
(* The surroundings.                                                       *)

\* The process is killed.
Crash(w) ==
  /\ worker[w].pc # "off"
  /\ Fault("crash")
  /\ worker' = [worker EXCEPT ![w] = Off]
  /\ lock' = IF lock = w THEN NoWorker ELSE lock
  /\ UNCHANGED <<issue, runs, pending, processed, back, told, applied>>

questions(s) ==
  {i \in DOMAIN issue[s].comments : issue[s].comments[i].word = "question"}

\* A human answers the last question on the issue, or changes their mind.
Reply(s, word) ==
  /\ questions(s) # {}
  /\ Len(issue[s].comments) - Cardinality(questions(s)) < MaxReplies
  /\ issue' = [issue EXCEPT ![s].comments =
       Append(@, [word |-> word, about |-> @[Max(questions(s))].about])]
  /\ UNCHANGED <<runs, pending, processed, worker, lock, bad, back, told, applied>>

\* A human moves the story back to be picked up once more.
MoveBack(s) ==
  /\ issue[s].status # "trigger"
  /\ back < MaxBack
  /\ back' = back + 1
  /\ issue' = [issue EXCEPT ![s].status = "trigger"]
  /\ UNCHANGED <<runs, pending, processed, worker, lock, bad, told, applied>>

-----------------------------------------------------------------------------
WorkerStep(w) ==
  \/ ReturnFromAcquire(w) \/ BeginTick(w)
  \/ ReadReplies(w) \/ ListCommentsFails(w) \/ EndReplies(w) \/ Resume(w)
  \/ Pickup(w) \/ NothingNew(w) \/ StartRun(w) \/ EndTick(w)
  \/ Work(w) \/ Ask(w) \/ Match(w) \/ Loop(w) \/ Apply(w) \/ Stop(w)
  \/ Raise(w) \/ ReportError(w)
  \/ PostQuestion(w) \/ PostFails(w) \/ SavePending(w)
  \/ FinishIssue(w) \/ PopPending(w) \/ MarkProcessed(w)

Next ==
  \/ \E w \in Workers : AcquireLock(w) \/ WorkerStep(w) \/ Exit(w) \/ Crash(w)
  \/ \E s \in Stories : MoveBack(s) \/ \E word \in {"yes", "no"} : Reply(s, word)

Spec == Init /\ [][Next]_vars

\* A worker that runs goes on: it is one thread, and its calls return or raise.
\* Nothing starts a worker again that has ended.
FairSpec == Spec /\ \A w \in Workers : WF_vars(WorkerStep(w))

-----------------------------------------------------------------------------
(* Properties.                                                             *)

PauseId == [run : Nat, no : Nat]

RecordType ==
  [run : Nat, kind : {"none", "gate", "checkpoint"}, stage : ALL_STAGES, seen : Nat]

\* Every variable has its type; a record points to a run and to a comment of
\* its story.
TypeOK ==
  /\ \A s \in Stories :
       /\ issue[s].status \in {"trigger", "approval", "done"}
       /\ \A i \in DOMAIN issue[s].comments :
            issue[s].comments[i] \in [word : {"question", "yes", "no"}, about : PauseId]
  /\ \A i \in DOMAIN runs :
       runs[i] \in [story : Stories, stage : ALL_STAGES, question : {"none", "pending"},
                    no : Nat, loops : Nat]
  /\ pending \in [Stories -> RecordType]
  /\ \A s \in Stories : pending[s] # NoRecord =>
       pending[s].run \in DOMAIN runs /\ pending[s].seen <= Len(issue[s].comments)
  /\ processed \subseteq Stories
  /\ lock \in Workers \cup {NoWorker}

runs_of(s) == {i \in DOMAIN runs : runs[i].story = s}

\* A story that waits for a decision is not started again: its record is of its
\* latest run, whatever was interrupted and whatever humans do to the issue.
PendingIsLatestRun ==
  \A s \in Stories : pending[s] # NoRecord => pending[s].run = Max(runs_of(s))

\* A processed story is done with: its latest run has ended and nothing waits.
ProcessedIsOver ==
  \A s \in processed : pending[s] = NoRecord /\ over(runs[Max(runs_of(s))])

\* What the replies were for agrees with what they were applied to.
applied_exactly(kinds) == \A a \in applied : a.kind \in kinds => a.about = a.to

\* A gate is decided by a reply that was written for this gate of this run,
\* across kills, exceptions, repeated replies and failed reads.  Only a question
\* that could not be posted lets an older reply in (last_seen_comment_id None).
GateRepliesExact == bad["post"] = 0 => applied_exactly({"gate"})

\* resume_paused_run_async: the decision applies only at the exact pause it was
\* given for, never to a later one the human did not see.
ReplyAnswersItsQuestion == applied_exactly({"gate", "checkpoint"})

\* While nothing has failed between a reply and its pause, every reply answers
\* the question it was written for, checkpoints of one stage included.
ReplyExactWithoutFailures ==
  (\A k \in {"crash", "raise", "post"} : bad[k] = 0) => ReplyAnswersItsQuestion

\* An issue is moved to done only on a genuine completion (_finish_issue).
DoneMeansCompleted ==
  \A s \in Stories : issue[s].status = "done" =>
    \E i \in runs_of(s) : runs[i].stage = COMPLETED

\* No exception, failed call or exit puts an issue in done whose run was
\* abandoned; it takes a kill between the abandonment and the report.
DoneUnlessKilled == bad["crash"] = 0 => DoneMeansCompleted

\* A story that was picked up is not left without an explanation, whatever
\* raises: someone works on it, it waits for a reply, or its outcome or error
\* was reported.  Three faults leave one silent: a kill, SystemExit, and a report
\* that fails itself, which nothing repeats (jira_poll_run.py:400-408).
NoStoryForgotten ==
  (\A k \in {"crash", "exit", "post"} : bad[k] = 0) =>
    \A s \in Stories : issue[s].status = "approval" =>
      \/ pending[s] # NoRecord \/ told[s] # {}
      \/ \E w \in Workers : worker[w].story = s

\* The worker's files and the issue agree with the runs, across kills and
\* failed calls (jira_poll_run.py): a waiting story is not started again, a
\* processed one is over, done means completed, and a story is left silent only
\* by a kill, an exit or a lost report.
FilesMatchRuns ==
  /\ TypeOK /\ PendingIsLatestRun /\ ProcessedIsOver
  /\ DoneUnlessKilled /\ NoStoryForgotten

\* A reply decides the question it was written for (_run_lib.py:493-551): a
\* gate's always, a checkpoint's while nothing failed in between.
RepliesDecideTheirQuestion == GateRepliesExact /\ ReplyExactWithoutFailures

\* No two instances run against the same data directory.
OneInstance ==
  \A v, w \in Workers :
    v # w => worker[v].pc \in {"off", "locked"} \/ worker[w].pc \in {"off", "locked"}

answered(s) == pending[s] # NoRecord /\ new_replies(s, pending[s]) # {}

running == \E w \in Workers : worker[w].pc # "off"

\* A reply is acted upon by a worker that keeps running, whatever raised or failed
\* on the way: in the end the record is gone or is of a later pause, or the worker
\* has ended (a kill, or the SystemExit of a failed search), which leaves every
\* reply to whoever starts the next one.
RepliesAreTaken ==
  \A s \in Stories : (answered(s) /\ running) ~> (~answered(s) \/ ~running)
=============================================================================
