------------------------- MODULE OrchestratorProofs -------------------------
(***************************************************************************)
(* Theorems about Orchestrator with one driver at a time: for every plan,  *)
(* every budget and any number of crashes and human decisions, work is     *)
(* sanctioned, questions are asked in time, no step decides past a         *)
(* question or loses work, and the drive loop implements RunLifecycle.     *)
(***************************************************************************)
EXTENDS Orchestrator, FiniteSetTheorems, WellFoundedInduction, NaturalsInduction, TLAPS

Early == {INTAKE, RESEARCH, PLAN_AUTHORING, PLAN_APPROVAL_GATE}

Working == {IMPLEMENTATION, VERIFICATION}

\* No unfinished subtask is ready.
Exhausted(done) == \A st \in SubtaskIds : ~ready(st, done)

Closed(done) == \A st \in done : DependsOn[st] \subseteq done

\* What a batch recorded in one step must be.
BatchOK(batch) ==
  Cardinality(batch) > 1 =>
    /\ batch \subseteq Contracted
    /\ \A s, t \in batch : RawGroup[s] = RawGroup[t]

\* Progress q has all that progress p has.
Extends(q, p) ==
  /\ p.done \subseteq q.done /\ p.files \subseteq q.files /\ p.lines <= q.lines
  /\ q.acked = p.acked

-----------------------------------------------------------------------------
(* The inductive invariant, part one: the row, the plan and the progress.  *)

RunOK ==
  /\ pending_checkpoint(run) => run.stage \in Working
  /\ progress.status = "none" => progress = NoProgress
  /\ run.stage \in Early => progress.status = "none"
  /\ run.stage \in {PLAN_APPROVAL_GATE} \cup PostApproval => plan.version # 0
  /\ run.stage \in PostApproval \ {IMPLEMENTATION} =>
       progress.status = "saved" /\ Exhausted(progress.done)
  /\ Closed(progress.done)
  /\ pending_checkpoint(run) => progress.status = "saved"

-----------------------------------------------------------------------------
(* Part two: what a driver at each place relies on.                        *)

\* The stage changes a driver may be about to make, and where it goes on.
Routes ==
  {<<INTAKE, RESEARCH, "drive">>, <<RESEARCH, PLAN_AUTHORING, "drive">>,
   <<PLAN_AUTHORING, PLAN_APPROVAL_GATE, "idle">>,
   <<PLAN_APPROVAL_GATE, IMPLEMENTATION, "fresh">>,
   <<IMPLEMENTATION, VERIFICATION, "drive">>,
   <<VERIFICATION, CHANGE_REVIEW_GATE, "idle">>,
   <<VERIFICATION, IMPLEMENTATION, "drive">>,
   <<CHANGE_REVIEW_GATE, PACKAGING, "drive">>,
   <<CHANGE_REVIEW_GATE, IMPLEMENTATION, "drive">>,
   <<PACKAGING, RETROSPECTIVE, "drive">>, <<RETROSPECTIVE, COMPLETED, "idle">>}

Abandons ==
  {<<s, ABANDONED, "idle">> :
     s \in {PLAN_APPROVAL_GATE, CHANGE_REVIEW_GATE, IMPLEMENTATION, VERIFICATION}}

MoveOK(me) ==
  me.pc = "move" =>
    /\ <<run.stage, me.target, me.then>> \in Routes \cup Abandons
    /\ ~pending_checkpoint(run)
    /\ me.target = PLAN_APPROVAL_GATE => plan.version # 0
    /\ run.stage = PLAN_APPROVAL_GATE /\ me.target = IMPLEMENTATION =>
         seen.approvedPlan = plan.version
    /\ me.target = VERIFICATION =>
         progress.status = "saved" /\ Exhausted(progress.done)
    /\ me.target = CHANGE_REVIEW_GATE => seen.verified = Diff(progress)
    /\ me.target = PACKAGING => seen.reviewed = Diff(progress)

SaveBatchOK(me) ==
  me.pc = "save_batch" =>
    /\ run.stage = IMPLEMENTATION /\ ~pending_checkpoint(run)
    /\ progress.status = "saved" /\ me.prog.status = "saved"
    /\ Extends(me.prog, progress) /\ me.prog.fails = 0
    /\ Closed(me.prog.done)
    /\ BatchOK(me.prog.done \ progress.done)
    /\ me.outcome \in {"verify", "continue"}
    /\ me.outcome = "verify" => Exhausted(me.prog.done)

SaveFailureOK(me) ==
  me.pc = "save_failure" =>
    /\ ~pending_checkpoint(run)
    /\ progress.status = "saved" /\ me.prog.status = "saved"
    /\ Diff(me.prog) = Diff(progress) /\ me.prog.acked = progress.acked
    /\ me.prog.fails = progress.fails + 1
    /\ <<run.stage, me.outcome>> \in {<<IMPLEMENTATION, "continue">>, <<VERIFICATION, "retry">>}

SaveOK(me) ==
  me.pc = "save" =>
    /\ ~pending_checkpoint(run)
    /\ progress.status = "saved" /\ me.prog.status = "saved"
    /\ Extends(me.prog, progress) /\ me.prog.done = progress.done
    /\ me.prog.fails \in {0, progress.fails}
    /\ Exhausted(progress.done)
    /\ \/ run.stage = IMPLEMENTATION /\ me.outcome = "verify"
       \/ /\ run.stage = VERIFICATION /\ me.outcome = "passed"
          /\ Diff(me.prog) = Diff(progress) /\ seen.verified = Diff(progress)

ReloadOK(me) ==
  me.pc = "reload" =>
    /\ pending_checkpoint(run) => me.outcome = "paused"
    /\ me.outcome \in {"continue", "verify", "passed", "retry", "paused"}
    /\ me.outcome = "passed" => run.stage = VERIFICATION /\ seen.verified = Diff(progress)
    /\ me.outcome = "retry" => run.stage = VERIFICATION
    /\ me.outcome = "verify" =>
         /\ run.stage = IMPLEMENTATION
         /\ progress.status = "saved" /\ Exhausted(progress.done)
    /\ me.outcome = "continue" => run.stage = IMPLEMENTATION
    /\ me.outcome = "paused" => run.stage \in Working

\* The question about n failures in a row.
stuck(n) == Trigger("stuck", 0, 0, {}, n)

AskOK(me) ==
  me.pc = "ask" =>
    /\ run.stage \in Working /\ ~pending_checkpoint(run)
    /\ progress.status = "saved"
    /\ me.trigger.kind = "stuck" =>
         me.trigger = stuck(progress.fails) /\ me.trigger \notin progress.acked

PlaceOK(me) ==
  /\ me.pc # "idle" => me.run = run
  /\ pending_checkpoint(run) => me.pc \in {"idle", "drive", "resolve", "reload"}
  /\ me.pc = "fresh" => run.stage = IMPLEMENTATION /\ progress.status = "none"
  /\ me.pc = "new_attempt" => run.stage = PLAN_APPROVAL_GATE
  /\ me.pc = "replan" => run.stage = PLAN_AUTHORING
  /\ me.pc = "resolve" => pending_checkpoint(run) /\ me.decision # "none"
  /\ me.pc \in {"ack", "widen"} => run.stage \in Working /\ progress.status = "saved"

DriverOK(me) ==
  /\ PlaceOK(me) /\ MoveOK(me) /\ AskOK(me) /\ ReloadOK(me)
  /\ SaveBatchOK(me) /\ SaveFailureOK(me) /\ SaveOK(me)

-----------------------------------------------------------------------------
(* Part three: the count of failures.                                      *)

StuckAcked(p) == {t \in p.acked : t.kind = "stuck"}

\* The failures in a row the answers and crashes so far make room for.
Room == DEFAULT_STUCK_RETRY_BUDGET + crashes + Cardinality(StuckAcked(progress))

\* A stuck question about the current failures is being asked, or the run ends.
Excused(me) ==
  \/ me.pc = "ask" /\ me.trigger.kind = "stuck"
  \/ (pending_checkpoint(run) \/ me.pc = "ack") /\ run.ptr.trigger.kind = "stuck"
  \/ me.pc = "move" /\ me.target = ABANDONED
  \/ run.stage = ABANDONED

FailuresOK(me) ==
  /\ IsFiniteSet(progress.acked)
  /\ progress.fails <= Room
  /\ \A t \in StuckAcked(progress) : t.fails < Room
  /\ progress.fails < Room \/ Excused(me)
  /\ (pending_checkpoint(run) \/ me.pc = "ack") /\ run.ptr.trigger.kind = "stuck" =>
       run.ptr.trigger = stuck(progress.fails) /\ run.ptr.trigger \notin progress.acked

\* A driver at rest after no crash has left the run to a human.
RestOK(me) ==
  me.pc = "idle" /\ crashes = 0 /\ run.version > 1 =>
    \/ run.stage \in TERMINAL_STAGES \cup {PLAN_APPROVAL_GATE, CHANGE_REVIEW_GATE}
    \/ pending_checkpoint(run)

IInv ==
  /\ TypeOK /\ RunOK /\ ApprovedPlanOnly /\ ReviewedDiffWasVerified
  /\ \A d \in Drivers : DriverOK(drv[d]) /\ FailuresOK(drv[d]) /\ RestOK(drv[d])

-----------------------------------------------------------------------------
(* The operators of the model.                                             *)

\* A nonempty set of places has a first one (_next_subtask, triggers[0]).
LEMMA FirstIsLeast ==
  ASSUME NEW S \in SUBSET Nat, S # {}
  PROVE  First(S) \in S
  <1>1. PICK i \in S : \A j \in S : <<j, i>> \notin OpToRel(<, Nat)
    BY WFMin, NatLessThanWellFounded, Zenon
  <1>2. \A j \in S : ~(j < i)
    BY <1>1, Zenon DEF OpToRel
  <1>3. \E k \in S : \A j \in S : k <= j
    BY <1>2
  <1>. QED BY <1>3 DEF First

\* A plan has finitely many subtasks.
LEMMA SubtasksFinite == IsFiniteSet(SubtaskIds)
  <1>1. Subtasks \in Seq(SubtaskIds)
    BY OrchestratorAssumption
  <1>2. /\ DOMAIN Subtasks = 1..Len(Subtasks) /\ Len(Subtasks) \in Nat
        /\ Subtasks \in [1..Len(Subtasks) -> SubtaskIds]
    BY <1>1
  <1>3. Subtasks \in Surjection(1..Len(Subtasks), SubtaskIds)
    BY <1>2 DEF Surjection, SubtaskIds
  <1>4. IsFiniteSet(1..Len(Subtasks))
    BY <1>2, FS_Interval
  <1>. QED BY <1>3, <1>4, FS_Surjection

\* _next_subtask finds a ready subtask whenever there is one.
LEMMA NextSubtask ==
  ASSUME NEW done
  PROVE  /\ next_subtask(done) = <<>> <=> Exhausted(done)
         /\ next_subtask(done) # <<>> =>
              /\ Head(next_subtask(done)) \in SubtaskIds
              /\ ready(Head(next_subtask(done)), done)
  <1> DEFINE places == {i \in DOMAIN Subtasks : ready(Subtasks[i], done)}
  <1>1. Subtasks \in Seq(SubtaskIds) /\ DOMAIN Subtasks \subseteq Nat
    BY OrchestratorAssumption
  <1>2. places = {} <=> Exhausted(done)
    BY DEF Exhausted, SubtaskIds
  <1>3. places # {} => First(places) \in places
    BY <1>1, FirstIsLeast
  <1>4. CASE places = {}
    BY <1>2, <1>4 DEF next_subtask
  <1>5. CASE places # {}
    <2>1. next_subtask(done) = <<Subtasks[First(places)]>>
      BY <1>5 DEF next_subtask
    <2>2. Subtasks[First(places)] \in SubtaskIds /\ ready(Subtasks[First(places)], done)
      BY <1>3, <1>5 DEF SubtaskIds
    <2>. QED BY <2>1, <2>2, <1>2, <1>5
  <1>. QED BY <1>4, <1>5

\* A sound plan is exhausted only when every subtask is done.
LEMMA ExhaustedIsDone ==
  ASSUME PlanIsSound, NEW done \in SUBSET SubtaskIds, Exhausted(done)
  PROVE  done = SubtaskIds
  <1> SUFFICES ASSUME SubtaskIds \ done # {} PROVE FALSE
    OBVIOUS
  <1>1. PICK st \in SubtaskIds \ done : DependsOn[st] \subseteq SubtaskIds \ (SubtaskIds \ done)
    BY DEF PlanIsSound
  <1>. QED BY <1>1 DEF Exhausted, ready

\* _ready_subtask_batch: the batch is ready, and its members run in parallel
\* only under their contracts.
LEMMA Batch ==
  ASSUME NEW done, NEW first \in SubtaskIds, ready(first, done)
  PROVE  LET batch == ready_subtask_batch(first, done)
         IN  /\ batch \subseteq SubtaskIds
             /\ \A st \in batch : ready(st, done)
             /\ BatchOK(batch)
  <1> DEFINE batch == ready_subtask_batch(first, done)
  <1>1. CASE parallel_group(first) = NoGroup
    <2>1. batch = {first} /\ Cardinality(batch) = 1
      BY <1>1, FS_Singleton DEF ready_subtask_batch
    <2>. QED BY <2>1 DEF BatchOK
  <1>2. CASE parallel_group(first) # NoGroup
    <2>1. batch = {st \in SubtaskIds : /\ ready(st, done)
                                      /\ parallel_group(st) = parallel_group(first)}
      BY <1>2 DEF ready_subtask_batch
    <2>2. ASSUME Cardinality(batch) > 1
          PROVE  batch \subseteq Contracted /\ \A s, t \in batch : RawGroup[s] = RawGroup[t]
      <3>1. \A st \in batch : RawGroup[st] = parallel_group(first)
        BY <2>1, <1>2 DEF parallel_group
      <3> DEFINE members == {u \in SubtaskIds : RawGroup[u] = RawGroup[first]}
      <3>2. RawGroup[first] = parallel_group(first)
        BY <1>2 DEF parallel_group
      <3>3. batch \in SUBSET members /\ members \in SUBSET SubtaskIds
        BY <3>1, <3>2, <2>1
      <3>4. IsFiniteSet(members)
        BY <3>3, SubtasksFinite, FS_Subset
      <3>5. /\ Cardinality(batch) <= Cardinality(members)
            /\ Cardinality(members) \in Nat /\ Cardinality(batch) \in Nat
        BY <3>3, <3>4, FS_Subset, FS_CardinalityType
      <3>6. Cardinality(members) >= 2
        BY <3>5, <2>2
      <3>7. members \subseteq Contracted
        BY <3>6, <1>2 DEF parallel_group
      <3>. QED BY <3>1, <3>3, <3>7
    <2>. QED BY <2>1, <2>2 DEF BatchOK
  <1>. QED BY <1>1, <1>2

\* What a batch adds to a closed set of finished subtasks keeps it closed.
LEMMA BatchClosed ==
  ASSUME NEW done, Closed(done), NEW batch, \A st \in batch : ready(st, done)
  PROVE  Closed(done \cup batch) /\ (done \cup batch) \ done = batch
  BY DEF Closed, ready

\* evaluate_checkpoints: its triggers are well-formed, the stuck one names the
\* failures in a row and is there as soon as the retry budget is spent.
LEMMA Evaluated ==
  ASSUME NEW p \in ProgressType, NEW scope \in SUBSET Files
  PROVE  /\ triggers(p, scope) \in Seq(TriggerType)
         /\ \A i \in DOMAIN triggers(p, scope) :
              triggers(p, scope)[i].kind \in TriggerKinds
         /\ \A i \in DOMAIN triggers(p, scope) :
              triggers(p, scope)[i].kind = "stuck" => triggers(p, scope)[i] = stuck(p.fails)
         /\ p.fails >= DEFAULT_STUCK_RETRY_BUDGET =>
              \E i \in DOMAIN triggers(p, scope) : triggers(p, scope)[i] = stuck(p.fails)
  <1> DEFINE A == check_size(p.files, p.lines, Budget)
             B == check_risk(p.files, scope)
             C == check_time_cost(late)
             D == check_stuck(p.fails)
             Plain == {t \in TriggerType : t.kind \in TriggerKinds \ {"stuck"}}
  <1>1. /\ p.files \in SUBSET Files /\ p.lines \in Nat /\ p.fails \in Nat
    BY DEF ProgressType
  <1>2. Cardinality(p.files) \in Nat
    BY <1>1, OrchestratorAssumption, FS_Subset, FS_CardinalityType
  <1>3. A \in Seq(Plain)
    <2>1. Trigger("size", p.lines, Cardinality(p.files), {}, 0) \in Plain
      BY <1>1, <1>2 DEF Trigger, TriggerType, TriggerKinds
    <2> HIDE DEF Plain
    <2>. QED BY <2>1 DEF check_size
  <1>4. B \in Seq(Plain)
    <2>1. Trigger("risk", 0, 0, p.files \ scope, 0) \in Plain
      BY <1>1 DEF Trigger, TriggerType, TriggerKinds
    <2> HIDE DEF Plain
    <2>. QED BY <2>1 DEF check_risk
  <1>5. C \in Seq(Plain)
    <2>1. Trigger("time_cost", 0, 0, {}, 0) \in Plain
      BY DEF Trigger, TriggerType, TriggerKinds
    <2> HIDE DEF Plain
    <2>. QED BY <2>1 DEF check_time_cost
  <1>6. stuck(p.fails) \in TriggerType /\ stuck(p.fails).kind = "stuck"
    BY <1>1 DEF stuck, Trigger, TriggerType, TriggerKinds
  <1>7. D = IF p.fails >= DEFAULT_STUCK_RETRY_BUDGET THEN <<stuck(p.fails)>> ELSE <<>>
    BY DEF check_stuck, stuck
  <1> DEFINE M == A \o B \o C
  <1>8. M \in Seq(Plain)
    BY <1>3, <1>4, <1>5
  <1>9. triggers(p, scope) = M \o D
    BY DEF triggers, evaluate_checkpoints
  <1> HIDE DEF A, B, C, D, M
  <1>10. /\ M \in Seq(TriggerType)
         /\ \A i \in DOMAIN M : M[i].kind \in TriggerKinds /\ M[i].kind # "stuck"
    BY <1>8
  <1>11. CASE p.fails >= DEFAULT_STUCK_RETRY_BUDGET
    <2>1. D = <<stuck(p.fails)>> /\ D \in Seq(TriggerType)
      BY <1>6, <1>7, <1>11
    <2>2. /\ M \o D \in Seq(TriggerType)
          /\ DOMAIN (M \o D) = 1 .. Len(M) + 1
          /\ \A i \in 1 .. Len(M) + 1 :
               \/ i \in DOMAIN M /\ (M \o D)[i] = M[i]
               \/ i = Len(M) + 1 /\ (M \o D)[i] = stuck(p.fails)
      BY <2>1, <1>10
    <2>3. Len(M) + 1 \in 1 .. Len(M) + 1 /\ (M \o D)[Len(M) + 1] = stuck(p.fails)
      BY <2>1, <1>10
    <2>. QED BY <2>2, <2>3, <1>6, <1>9, <1>10 DEF TriggerKinds
  <1>12. CASE ~(p.fails >= DEFAULT_STUCK_RETRY_BUDGET)
    <2>1. D = <<>>
      BY <1>7, <1>12
    <2>2. M \o D = M
      BY <2>1, <1>10
    <2>. QED BY <2>2, <1>9, <1>10, <1>12
  <1>. QED BY <1>11, <1>12

\* The question to put is an unanswered one of the kinds asked for.
LEMMA FirstTrigger ==
  ASSUME NEW p \in ProgressType, NEW scope \in SUBSET Files, NEW kinds,
         first_trigger(p, scope, kinds) # <<>>
  PROVE  LET t == Head(first_trigger(p, scope, kinds))
         IN  /\ t \in TriggerType /\ t.kind \in kinds
             /\ t.kind = "stuck" => t = stuck(p.fails) /\ t \notin p.acked
  <1> DEFINE ts     == triggers(p, scope)
             places == {i \in Unacknowledged(ts, p.acked) : ts[i].kind \in kinds}
  <1>1. places # {} /\ Head(first_trigger(p, scope, kinds)) = ts[First(places)]
    BY DEF first_trigger
  <1>2. ts \in Seq(TriggerType)
    BY Evaluated
  <1>3. places \subseteq DOMAIN ts /\ places \in SUBSET Nat
    BY <1>2 DEF Unacknowledged
  <1>4. First(places) \in places
    BY <1>1, <1>3, FirstIsLeast
  <1>5. /\ First(places) \in DOMAIN ts
        /\ ts[First(places)].kind \in kinds
        /\ ts[First(places)].kind = "time_cost" \/ ts[First(places)] \notin p.acked
    BY <1>4 DEF Unacknowledged
  <1>6. ts[First(places)].kind = "stuck" => ts[First(places)] = stuck(p.fails)
    BY <1>5, Evaluated
  <1>7. ts[First(places)] \in TriggerType
    BY <1>2, <1>5
  <1> HIDE DEF ts, places
  <1>. QED BY <1>1, <1>5, <1>6, <1>7

\* Where no trigger is found, the stuck one was answered or is not due.
LEMMA NoTrigger ==
  ASSUME NEW p \in ProgressType, NEW scope \in SUBSET Files, NEW kinds, "stuck" \in kinds,
         first_trigger(p, scope, kinds) = <<>>
  PROVE  p.fails < DEFAULT_STUCK_RETRY_BUDGET \/ stuck(p.fails) \in p.acked
  <1> DEFINE ts     == triggers(p, scope)
             places == {i \in Unacknowledged(ts, p.acked) : ts[i].kind \in kinds}
  <1> SUFFICES ASSUME ~(p.fails < DEFAULT_STUCK_RETRY_BUDGET), stuck(p.fails) \notin p.acked
               PROVE  FALSE
    OBVIOUS
  <1>1. p.fails \in Nat
    BY DEF ProgressType
  <1>2. p.fails >= DEFAULT_STUCK_RETRY_BUDGET
    BY <1>1 DEF DEFAULT_STUCK_RETRY_BUDGET
  <1>3. PICK i \in DOMAIN ts : ts[i] = stuck(p.fails)
    BY <1>2, Evaluated
  <1>4. stuck(p.fails).kind = "stuck"
    BY DEF stuck, Trigger
  <1>5. i \in places
    BY <1>3, <1>4 DEF Unacknowledged
  <1>. QED BY <1>5 DEF first_trigger

\* What a step makes of the progress it has loaded: a batch or a fix-up recorded.
WithBatch(p, batch, files, lines) ==
  [p EXCEPT !.done = @ \cup batch, !.files = @ \cup files, !.lines = @ + lines, !.fails = 0]

WithFixup(p, files, lines) ==
  [p EXCEPT !.files = @ \cup files, !.lines = @ + lines, !.failure = "none"]

\* Nothing recorded is lost; neither when a failure is counted or a verification
\* has passed.
LEMMA BatchRecorded ==
  ASSUME NEW p \in ProgressType, NEW batch \in SUBSET SubtaskIds,
         NEW files \in SUBSET Files, NEW lines \in Nat,
         NEW q, q = WithBatch(p, batch, files, lines)
  PROVE  /\ q \in ProgressType /\ Extends(q, p) /\ q.done = p.done \cup batch
         /\ q.fails = 0 /\ q.status = p.status
  <1>1. /\ q.done = p.done \cup batch /\ q.files = p.files \cup files
        /\ q.lines = p.lines + lines /\ q.fails = 0 /\ q.status = p.status
        /\ q.acked = p.acked
    BY DEF ProgressType, WithBatch
  <1>2. /\ p.status \in {"none", "saved"} /\ p.done \in SUBSET SubtaskIds
        /\ p.files \in SUBSET Files /\ p.lines \in Nat /\ p.fails \in Nat
        /\ p.acked \in SUBSET TriggerType /\ p.failure \in {"none", "failed"}
    BY DEF ProgressType
  <1>3. q = [status |-> p.status, done |-> p.done \cup batch, files |-> p.files \cup files,
            lines |-> p.lines + lines, fails |-> 0, acked |-> p.acked, failure |-> p.failure]
    BY DEF ProgressType, WithBatch
  <1>4. q \in ProgressType
    BY <1>2, <1>3 DEF ProgressType
  <1>. QED BY <1>1, <1>2, <1>4 DEF Extends

\* The progress of a fix-up: files and lines are added, nothing else changes.
LEMMA FixupRecorded ==
  ASSUME NEW p \in ProgressType, NEW files \in SUBSET Files, NEW lines \in Nat,
         NEW q, q = WithFixup(p, files, lines)
  PROVE  /\ q \in ProgressType /\ Extends(q, p) /\ q.done = p.done
         /\ q.fails = p.fails /\ q.status = p.status
  <1>1. /\ q.done = p.done /\ q.files = p.files \cup files
        /\ q.lines = p.lines + lines /\ q.fails = p.fails /\ q.status = p.status
        /\ q.acked = p.acked
    BY DEF ProgressType, WithFixup
  <1>2. /\ p.status \in {"none", "saved"} /\ p.done \in SUBSET SubtaskIds
        /\ p.files \in SUBSET Files /\ p.lines \in Nat /\ p.fails \in Nat
        /\ p.acked \in SUBSET TriggerType /\ p.failure \in {"none", "failed"}
    BY DEF ProgressType
  <1>3. q = [status |-> p.status, done |-> p.done, files |-> p.files \cup files,
            lines |-> p.lines + lines, fails |-> p.fails, acked |-> p.acked, failure |-> "none"]
    BY DEF ProgressType, WithFixup
  <1>4. q \in ProgressType
    BY <1>2, <1>3 DEF ProgressType
  <1>. QED BY <1>1, <1>2, <1>4 DEF Extends

\* The progress of a failed attempt: one failure more, the diff is the same.
LEMMA FailureCounted ==
  ASSUME NEW p \in ProgressType, NEW q,
         q \in {[p EXCEPT !.fails = @ + 1],
                       [p EXCEPT !.fails = @ + 1, !.failure = "failed"]}
  PROVE  /\ q \in ProgressType /\ Diff(q) = Diff(p) /\ q.acked = p.acked
         /\ q.fails = p.fails + 1 /\ q.status = p.status
  <1>1. /\ q.done = p.done /\ q.files = p.files /\ q.lines = p.lines
        /\ q.fails = p.fails + 1 /\ q.status = p.status /\ q.acked = p.acked
    BY DEF ProgressType
  <1>2. /\ p.status \in {"none", "saved"} /\ p.done \in SUBSET SubtaskIds
        /\ p.files \in SUBSET Files /\ p.lines \in Nat /\ p.fails \in Nat
        /\ p.acked \in SUBSET TriggerType /\ p.failure \in {"none", "failed"}
    BY DEF ProgressType
  <1>3. \E failure \in {"none", "failed"} :
          q = [status |-> p.status, done |-> p.done, files |-> p.files,
               lines |-> p.lines, fails |-> p.fails + 1, acked |-> p.acked,
               failure |-> failure]
    BY <1>2 DEF ProgressType
  <1>4. q \in ProgressType
    BY <1>2, <1>3 DEF ProgressType
  <1>. QED BY <1>1, <1>4 DEF Diff

\* The progress of a passed verification: the failures in a row are over.
LEMMA PassRecorded ==
  ASSUME NEW p \in ProgressType, NEW q, q = [p EXCEPT !.fails = 0, !.failure = "none"]
  PROVE  /\ q \in ProgressType /\ Diff(q) = Diff(p) /\ Extends(q, p) /\ q.done = p.done
         /\ q.fails = 0 /\ q.status = p.status /\ q.acked = p.acked
  <1>1. /\ q.done = p.done /\ q.files = p.files /\ q.lines = p.lines
        /\ q.fails = 0 /\ q.status = p.status /\ q.acked = p.acked
    BY DEF ProgressType
  <1>2. q \in ProgressType
    BY DEF ProgressType
  <1>3. p.lines \in Nat
    BY DEF ProgressType
  <1>. QED BY <1>1, <1>2, <1>3 DEF Diff, Extends

-----------------------------------------------------------------------------
(* The inductive invariant is kept.  One driver moves; each lemma is about *)
(* one action or one kind of action.                                       *)

USE DEF INTAKE, RESEARCH, PLAN_AUTHORING, PLAN_APPROVAL_GATE, IMPLEMENTATION,
        VERIFICATION, CHANGE_REVIEW_GATE, PACKAGING, RETROSPECTIVE, COMPLETED, ABANDONED

\* The stages named in the proofs.
LEMMA Stages ==
  /\ ALL_STAGES = {INTAKE, RESEARCH, PLAN_AUTHORING, PLAN_APPROVAL_GATE, IMPLEMENTATION,
                   VERIFICATION, CHANGE_REVIEW_GATE, PACKAGING, RETROSPECTIVE, COMPLETED,
                   ABANDONED}
  /\ TERMINAL_STAGES = {COMPLETED, ABANDONED}
  BY DEF ALL_STAGES, NON_TERMINAL_STAGES, TERMINAL_STAGES

\* A driver at rest and a run without progress have their types.
LEMMA Constants ==
  /\ Idle \in DriverType /\ Idle.pc = "idle"
  /\ NoElicitation \in ElicitationType /\ NoElicitation.status = "none"
  /\ NoProgress \in ProgressType /\ NewProgress \in ProgressType
  /\ NewProgress.status = "saved" /\ NewProgress.done = {} /\ NewProgress.acked = {}
  /\ NewProgress.fails = 0
  /\ NoProgress.status = "none" /\ NoProgress.done = {} /\ NoProgress.acked = {}
  /\ NoProgress.fails = 0 /\ NoProgress.lines = 0 /\ NoProgress.files = {}
  /\ Diff(NewProgress) = Diff(NoProgress) /\ Diff(NoProgress) \in DiffType
  <1>1. NoElicitation.trigger \in TriggerType
    BY DEF NoElicitation, Trigger, TriggerType
  <1>2. NoElicitation \in ElicitationType /\ NoElicitation.status = "none"
    BY <1>1, Stages DEF NoElicitation, ElicitationType
  <1>3. NoProgress \in ProgressType
    BY DEF NoProgress, ProgressType
  <1>4. /\ NewProgress \in ProgressType
        /\ NewProgress.status = "saved" /\ NewProgress.done = {} /\ NewProgress.acked = {}
        /\ NewProgress.fails = 0
        /\ Diff(NewProgress) = Diff(NoProgress)
    BY DEF NewProgress, NoProgress, ProgressType, Diff
  <1>5. Idle \in DriverType /\ Idle.pc = "idle"
    BY <1>1, <1>2, <1>3, Stages DEF Idle, DriverType, PCs
  <1>6. Diff(NoProgress) \in DiffType
    BY DEF Diff, NoProgress, DiffType
  <1>. QED BY <1>2, <1>3, <1>4, <1>5, <1>6 DEF NoProgress

\* A driver goes on at pc with row r.
LEMMA AtPlace ==
  ASSUME drv \in [Drivers -> DriverType], NEW d \in Drivers, NEW pc \in PCs, NEW r \in RowType,
         drv' = at(d, pc, r)
  PROVE  /\ drv' \in [Drivers -> DriverType]
         /\ drv'[d].pc = pc /\ drv'[d].run = r
  <1>1. [Idle EXCEPT !.pc = pc, !.run = r] \in DriverType
    BY Constants DEF DriverType, RowType
  <1>2. /\ [Idle EXCEPT !.pc = pc, !.run = r].pc = pc
        /\ [Idle EXCEPT !.pc = pc, !.run = r].run = r
    BY Constants DEF DriverType
  <1>. QED BY <1>1, <1>2 DEF at

\* A driver is about to change the stage.
LEMMA MovingTo ==
  ASSUME drv \in [Drivers -> DriverType], NEW d \in Drivers, NEW r \in RowType,
         NEW s \in ALL_STAGES, NEW then \in PCs, drv' = moving(d, r, s, then)
  PROVE  /\ drv' \in [Drivers -> DriverType]
         /\ drv'[d].pc = "move" /\ drv'[d].run = r
         /\ drv'[d].target = s /\ drv'[d].then = then
  <1> DEFINE m == [Idle EXCEPT !.pc = "move", !.run = r, !.target = s, !.then = then]
  <1>1. "move" \in PCs
    BY DEF PCs
  <1>2. m \in DriverType
    BY <1>1, Constants DEF DriverType, RowType
  <1>3. m.pc = "move" /\ m.run = r /\ m.target = s /\ m.then = then
    BY Constants DEF DriverType
  <1>. QED BY <1>2, <1>3 DEF moving

\* A driver comes to rest.
LEMMA Rested ==
  ASSUME drv \in [Drivers -> DriverType], NEW d \in Drivers, finished(d)
  PROVE  drv' \in [Drivers -> DriverType] /\ drv'[d].pc = "idle"
  BY Constants DEF finished

\* A driver at rest relies on nothing.
LEMMA RestingOK ==
  ASSUME NEW me, me.pc = "idle"
  PROVE  DriverOK(me)
  BY DEF DriverOK, PlaceOK, MoveOK, AskOK, ReloadOK, SaveBatchOK, SaveFailureOK, SaveOK

\* The invariant, put together again after a step of the only driver.
LEMMA Conclude ==
  ASSUME NEW d, Drivers = {d}, TypeOK', RunOK', ApprovedPlanOnly', ReviewedDiffWasVerified',
         DriverOK(drv[d])', FailuresOK(drv[d])', RestOK(drv[d])'
  PROVE  IInv'
  BY DEF IInv

\* The first state.
LEMMA InitIInv ==
  ASSUME OneDriver, Init
  PROVE  IInv
  <1>1. PICK d \in Drivers : Drivers = {d}
    BY DEF OneDriver
  <1>2. drv[d] = Idle /\ drv \in [Drivers -> DriverType]
    BY <1>1, Constants DEF Init
  <1>3. TypeOK
    BY <1>2, Constants, Stages, OrchestratorAssumption
       DEF Init, TypeOK, RowType, NoPlan
  <1>4. RunOK /\ ApprovedPlanOnly /\ ReviewedDiffWasVerified
    BY Constants DEF Init, RunOK, Closed, pending_checkpoint, PostApproval, PostReview,
       ApprovedPlanOnly, ReviewedDiffWasVerified, Working
  <1>5. DriverOK(drv[d])
    BY <1>2, Constants, RestingOK
  <1>6. StuckAcked(progress) = {} /\ Cardinality(StuckAcked(progress)) = 0
        /\ IsFiniteSet(progress.acked)
    BY Constants, FS_EmptySet DEF Init, StuckAcked
  <1>7. FailuresOK(drv[d])
    BY <1>2, <1>6, Constants
       DEF Init, FailuresOK, Room, DEFAULT_STUCK_RETRY_BUDGET, pending_checkpoint
  <1>8. RestOK(drv[d])
    BY DEF Init, RestOK
  <1>. QED BY <1>1, <1>3, <1>4, <1>5, <1>7, <1>8 DEF IInv

\* A step of the driver that writes nothing durable and leaves it at work.
LEMMA QuietStep ==
  ASSUME IInv, NEW d, Drivers = {d},
         UNCHANGED <<run, plan, progress, late, crashes>>,
         answers' \in 0 .. MaxAnswers,
         seen' \in [approvedPlan : Nat, verified : DiffType, reviewed : DiffType,
                    decision : {"none", "continue", "extend_scope", "stop"}],
         ApprovedPlanOnly', ReviewedDiffWasVerified',
         drv' \in [Drivers -> DriverType], DriverOK(drv[d])',
         drv'[d].pc \notin {"idle", "ack"},
         Excused(drv[d]) => Excused(drv[d])'
  PROVE  IInv'
  <1>1. TypeOK'
    BY DEF IInv, TypeOK
  <1>2. RunOK'
    BY DEF IInv, RunOK, Exhausted, Closed, pending_checkpoint, ready
  <1>3. FailuresOK(drv[d])'
    BY DEF IInv, FailuresOK, Room, StuckAcked, pending_checkpoint
  <1>4. RestOK(drv[d])'
    BY DEF RestOK
  <1>. QED BY <1>1, <1>2, <1>3, <1>4, Conclude

\* The same when nothing is noted for the properties either.
LEMMA UnseenStep ==
  ASSUME IInv, NEW d, Drivers = {d},
         UNCHANGED <<run, plan, progress, late, crashes, seen>>,
         answers' \in 0 .. MaxAnswers,
         drv' \in [Drivers -> DriverType], DriverOK(drv[d])',
         drv'[d].pc \notin {"idle", "ack"},
         Excused(drv[d]) => Excused(drv[d])'
  PROVE  IInv'
  <1>1. seen' \in [approvedPlan : Nat, verified : DiffType, reviewed : DiffType,
                   decision : {"none", "continue", "extend_scope", "stop"}]
    BY DEF IInv, TypeOK
  <1>2. ApprovedPlanOnly' /\ ReviewedDiffWasVerified'
    BY DEF IInv, ApprovedPlanOnly, ReviewedDiffWasVerified, Diff
  <1>. QED BY <1>1, <1>2, QuietStep

\* What the invariant says of the only driver and of its row.
LEMMA Facts ==
  ASSUME IInv, NEW d, Drivers = {d}
  PROVE  /\ d \in Drivers /\ drv \in [Drivers -> DriverType] /\ drv[d] \in DriverType
         /\ run \in RowType /\ progress \in ProgressType /\ drv[d].prog \in ProgressType
         /\ drv[d].run \in RowType /\ drv[d].scope \in SUBSET Files
         /\ drv[d].trigger \in TriggerType /\ run.stage \in ALL_STAGES
         /\ run.version \in Nat /\ progress.fails \in Nat /\ plan.version \in Nat
         /\ DriverOK(drv[d]) /\ FailuresOK(drv[d]) /\ RestOK(drv[d])
         /\ RunOK /\ ApprovedPlanOnly /\ ReviewedDiffWasVerified
  <1>1. d \in Drivers /\ drv \in [Drivers -> DriverType] /\ drv[d] \in DriverType
    BY DEF IInv, TypeOK
  <1>2. run \in RowType /\ progress \in ProgressType /\ plan.version \in Nat
    BY DEF IInv, TypeOK
  <1>. QED BY <1>1, <1>2 DEF IInv, DriverType, RowType, ProgressType

\* resume_run.
LEMMA ResumeRunOK ==
  ASSUME IInv, NEW d, Drivers = {d}, ResumeRun(d)
  PROVE  IInv'
  <1>1. /\ drv' \in [Drivers -> DriverType]
        /\ drv'[d].pc = "drive" /\ drv'[d].run = run
    BY Facts, AtPlace DEF ResumeRun, PCs
  <1>2. DriverOK(drv[d])'
    BY <1>1 DEF ResumeRun, DriverOK, PlaceOK, MoveOK, AskOK, ReloadOK, SaveBatchOK,
       SaveFailureOK, SaveOK
  <1>3. Excused(drv[d]) => Excused(drv[d])'
    BY DEF ResumeRun, Excused, pending_checkpoint
  <1>4. answers' \in 0 .. MaxAnswers
    BY DEF ResumeRun, IInv, TypeOK
  <1>. QED BY <1>1, <1>2, <1>3, <1>4, UnseenStep DEF ResumeRun

\* approve_plan: the decision is taken.
LEMMA ApprovePlanOK ==
  ASSUME IInv, NEW d, Drivers = {d}, NEW decision \in {"approve", "request_changes", "reject"},
         ApprovePlan(d, decision)
  PROVE  IInv'
  <1> USE DEF ApprovePlan
  <1>1. answers' \in 0 .. MaxAnswers
    BY OrchestratorAssumption DEF answering, IInv, TypeOK
  <1>2. /\ run.stage = PLAN_APPROVAL_GATE /\ ~pending_checkpoint(run)
        /\ plan.version # 0 /\ drv[d].pc = "idle"
    BY Facts DEF RunOK, Working
  <1>3. ~Excused(drv[d])
    BY <1>2 DEF Excused
  <1>4. CASE decision = "approve"
    <2>1. /\ drv' = moving(d, run, IMPLEMENTATION, "fresh")
          /\ seen' = [seen EXCEPT !.approvedPlan = plan.version]
      BY <1>4
    <2>2. /\ drv' \in [Drivers -> DriverType]
          /\ drv'[d].pc = "move" /\ drv'[d].run = run
          /\ drv'[d].target = IMPLEMENTATION /\ drv'[d].then = "fresh"
      BY <2>1, Facts, MovingTo, Stages DEF PCs
    <2>3. seen' \in [approvedPlan : Nat, verified : DiffType, reviewed : DiffType,
                     decision : {"none", "continue", "extend_scope", "stop"}]
          /\ seen'.approvedPlan = plan.version
      BY <2>1, Facts DEF IInv, TypeOK
    <2>4. ApprovedPlanOnly' /\ ReviewedDiffWasVerified'
      BY <1>2 DEF ApprovedPlanOnly, ReviewedDiffWasVerified, PostApproval, PostReview
    <2>5. DriverOK(drv[d])'
      BY <1>2, <2>2, <2>3 DEF DriverOK, PlaceOK, MoveOK, AskOK, ReloadOK, SaveBatchOK,
         SaveFailureOK, SaveOK, Routes, pending_checkpoint
    <2>. QED BY <1>1, <1>3, <2>2, <2>3, <2>4, <2>5, QuietStep
  <1>5. CASE decision = "request_changes"
    <2>1. /\ drv' \in [Drivers -> DriverType]
          /\ drv'[d].pc = "new_attempt" /\ drv'[d].run = run
      BY <1>5, Facts, AtPlace DEF PCs
    <2>2. DriverOK(drv[d])'
      BY <1>2, <2>1 DEF DriverOK, PlaceOK, MoveOK, AskOK, ReloadOK, SaveBatchOK,
         SaveFailureOK, SaveOK, pending_checkpoint
    <2>. QED BY <1>1, <1>3, <1>5, <2>1, <2>2, UnseenStep
  <1>6. CASE decision = "reject"
    <2>1. /\ drv' \in [Drivers -> DriverType]
          /\ drv'[d].pc = "move" /\ drv'[d].run = run
          /\ drv'[d].target = ABANDONED /\ drv'[d].then = "idle"
      BY <1>6, Facts, MovingTo, Stages DEF PCs
    <2>2. DriverOK(drv[d])'
      BY <1>2, <2>1 DEF DriverOK, PlaceOK, MoveOK, AskOK, ReloadOK, SaveBatchOK,
         SaveFailureOK, SaveOK, Abandons, pending_checkpoint
    <2>. QED BY <1>1, <1>3, <1>6, <2>1, <2>2, UnseenStep
  <1>. QED BY <1>4, <1>5, <1>6

\* approve_change_review: the decision is taken.
LEMMA ApproveChangeReviewOK ==
  ASSUME IInv, NEW d, Drivers = {d}, NEW decision \in {"approve", "request_changes", "reject"},
         ApproveChangeReview(d, decision)
  PROVE  IInv'
  <1> USE DEF ApproveChangeReview
  <1>1. answers' \in 0 .. MaxAnswers
    BY OrchestratorAssumption DEF answering, IInv, TypeOK
  <1>2. /\ run.stage = CHANGE_REVIEW_GATE /\ ~pending_checkpoint(run)
        /\ drv[d].pc = "idle"
    BY Facts DEF RunOK, Working
  <1>3. ~Excused(drv[d])
    BY <1>2 DEF Excused
  <1>4. CASE decision = "approve"
    <2>1. /\ drv' = moving(d, run, PACKAGING, "drive")
          /\ seen' = [seen EXCEPT !.reviewed = Diff(progress)]
      BY <1>4
    <2>2. /\ drv' \in [Drivers -> DriverType]
          /\ drv'[d].pc = "move" /\ drv'[d].run = run
          /\ drv'[d].target = PACKAGING /\ drv'[d].then = "drive"
      BY <2>1, Facts, MovingTo, Stages DEF PCs
    <2>3. Diff(progress) \in DiffType
      BY Facts DEF ProgressType, Diff, DiffType
    <2>4. /\ seen' \in [approvedPlan : Nat, verified : DiffType, reviewed : DiffType,
                        decision : {"none", "continue", "extend_scope", "stop"}]
          /\ seen'.reviewed = Diff(progress) /\ seen'.verified = seen.verified
          /\ seen'.approvedPlan = seen.approvedPlan
      BY <2>1, <2>3 DEF IInv, TypeOK
    <2>5. ApprovedPlanOnly' /\ ReviewedDiffWasVerified'
      BY <1>2, <2>4, Facts DEF ApprovedPlanOnly, ReviewedDiffWasVerified, PostApproval,
         PostReview, Diff
    <2>6. DriverOK(drv[d])'
      BY <1>2, <2>2, <2>4 DEF DriverOK, PlaceOK, MoveOK, AskOK, ReloadOK, SaveBatchOK,
         SaveFailureOK, SaveOK, Routes, pending_checkpoint, Diff
    <2>. QED BY <1>1, <1>3, <2>2, <2>4, <2>5, <2>6, QuietStep
  <1>5. CASE decision = "request_changes"
    <2>1. /\ drv' \in [Drivers -> DriverType]
          /\ drv'[d].pc = "move" /\ drv'[d].run = run
          /\ drv'[d].target = IMPLEMENTATION /\ drv'[d].then = "drive"
      BY <1>5, Facts, MovingTo, Stages DEF PCs
    <2>2. DriverOK(drv[d])'
      BY <1>2, <2>1 DEF DriverOK, PlaceOK, MoveOK, AskOK, ReloadOK, SaveBatchOK,
         SaveFailureOK, SaveOK, Routes, pending_checkpoint
    <2>. QED BY <1>1, <1>3, <1>5, <2>1, <2>2, UnseenStep
  <1>6. CASE decision = "reject"
    <2>1. /\ drv' \in [Drivers -> DriverType]
          /\ drv'[d].pc = "move" /\ drv'[d].run = run
          /\ drv'[d].target = ABANDONED /\ drv'[d].then = "idle"
      BY <1>6, Facts, MovingTo, Stages DEF PCs
    <2>2. DriverOK(drv[d])'
      BY <1>2, <2>1 DEF DriverOK, PlaceOK, MoveOK, AskOK, ReloadOK, SaveBatchOK,
         SaveFailureOK, SaveOK, Abandons, pending_checkpoint
    <2>. QED BY <1>1, <1>3, <1>6, <2>1, <2>2, UnseenStep
  <1>. QED BY <1>4, <1>5, <1>6

\* resolve_checkpoint: the answer reaches a driver.
LEMMA ResolveCheckpointOK ==
  ASSUME IInv, NEW d, Drivers = {d}, NEW decision \in {"continue", "extend_scope", "stop"},
         ResolveCheckpoint(d, decision)
  PROVE  IInv'
  <1> USE DEF ResolveCheckpoint
  <1>1. answers' \in 0 .. MaxAnswers
    BY OrchestratorAssumption DEF answering, IInv, TypeOK
  <1> DEFINE base == [Idle EXCEPT !.pc = "resolve", !.run = run]
             m    == [base EXCEPT !.decision = decision]
  <1>2. drv' = [drv EXCEPT ![d] = m]
    BY Facts DEF at
  <1>3. m \in DriverType /\ m.pc = "resolve" /\ m.run = run /\ m.decision = decision
    <2>1. base \in DriverType /\ base.pc = "resolve" /\ base.run = run
      BY Facts, Constants DEF DriverType, PCs, RowType
    <2> HIDE DEF base
    <2>. QED BY <2>1 DEF DriverType
  <1> HIDE DEF m
  <1>4. /\ drv' \in [Drivers -> DriverType]
        /\ drv'[d].pc = "resolve" /\ drv'[d].run = run /\ drv'[d].decision = decision
    BY <1>2, <1>3, Facts
  <1>5. /\ seen' \in [approvedPlan : Nat, verified : DiffType, reviewed : DiffType,
                      decision : {"none", "continue", "extend_scope", "stop"}]
        /\ seen'.approvedPlan = seen.approvedPlan
        /\ seen'.verified = seen.verified /\ seen'.reviewed = seen.reviewed
    BY DEF IInv, TypeOK
  <1>6. ApprovedPlanOnly' /\ ReviewedDiffWasVerified'
    BY <1>5, Facts DEF ApprovedPlanOnly, ReviewedDiffWasVerified, Diff
  <1>7. DriverOK(drv[d])'
    BY <1>4, Facts DEF DriverOK, PlaceOK, MoveOK, AskOK, ReloadOK, SaveBatchOK,
       SaveFailureOK, SaveOK, pending_checkpoint
  <1>8. Excused(drv[d]) => Excused(drv[d])'
    BY DEF Excused, pending_checkpoint
  <1>. QED BY <1>1, <1>4, <1>5, <1>6, <1>7, <1>8, QuietStep

\* A driver in the loop holds the current row, no question is pending and
\* nothing is to be excused.
LEMMA DrivingFacts ==
  ASSUME IInv, NEW d, Drivers = {d}, NEW s \in ALL_STAGES, driving(d, s)
  PROVE  /\ drv[d].pc = "drive" /\ drv[d].run = run /\ run.stage = s
         /\ ~pending_checkpoint(run)
         /\ s # ABANDONED => ~Excused(drv[d]) /\ progress.fails < Room
  <1>1. drv[d].pc = "drive" /\ drv[d].run = run /\ run.stage = s /\ ~pending_checkpoint(run)
    BY Facts DEF driving, DriverOK, PlaceOK
  <1>2. s # ABANDONED => ~Excused(drv[d])
    BY <1>1 DEF Excused
  <1>. QED BY <1>1, <1>2, Facts DEF FailuresOK

\* A driver in the loop, or one that has read the run again, is about to change
\* the stage.
LEMMA AboutToMove ==
  ASSUME IInv, NEW d, Drivers = {d}, drv[d].pc # "idle", ~Excused(drv[d]),
         UNCHANGED <<run, plan, progress, late, crashes, answers, seen>>,
         NEW s \in ALL_STAGES, NEW then \in PCs, drv' = moving(d, run, s, then),
         <<run.stage, s, then>> \in Routes, ~pending_checkpoint(run),
         s # PLAN_APPROVAL_GATE, s # PACKAGING, run.stage # PLAN_APPROVAL_GATE,
         s = VERIFICATION => progress.status = "saved" /\ Exhausted(progress.done),
         s = CHANGE_REVIEW_GATE => seen.verified = Diff(progress)
  PROVE  IInv'
  <1>1. /\ drv' \in [Drivers -> DriverType]
        /\ drv'[d].pc = "move" /\ drv'[d].run = run
        /\ drv'[d].target = s /\ drv'[d].then = then
    BY Facts, MovingTo
  <1>2. DriverOK(drv[d])'
    BY <1>1 DEF DriverOK, PlaceOK, MoveOK, AskOK, ReloadOK, SaveBatchOK,
       SaveFailureOK, SaveOK, pending_checkpoint, Exhausted, Diff, ready
  <1>3. answers' \in 0 .. MaxAnswers
    BY DEF IInv, TypeOK
  <1>. QED BY <1>1, <1>2, <1>3, UnseenStep

\* _drive at a stage without durable effects.
LEMMA DriveOnOK ==
  ASSUME IInv, NEW d, Drivers = {d}, DriveOn(d)
  PROVE  IInv'
  <1> USE DEF DriveOn
  <1>1. CASE driving(d, INTAKE) /\ drv' = moving(d, drv[d].run, RESEARCH, "drive")
    BY <1>1, DrivingFacts, AboutToMove, Stages DEF Routes, PCs
  <1>2. CASE driving(d, RESEARCH) /\ drv' = moving(d, drv[d].run, PLAN_AUTHORING, "drive")
    BY <1>2, DrivingFacts, AboutToMove, Stages DEF Routes, PCs
  <1>3. CASE driving(d, PACKAGING) /\ drv' = moving(d, drv[d].run, RETROSPECTIVE, "drive")
    BY <1>3, DrivingFacts, AboutToMove, Stages DEF Routes, PCs
  <1>4. CASE driving(d, RETROSPECTIVE) /\ drv' = moving(d, drv[d].run, COMPLETED, "idle")
    BY <1>4, DrivingFacts, AboutToMove, Stages DEF Routes, PCs
  <1>. QED BY <1>1, <1>2, <1>3, <1>4

\* _generate_and_store_plan, from the loop or after request_changes.
LEMMA StorePlanOK ==
  ASSUME IInv, NEW d, Drivers = {d}, RePlan(d) \/ AuthorPlan(d)
  PROVE  IInv'
  <1>1. /\ drv[d].run = run /\ run.stage = PLAN_AUTHORING /\ drv[d].pc \in {"replan", "drive"}
        /\ store_plan(d)
    BY Facts, DrivingFacts, Stages DEF RePlan, AuthorPlan, DriverOK, PlaceOK
  <1>2. ~pending_checkpoint(run)
    BY <1>1, Facts DEF RunOK, Working
  <1>3. /\ drv' \in [Drivers -> DriverType]
        /\ drv'[d].pc = "move" /\ drv'[d].run = run
        /\ drv'[d].target = PLAN_APPROVAL_GATE /\ drv'[d].then = "idle"
    BY <1>1, Facts, MovingTo, Stages DEF store_plan, PCs
  <1>4. plan' \in [version : Nat, scope : SUBSET Files] /\ plan'.version # 0
    BY <1>1, OrchestratorAssumption, Facts DEF store_plan
  <1>5. TypeOK'
    BY <1>1, <1>3, <1>4 DEF store_plan, IInv, TypeOK
  <1>6. RunOK'
    BY <1>1, <1>4, Facts DEF store_plan, RunOK, PostApproval, Closed, pending_checkpoint, Early
  <1>7. ApprovedPlanOnly' /\ ReviewedDiffWasVerified'
    BY <1>1 DEF store_plan, ApprovedPlanOnly, ReviewedDiffWasVerified, PostApproval, PostReview
  <1>8. DriverOK(drv[d])'
    BY <1>1, <1>2, <1>3, <1>4 DEF store_plan, DriverOK, PlaceOK, MoveOK, AskOK, ReloadOK,
       SaveBatchOK, SaveFailureOK, SaveOK, pending_checkpoint, Routes
  <1>9. ~Excused(drv[d])
    BY <1>1, <1>2 DEF Excused
  <1>10. FailuresOK(drv[d])'
    BY <1>1, <1>2, <1>3, <1>9, Facts DEF store_plan, FailuresOK, Room, StuckAcked,
       pending_checkpoint
  <1>11. RestOK(drv[d])'
    BY <1>3 DEF RestOK
  <1>. QED BY <1>5, <1>6, <1>7, <1>8, <1>10, <1>11, Conclude

\* The run is read again, and the outcome of a step decides where it goes.
LEMMA ReloadStepOK ==
  ASSUME IInv, NEW d, Drivers = {d}, Reload(d)
  PROVE  IInv'
  <1> USE DEF Reload
  <1>1. /\ drv[d].pc = "reload" /\ ReloadOK(drv[d]) /\ run.stage \in Working
    BY Facts DEF DriverOK, ReloadOK, Working
  <1>2. drv[d].outcome # "paused" => ~Excused(drv[d])
    BY <1>1 DEF Excused, ReloadOK, Working
  <1>3. CASE drv[d].outcome = "passed"
    <2>1. drv' = moving(d, run, CHANGE_REVIEW_GATE, "idle")
      BY <1>3
    <2>. QED BY <2>1, <1>1, <1>2, <1>3, AboutToMove, Stages DEF ReloadOK, Routes, PCs
  <1>4. CASE drv[d].outcome = "retry"
    <2>1. drv' = moving(d, run, IMPLEMENTATION, "drive")
      BY <1>4
    <2>. QED BY <2>1, <1>1, <1>2, <1>4, AboutToMove, Stages DEF ReloadOK, Routes, PCs
  <1>5. CASE drv[d].outcome = "verify"
    <2>1. drv' = moving(d, run, VERIFICATION, "drive")
      BY <1>1, <1>5 DEF ReloadOK
    <2>. QED BY <2>1, <1>1, <1>2, <1>5, AboutToMove, Stages DEF ReloadOK, Routes, PCs
  <1>6. CASE drv[d].outcome \notin {"passed", "retry", "verify"}
    <2>1. drv' = at(d, "drive", run)
      BY <1>6
    <2>2. /\ drv' \in [Drivers -> DriverType]
          /\ drv'[d].pc = "drive" /\ drv'[d].run = run
      BY <2>1, Facts, AtPlace DEF PCs
    <2>3. DriverOK(drv[d])'
      BY <2>2 DEF DriverOK, PlaceOK, MoveOK, AskOK, ReloadOK, SaveBatchOK,
         SaveFailureOK, SaveOK
    <2>4. Excused(drv[d]) => Excused(drv[d])'
      BY <1>1 DEF Excused, pending_checkpoint
    <2>5. answers' \in 0 .. MaxAnswers
      BY DEF IInv, TypeOK
    <2>. QED BY <2>2, <2>3, <2>4, <2>5, UnseenStep
  <1>. QED BY <1>3, <1>4, <1>5, <1>6

\* The driver holds progress p and goes on at pc with an outcome.
LEMMA Holding ==
  ASSUME IInv, NEW d, Drivers = {d}, NEW pc \in PCs, NEW p \in ProgressType,
         NEW outcome \in {"none", "continue", "verify", "passed", "retry", "paused"},
         drv' = holding(d, pc, p, outcome)
  PROVE  /\ drv' \in [Drivers -> DriverType]
         /\ drv'[d].pc = pc /\ drv'[d].prog = p /\ drv'[d].outcome = outcome
         /\ drv'[d].run = drv[d].run
  <1>1. plan.scope \in SUBSET Files
    BY DEF IInv, TypeOK
  <1> DEFINE m == [drv[d] EXCEPT !.pc = pc, !.prog = p, !.scope = plan.scope,
                                 !.outcome = outcome]
  <1>2. drv' = [drv EXCEPT ![d] = m]
    BY Facts DEF holding
  <1>3. /\ m \in DriverType /\ m.pc = pc /\ m.prog = p /\ m.outcome = outcome
        /\ m.run = drv[d].run
    BY <1>1, Facts DEF DriverType
  <1> HIDE DEF m
  <1>. QED BY <1>2, <1>3, Facts

\* A driver in the loop has called the agent or the verification and holds what
\* it is about to save.
LEMMA AboutToSave ==
  ASSUME IInv, NEW d, Drivers = {d}, NEW s \in Working, driving(d, s),
         UNCHANGED <<run, plan, progress, late, crashes, answers>>,
         seen' \in [approvedPlan : Nat, verified : DiffType, reviewed : DiffType,
                    decision : {"none", "continue", "extend_scope", "stop"}],
         seen'.approvedPlan = seen.approvedPlan,
         NEW pc \in {"save", "save_batch", "save_failure"}, NEW p \in ProgressType,
         NEW outcome \in {"continue", "verify", "passed", "retry"},
         drv' = holding(d, pc, p, outcome),
         SaveBatchOK(drv[d])', SaveFailureOK(drv[d])', SaveOK(drv[d])'
  PROVE  IInv'
  <1>1. s \in ALL_STAGES /\ s \notin {ABANDONED, CHANGE_REVIEW_GATE} /\ s \notin PostReview
    BY Stages DEF Working, PostReview
  <1>2. /\ drv[d].pc = "drive" /\ drv[d].run = run /\ run.stage = s
        /\ ~pending_checkpoint(run) /\ ~Excused(drv[d])
    BY <1>1, DrivingFacts
  <1>3. pc \in PCs /\ outcome \in {"none", "continue", "verify", "passed", "retry", "paused"}
    BY DEF PCs
  <1>4. /\ drv' \in [Drivers -> DriverType]
        /\ drv'[d].pc = pc /\ drv'[d].prog = p /\ drv'[d].outcome = outcome
        /\ drv'[d].run = drv[d].run
    <2> DEFINE m == [drv[d] EXCEPT !.pc = pc, !.prog = p, !.scope = plan.scope,
                                   !.outcome = outcome]
    <2>1. plan.scope \in SUBSET Files
      BY DEF IInv, TypeOK
    <2>2. drv' = [drv EXCEPT ![d] = m]
      BY Facts DEF holding
    <2>3. /\ m \in DriverType /\ m.pc = pc /\ m.prog = p /\ m.outcome = outcome
          /\ m.run = drv[d].run
      BY <1>3, <2>1, Facts DEF DriverType
    <2> HIDE DEF m
    <2>. QED BY <2>2, <2>3, Facts
  <1>5. DriverOK(drv[d])'
    BY <1>2, <1>4 DEF DriverOK, PlaceOK, MoveOK, AskOK, ReloadOK, pending_checkpoint
  <1>6. ApprovedPlanOnly' /\ ReviewedDiffWasVerified'
    BY <1>1, <1>2, Facts DEF ApprovedPlanOnly, ReviewedDiffWasVerified
  <1>7. answers' \in 0 .. MaxAnswers
    BY DEF IInv, TypeOK
  <1>. QED BY <1>2, <1>4, <1>5, <1>6, <1>7, QuietStep

\* What the agent is called on.
LEMMA ImplementingFacts ==
  ASSUME IInv, NEW d, Drivers = {d}, implementing(d)
  PROVE  /\ driving(d, IMPLEMENTATION) /\ run.stage = IMPLEMENTATION
         /\ progress.status = "saved" /\ ~pending_checkpoint(run)
         /\ drv[d].pc = "drive" /\ drv[d].run = run
  BY DrivingFacts, Stages DEF implementing

\* A batch of subtasks comes back with a diff.
LEMMA ImplementBatchOK ==
  ASSUME IInv, NEW d, Drivers = {d}, NEW files \in SUBSET Files, NEW lines \in DiffLines,
         ImplementBatch(d, files, lines)
  PROVE  IInv'
  <1> USE DEF ImplementBatch
  <1> DEFINE next    == next_subtask(progress.done)
             batch   == ready_subtask_batch(Head(next), progress.done)
             p       == [progress EXCEPT
                           !.done = @ \cup batch,
                           !.files = @ \cup files, !.lines = @ + lines, !.fails = 0]
             outcome == IF next_subtask(p.done) = <<>> THEN "verify" ELSE "continue"
  <1>1. /\ implementing(d) /\ next # <<>> /\ drv' = holding(d, "save_batch", p, outcome)
        /\ UNCHANGED <<run, plan, progress, late, crashes, answers, seen>>
    OBVIOUS
  <1>2. Head(next) \in SubtaskIds /\ ready(Head(next), progress.done)
    BY <1>1, NextSubtask
  <1>3. /\ batch \subseteq SubtaskIds /\ BatchOK(batch)
        /\ \A st \in batch : ready(st, progress.done)
    BY <1>2, Batch
  <1>4. lines \in Nat
    BY OrchestratorAssumption
  <1> HIDE DEF next, batch, ImplementBatch
  <1>5. /\ p \in ProgressType /\ Extends(p, progress) /\ p.done = progress.done \cup batch
        /\ p.fails = 0 /\ p.status = progress.status
    <2>1. p = WithBatch(progress, batch, files, lines)
      BY DEF WithBatch
    <2>2. progress \in ProgressType
      BY Facts
    <2>3. batch \in SUBSET SubtaskIds
      BY <1>3
    <2>4. files \in SUBSET Files
      OBVIOUS
    <2> HIDE DEF p, outcome
    <2>. QED BY <2>1, <2>2, <2>3, <2>4, <1>4, BatchRecorded
  <1>6. Closed(p.done) /\ p.done \ progress.done = batch
    BY <1>3, <1>5, Facts, BatchClosed DEF RunOK
  <1>7. /\ outcome \in {"continue", "verify"}
        /\ outcome = "verify" => Exhausted(p.done)
    BY NextSubtask
  <1> HIDE DEF p, outcome
  <1>9. /\ drv' \in [Drivers -> DriverType]
        /\ drv'[d].pc = "save_batch" /\ drv'[d].prog = p /\ drv'[d].outcome = outcome
    BY <1>1, <1>5, <1>7, Holding DEF PCs
  <1>10. SaveBatchOK(drv[d])' /\ SaveFailureOK(drv[d])' /\ SaveOK(drv[d])'
    <2>1. /\ Closed(drv'[d].prog.done) /\ BatchOK(drv'[d].prog.done \ progress'.done)
          /\ Extends(drv'[d].prog, progress') /\ drv'[d].prog.fails = 0
          /\ drv'[d].prog.status = "saved" /\ progress'.status = "saved"
          /\ drv'[d].outcome = "verify" => Exhausted(drv'[d].prog.done)
          /\ run'.stage = IMPLEMENTATION /\ ~pending_checkpoint(run')
          /\ drv'[d].outcome \in {"verify", "continue"}
      BY <1>1, <1>3, <1>5, <1>6, <1>7, <1>9, ImplementingFacts
    <2>. QED BY <2>1, <1>9 DEF SaveBatchOK, SaveFailureOK, SaveOK
  <1>11. seen' \in [approvedPlan : Nat, verified : DiffType, reviewed : DiffType,
                    decision : {"none", "continue", "extend_scope", "stop"}]
    BY <1>1 DEF IInv, TypeOK
  <1>. QED BY <1>1, <1>5, <1>7, <1>10, <1>11, ImplementingFacts, AboutToSave DEF Working

\* A fix-up comes back with a diff.
LEMMA ImplementFixupOK ==
  ASSUME IInv, NEW d, Drivers = {d}, NEW files \in SUBSET Files, NEW lines \in DiffLines,
         ImplementFixup(d, files, lines)
  PROVE  IInv'
  <1> USE DEF ImplementFixup
  <1> DEFINE p == [progress EXCEPT !.files = @ \cup files, !.lines = @ + lines,
                                   !.failure = "none"]
  <1>1. /\ implementing(d) /\ drv' = holding(d, "save", p, "verify")
        /\ UNCHANGED <<run, plan, progress, late, crashes, answers, seen>>
    OBVIOUS
  <1>2. Exhausted(progress.done)
    BY NextSubtask
  <1>3. lines \in Nat
    BY OrchestratorAssumption
  <1>4. /\ p \in ProgressType /\ p.done = progress.done /\ p.fails = progress.fails
        /\ p.status = progress.status /\ Extends(p, progress)
    <2>1. p = WithFixup(progress, files, lines)
      BY DEF WithFixup
    <2>2. progress \in ProgressType
      BY Facts
    <2> HIDE DEF p
    <2>. QED BY <2>1, <2>2, <1>3, FixupRecorded
  <1> HIDE DEF p, ImplementFixup
  <1>6. /\ drv' \in [Drivers -> DriverType]
        /\ drv'[d].pc = "save" /\ drv'[d].prog = p /\ drv'[d].outcome = "verify"
    BY <1>1, <1>4, Holding DEF PCs
  <1>7. SaveBatchOK(drv[d])' /\ SaveFailureOK(drv[d])' /\ SaveOK(drv[d])'
    BY <1>1, <1>2, <1>4, <1>6, ImplementingFacts
       DEF SaveBatchOK, SaveFailureOK, SaveOK, pending_checkpoint, Extends, Exhausted, ready
  <1>8. seen' \in [approvedPlan : Nat, verified : DiffType, reviewed : DiffType,
                   decision : {"none", "continue", "extend_scope", "stop"}]
    BY <1>1 DEF IInv, TypeOK
  <1>. QED BY <1>1, <1>4, <1>7, <1>8, ImplementingFacts, AboutToSave DEF Working

\* The agent raises: the failure is counted.
LEMMA ImplementRaisesOK ==
  ASSUME IInv, NEW d, Drivers = {d}, ImplementRaises(d)
  PROVE  IInv'
  <1> USE DEF ImplementRaises
  <1> DEFINE p == [progress EXCEPT !.fails = @ + 1]
  <1>1. /\ implementing(d) /\ drv' = holding(d, "save_failure", p, "continue")
        /\ UNCHANGED <<run, plan, progress, late, crashes, answers, seen>>
    OBVIOUS
  <1>2. /\ p \in ProgressType /\ p.fails = progress.fails + 1 /\ Diff(p) = Diff(progress)
        /\ p.status = progress.status /\ p.acked = progress.acked
    BY Facts, FailureCounted
  <1> HIDE DEF p, ImplementRaises
  <1>3. /\ drv' \in [Drivers -> DriverType]
        /\ drv'[d].pc = "save_failure" /\ drv'[d].prog = p /\ drv'[d].outcome = "continue"
    BY <1>1, <1>2, Holding DEF PCs
  <1>4. SaveBatchOK(drv[d])' /\ SaveFailureOK(drv[d])' /\ SaveOK(drv[d])'
    BY <1>1, <1>2, <1>3, ImplementingFacts
       DEF SaveBatchOK, SaveFailureOK, SaveOK, pending_checkpoint, Diff
  <1>5. seen' \in [approvedPlan : Nat, verified : DiffType, reviewed : DiffType,
                   decision : {"none", "continue", "extend_scope", "stop"}]
    BY <1>1 DEF IInv, TypeOK
  <1>. QED BY <1>1, <1>2, <1>4, <1>5, ImplementingFacts, AboutToSave DEF Working

\* Nothing to implement, nothing to repair.
LEMMA NothingToImplementOK ==
  ASSUME IInv, NEW d, Drivers = {d}, NothingToImplement(d)
  PROVE  IInv'
  <1> USE DEF NothingToImplement
  <1>1. Exhausted(progress.done)
    BY NextSubtask
  <1> DEFINE m == [drv[d] EXCEPT !.pc = "reload", !.outcome = "verify"]
  <1>2. drv' = [drv EXCEPT ![d] = m]
    BY Facts
  <1>3. m \in DriverType /\ m.pc = "reload" /\ m.outcome = "verify" /\ m.run = drv[d].run
    BY Facts DEF DriverType, PCs
  <1> HIDE DEF m
  <1>4. /\ drv' \in [Drivers -> DriverType]
        /\ drv'[d].pc = "reload" /\ drv'[d].outcome = "verify" /\ drv'[d].run = run
    BY <1>2, <1>3, Facts, ImplementingFacts
  <1>5. DriverOK(drv[d])'
    BY <1>1, <1>4, ImplementingFacts DEF DriverOK, PlaceOK, MoveOK, AskOK, ReloadOK,
       SaveBatchOK, SaveFailureOK, SaveOK, pending_checkpoint, Exhausted, ready
  <1>6. ~Excused(drv[d])
    BY ImplementingFacts DEF Excused
  <1>7. answers' \in 0 .. MaxAnswers
    BY DEF IInv, TypeOK
  <1>. QED BY <1>4, <1>5, <1>6, <1>7, UnseenStep

\* The verification answers.
LEMMA VerifyOK ==
  ASSUME IInv, NEW d, Drivers = {d}, NEW passed \in BOOLEAN, Verify(d, passed)
  PROVE  IInv'
  <1> USE DEF Verify
  <1>1. /\ driving(d, VERIFICATION) /\ run.stage = VERIFICATION /\ ~pending_checkpoint(run)
        /\ UNCHANGED <<run, plan, progress, late, crashes, answers>>
    BY DrivingFacts, Stages
  <1>2. progress.status = "saved" /\ Exhausted(progress.done)
    BY <1>1, Facts DEF RunOK, PostApproval
  <1>3. CASE passed
    <2> DEFINE p == [progress EXCEPT !.fails = 0, !.failure = "none"]
    <2>1. /\ drv' = holding(d, "save", p, "passed")
          /\ seen' = [seen EXCEPT !.verified = Diff(progress)]
      BY <1>2, <1>3
    <2>2. /\ p \in ProgressType /\ p.fails = 0 /\ Diff(p) = Diff(progress)
          /\ p.status = progress.status /\ p.acked = progress.acked /\ p.done = progress.done
          /\ Extends(p, progress)
      BY Facts, PassRecorded
    <2> HIDE DEF p, Verify
    <2>3. Diff(progress) \in DiffType
      BY Facts DEF ProgressType, Diff, DiffType
    <2>4. /\ seen' \in [approvedPlan : Nat, verified : DiffType, reviewed : DiffType,
                        decision : {"none", "continue", "extend_scope", "stop"}]
          /\ seen'.verified = Diff(progress) /\ seen'.approvedPlan = seen.approvedPlan
      BY <2>1, <2>3 DEF IInv, TypeOK
    <2>5. /\ drv' \in [Drivers -> DriverType]
          /\ drv'[d].pc = "save" /\ drv'[d].prog = p /\ drv'[d].outcome = "passed"
      BY <2>1, <2>2, Holding DEF PCs
    <2>6. SaveBatchOK(drv[d])' /\ SaveFailureOK(drv[d])' /\ SaveOK(drv[d])'
      BY <1>1, <1>2, <2>2, <2>4, <2>5
         DEF SaveBatchOK, SaveFailureOK, SaveOK, pending_checkpoint, Extends, Exhausted,
             ready, Diff
    <2>. QED BY <1>1, <2>1, <2>2, <2>4, <2>6, AboutToSave DEF Working
  <1>4. CASE ~passed
    <2> DEFINE p == [progress EXCEPT !.fails = @ + 1, !.failure = "failed"]
    <2>1. drv' = holding(d, "save_failure", p, "retry") /\ UNCHANGED seen
      BY <1>2, <1>4
    <2>2. /\ p \in ProgressType /\ p.fails = progress.fails + 1 /\ Diff(p) = Diff(progress)
          /\ p.status = progress.status /\ p.acked = progress.acked
      BY Facts, FailureCounted
    <2> HIDE DEF p, Verify
    <2>3. seen' \in [approvedPlan : Nat, verified : DiffType, reviewed : DiffType,
                     decision : {"none", "continue", "extend_scope", "stop"}]
      BY <2>1 DEF IInv, TypeOK
    <2>4. /\ drv' \in [Drivers -> DriverType]
          /\ drv'[d].pc = "save_failure" /\ drv'[d].prog = p /\ drv'[d].outcome = "retry"
      BY <2>1, <2>2, Holding DEF PCs
    <2>5. SaveBatchOK(drv[d])' /\ SaveFailureOK(drv[d])' /\ SaveOK(drv[d])'
      BY <1>1, <1>2, <2>2, <2>4
         DEF SaveBatchOK, SaveFailureOK, SaveOK, pending_checkpoint, Diff
    <2>. QED BY <1>1, <2>1, <2>2, <2>3, <2>5, AboutToSave DEF Working
  <1>. QED BY <1>3, <1>4

\* The loop ends at a question, a gate or a terminal stage.
LEMMA DriveReturnsOK ==
  ASSUME IInv, NEW d, Drivers = {d}, DriveReturns(d)
  PROVE  IInv'
  <1> USE DEF DriveReturns
  <1>1. drv' \in [Drivers -> DriverType] /\ drv'[d].pc = "idle"
    BY Facts, Rested
  <1>2. DriverOK(drv[d])'
    BY <1>1 DEF DriverOK, PlaceOK, MoveOK, AskOK, ReloadOK, SaveBatchOK, SaveFailureOK, SaveOK
  <1>3. /\ drv[d].pc = "drive" /\ drv[d].run = run
        /\ \/ pending_checkpoint(run)
           \/ run.stage \in TERMINAL_STAGES \cup {PLAN_APPROVAL_GATE, CHANGE_REVIEW_GATE}
    BY Facts DEF driving, DriverOK, PlaceOK
  <1>4. TypeOK' /\ RunOK' /\ ApprovedPlanOnly' /\ ReviewedDiffWasVerified'
    BY <1>1, Facts DEF IInv, TypeOK, RunOK, Closed, Exhausted, ready, pending_checkpoint,
       ApprovedPlanOnly, ReviewedDiffWasVerified, Diff
  <1>5. Excused(drv[d]) => Excused(drv[d])'
    BY <1>3 DEF Excused, pending_checkpoint
  <1>6. FailuresOK(drv[d])'
    BY <1>1, <1>5, Facts DEF FailuresOK, Room, StuckAcked, pending_checkpoint
  <1>7. RestOK(drv[d])'
    BY <1>3 DEF RestOK, pending_checkpoint
  <1>. QED BY <1>2, <1>4, <1>6, <1>7, Conclude

\* The number of stuck questions answered.
LEMMA AnsweredType ==
  ASSUME NEW p, IsFiniteSet(p.acked)
  PROVE  IsFiniteSet(StuckAcked(p)) /\ Cardinality(StuckAcked(p)) \in Nat
  <1>1. StuckAcked(p) \in SUBSET p.acked
    BY DEF StuckAcked
  <1>. QED BY <1>1, FS_Subset, FS_CardinalityType

\* The room for failures is a number.
LEMMA RoomType ==
  ASSUME IInv, NEW d, Drivers = {d}
  PROVE  Room \in Nat /\ Room >= DEFAULT_STUCK_RETRY_BUDGET /\ crashes \in Nat
  <1>1. crashes \in Nat
    BY DEF IInv, TypeOK
  <1>2. IsFiniteSet(progress.acked)
    BY Facts DEF FailuresOK
  <1>. QED BY <1>1, <1>2, AnsweredType DEF Room, DEFAULT_STUCK_RETRY_BUDGET

\* The process dies, at any place.
LEMMA CrashOK ==
  ASSUME IInv, NEW d, Drivers = {d}, Crash(d)
  PROVE  IInv'
  <1> USE DEF Crash
  <1>1. drv' \in [Drivers -> DriverType] /\ drv'[d].pc = "idle"
    BY Facts, Rested
  <1>2. DriverOK(drv[d])'
    BY <1>1 DEF DriverOK, PlaceOK, MoveOK, AskOK, ReloadOK, SaveBatchOK, SaveFailureOK, SaveOK
  <1>3. crashes' \in 0 .. MaxCrashes /\ crashes' = crashes + 1
    BY OrchestratorAssumption DEF IInv, TypeOK
  <1>4. TypeOK' /\ RunOK' /\ ApprovedPlanOnly' /\ ReviewedDiffWasVerified'
    BY <1>1, <1>3, Facts DEF IInv, TypeOK, RunOK, Closed, Exhausted, ready,
       pending_checkpoint, ApprovedPlanOnly, ReviewedDiffWasVerified, Diff
  <1>5. Room' = Room + 1 /\ Room \in Nat
    <2>1. IsFiniteSet(progress.acked)
      BY Facts DEF FailuresOK
    <2>2. Cardinality(StuckAcked(progress)) \in Nat
      BY <2>1, AnsweredType
    <2>3. Cardinality(StuckAcked(progress))' = Cardinality(StuckAcked(progress))
      BY DEF StuckAcked
    <2>. QED BY <2>2, <2>3, <1>3, RoomType DEF Room, DEFAULT_STUCK_RETRY_BUDGET
  <1>6. \A t \in StuckAcked(progress) : t.fails \in Nat
    BY Facts DEF StuckAcked, ProgressType, TriggerType
  <1>7. FailuresOK(drv[d])'
    <2>1. /\ StuckAcked(progress)' = StuckAcked(progress) /\ progress' = progress
          /\ run' = run
      BY DEF StuckAcked
    <2>. QED BY <1>1, <1>5, <1>6, <2>1, Facts DEF FailuresOK, pending_checkpoint
  <1>8. RestOK(drv[d])'
    BY <1>3, RoomType DEF RestOK
  <1>. QED BY <1>2, <1>4, <1>7, <1>8, Conclude

\* Time passes.
LEMMA TickOK ==
  ASSUME IInv, NEW d, Drivers = {d}, Tick
  PROVE  IInv'
  <1> USE DEF Tick
  <1>1. TypeOK' /\ RunOK' /\ ApprovedPlanOnly' /\ ReviewedDiffWasVerified'
    BY Facts DEF IInv, TypeOK, RunOK, Closed, Exhausted, ready, pending_checkpoint,
       ApprovedPlanOnly, ReviewedDiffWasVerified, Diff
  <1>2. DriverOK(drv[d])'
    <2>1. PlaceOK(drv[d])' /\ AskOK(drv[d])'
      BY Facts DEF DriverOK, PlaceOK, AskOK, pending_checkpoint, stuck, Trigger
    <2>2. MoveOK(drv[d])'
      BY Facts DEF DriverOK, MoveOK, pending_checkpoint, Diff, Exhausted, ready
    <2>3. ReloadOK(drv[d])'
      BY Facts DEF DriverOK, ReloadOK, pending_checkpoint, Diff, Exhausted, ready
    <2>4. SaveBatchOK(drv[d])'
      BY Facts DEF DriverOK, SaveBatchOK
    <2>5. SaveFailureOK(drv[d])' /\ SaveOK(drv[d])'
      BY Facts DEF DriverOK, SaveFailureOK, SaveOK, pending_checkpoint, Extends, Diff,
         Exhausted, ready
    <2>. QED BY <2>1, <2>2, <2>3, <2>4, <2>5 DEF DriverOK
  <1>3. FailuresOK(drv[d])' /\ RestOK(drv[d])'
    BY Facts DEF FailuresOK, RestOK, Room, StuckAcked, pending_checkpoint, Excused, stuck,
       Trigger
  <1>. QED BY <1>1, <1>2, <1>3, Conclude

\* A new progress file, after an approval or because there is none.
LEMMA FreshProgress ==
  ASSUME IInv, NEW d, Drivers = {d}, progress.status = "none",
         progress' = NewProgress, UNCHANGED <<run, plan, crashes, answers, seen>>,
         late' \in {"no", "warn", "over"},
         run.stage = IMPLEMENTATION, ~pending_checkpoint(run),
         drv' \in [Drivers -> DriverType], drv'[d].pc = "drive", drv'[d].run = run
  PROVE  IInv'
  <1>1. TypeOK'
    BY Constants DEF IInv, TypeOK
  <1>2. RunOK'
    BY Constants, Facts DEF RunOK, pending_checkpoint, Closed, Early, PostApproval
  <1>3. ApprovedPlanOnly' /\ ReviewedDiffWasVerified'
    BY Facts DEF ApprovedPlanOnly, ReviewedDiffWasVerified, PostReview
  <1>4. DriverOK(drv[d])'
    BY DEF DriverOK, PlaceOK, MoveOK, AskOK, ReloadOK, SaveBatchOK, SaveFailureOK, SaveOK
  <1>5. StuckAcked(progress)' = {} /\ Cardinality(StuckAcked(progress)') = 0
        /\ IsFiniteSet(progress'.acked) /\ progress'.fails = 0 /\ Cardinality({}) = 0
    BY Constants, FS_EmptySet DEF StuckAcked
  <1>6. crashes' \in Nat /\ Room' = DEFAULT_STUCK_RETRY_BUDGET + crashes'
    BY <1>5, RoomType DEF Room, DEFAULT_STUCK_RETRY_BUDGET
  <1>7. FailuresOK(drv[d])'
    BY <1>5, <1>6 DEF FailuresOK, pending_checkpoint, DEFAULT_STUCK_RETRY_BUDGET
  <1>8. RestOK(drv[d])'
    BY DEF RestOK
  <1>. QED BY <1>1, <1>2, <1>3, <1>4, <1>7, <1>8, Conclude

\* start_new after an approval, and the progress file a crash kept from being written.
LEMMA StartProgressOK ==
  ASSUME IInv, NEW d, Drivers = {d}, StartProgress(d) \/ InitProgress(d)
  PROVE  IInv'
  <1>1. CASE StartProgress(d)
    <2>1. /\ run.stage = IMPLEMENTATION /\ progress.status = "none"
      BY <1>1, Facts DEF StartProgress, DriverOK, PlaceOK
    <2>2. ~pending_checkpoint(run)
      BY <2>1, Facts DEF RunOK
    <2>3. /\ drv' \in [Drivers -> DriverType]
          /\ drv'[d].pc = "drive" /\ drv'[d].run = run
      BY <1>1, Facts, AtPlace DEF StartProgress, PCs
    <2>. QED BY <1>1, <2>1, <2>2, <2>3, FreshProgress DEF StartProgress
  <1>2. CASE InitProgress(d)
    <2>1. /\ drv[d].pc = "drive" /\ drv[d].run = run /\ run.stage = IMPLEMENTATION
          /\ ~pending_checkpoint(run)
      BY <1>2, DrivingFacts, Stages DEF InitProgress
    <2>2. late' \in {"no", "warn", "over"}
      BY <1>2 DEF InitProgress, IInv, TypeOK
    <2>. QED BY <1>2, <2>1, <2>2, Facts, FreshProgress DEF InitProgress
  <1>. QED BY <1>1, <1>2

\* The rows a driver writes: a new stage, a new question, a new attempt, always
\* under the next version.
LEMMA StageWritten ==
  ASSUME NEW r \in RowType, NEW s \in ALL_STAGES
  PROVE  LET q == [r EXCEPT !.stage = s, !.version = @ + 1]
         IN  q \in RowType /\ q.stage = s /\ q.ptr = r.ptr /\ q.version = r.version + 1
  <1>1. PICK v \in Nat : v = r.version + 1
    BY DEF RowType
  <1>2. LET q == [r EXCEPT !.stage = s, !.version = v]
        IN  q \in RowType /\ q.stage = s /\ q.ptr = r.ptr /\ q.version = v
    BY DEF RowType
  <1>. QED BY <1>1, <1>2

\* write_checkpoint changes the pointer and the version only.
LEMMA PointerWritten ==
  ASSUME NEW r \in RowType, NEW e \in ElicitationType
  PROVE  LET q == [r EXCEPT !.ptr = e, !.version = @ + 1]
         IN  q \in RowType /\ q.stage = r.stage /\ q.ptr = e /\ q.version = r.version + 1
  <1>1. PICK v \in Nat : v = r.version + 1
    BY DEF RowType
  <1>2. LET q == [r EXCEPT !.ptr = e, !.version = v]
        IN  q \in RowType /\ q.stage = r.stage /\ q.ptr = e /\ q.version = v
    BY DEF RowType
  <1>. QED BY <1>1, <1>2

\* append_attempt changes the stage, the version and the attempt only.
LEMMA AttemptWritten ==
  ASSUME NEW r \in RowType, NEW s \in ALL_STAGES
  PROVE  LET q == [r EXCEPT !.stage = s, !.version = @ + 1, !.attempt = @ + 1]
         IN  q \in RowType /\ q.stage = s /\ q.ptr = r.ptr /\ q.version = r.version + 1
  <1>1. PICK v \in Nat, a \in Nat : v = r.version + 1 /\ a = r.attempt + 1
    BY DEF RowType
  <1>2. LET q == [r EXCEPT !.stage = s, !.version = v, !.attempt = a]
        IN  q \in RowType /\ q.stage = s /\ q.ptr = r.ptr /\ q.version = v
    BY DEF RowType
  <1>. QED BY <1>1, <1>2

\* request_changes: a new attempt, at plan authoring.
LEMMA AppendAttemptOK ==
  ASSUME IInv, NEW d, Drivers = {d}, AppendAttempt(d)
  PROVE  IInv'
  <1> DEFINE row == [run EXCEPT !.stage = PLAN_AUTHORING, !.version = @ + 1, !.attempt = @ + 1]
  <1>1. drv[d].pc = "new_attempt" /\ drv[d].run = run /\ run.stage = PLAN_APPROVAL_GATE
    BY Facts DEF AppendAttempt, DriverOK, PlaceOK
  <1>2. /\ run' = row /\ drv' = at(d, "replan", row)
        /\ UNCHANGED <<plan, progress, late, crashes, answers, seen>>
    BY <1>1 DEF AppendAttempt, is_legal_transition, LEGAL_TRANSITIONS
  <1>3. row \in RowType /\ row.stage = PLAN_AUTHORING /\ row.ptr = run.ptr
    BY Facts, Stages, AttemptWritten
  <1> HIDE DEF row
  <1>4. /\ drv' \in [Drivers -> DriverType]
        /\ drv'[d].pc = "replan" /\ drv'[d].run = row
    BY <1>2, <1>3, Facts, AtPlace DEF PCs
  <1>5. ~pending_checkpoint(run) /\ progress.status = "none"
    BY <1>1, Facts DEF RunOK, Working, Early
  <1>6. TypeOK'
    BY <1>2, <1>3, <1>4 DEF IInv, TypeOK
  <1>7. RunOK' /\ ApprovedPlanOnly' /\ ReviewedDiffWasVerified'
    BY <1>2, <1>3, <1>5, Facts DEF RunOK, pending_checkpoint, PostApproval, PostReview, Early,
       Closed, ApprovedPlanOnly, ReviewedDiffWasVerified
  <1>8. DriverOK(drv[d])'
    BY <1>2, <1>3, <1>4, <1>5 DEF DriverOK, PlaceOK, MoveOK, AskOK, ReloadOK, SaveBatchOK,
       SaveFailureOK, SaveOK, pending_checkpoint
  <1>9. progress.fails < Room
    BY <1>1, <1>5, Facts DEF FailuresOK, Excused
  <1>10. FailuresOK(drv[d])'
    BY <1>2, <1>3, <1>4, <1>5, <1>9, Facts DEF FailuresOK, Room, StuckAcked, pending_checkpoint
  <1>11. RestOK(drv[d])'
    BY <1>4 DEF RestOK
  <1>. QED BY <1>6, <1>7, <1>8, <1>10, <1>11, Conclude

\* transition_stage on the row in memory, which is the current one: it is legal
\* and never refused.
LEMMA MoveFacts ==
  ASSUME IInv, NEW d, Drivers = {d}, Move(d)
  PROVE  LET me == drv[d]
             row == [run EXCEPT !.stage = me.target, !.version = @ + 1]
         IN  /\ run' = row /\ row \in RowType /\ row.stage = me.target
             /\ row.ptr = run.ptr /\ row.version = run.version + 1
             /\ drv' \in [Drivers -> DriverType] /\ drv'[d].pc = me.then
             /\ me.then # "idle" => drv'[d].run = row
             /\ UNCHANGED <<plan, progress, late, crashes, answers, seen>>
             /\ MoveOK(me) /\ me.pc = "move" /\ ~pending_checkpoint(run) /\ me.run = run
             /\ <<run.stage, me.target, me.then>> \in Routes \cup Abandons
  <1> DEFINE me  == drv[d]
             row == [run EXCEPT !.stage = me.target, !.version = @ + 1]
  <1>1. /\ me.pc = "move" /\ me.run = run /\ MoveOK(me) /\ ~pending_checkpoint(run)
        /\ <<run.stage, me.target, me.then>> \in Routes \cup Abandons
    BY Facts DEF Move, DriverOK, PlaceOK, MoveOK
  <1>2. is_legal_transition(run.stage, me.target)
    BY <1>1 DEF Routes, Abandons, is_legal_transition, LEGAL_TRANSITIONS, NON_TERMINAL_STAGES
  <1>3. /\ run' = row
        /\ IF me.then = "idle" THEN finished(d) ELSE drv' = at(d, me.then, row)
        /\ UNCHANGED <<plan, progress, late, crashes, answers, seen>>
    BY <1>1, <1>2 DEF Move
  <1>4. me.target \in ALL_STAGES /\ me.then \in PCs
    BY Facts DEF DriverType
  <1>5. /\ row \in RowType /\ row.stage = me.target /\ row.ptr = run.ptr
        /\ row.version = run.version + 1
    BY <1>4, Facts, StageWritten
  <1> HIDE DEF me, row
  <1>6. CASE me.then = "idle"
    BY <1>1, <1>3, <1>5, <1>6, Facts, Rested DEF me, row
  <1>7. CASE me.then # "idle"
    <2>1. drv' = at(d, me.then, row)
      BY <1>3, <1>7
    <2>2. /\ drv' \in [Drivers -> DriverType] /\ drv'[d].pc = me.then /\ drv'[d].run = row
      BY <2>1, <1>4, <1>5, Facts, AtPlace
    <2>. QED BY <1>1, <1>3, <1>5, <2>2 DEF me, row
  <1>. QED BY <1>6, <1>7

\* transition_stage keeps the invariant.
LEMMA MoveStepOK ==
  ASSUME IInv, NEW d, Drivers = {d}, Move(d)
  PROVE  IInv'
  <1> DEFINE me == drv[d]
  <1>1. /\ run' \in RowType /\ run'.stage = me.target /\ run'.ptr = run.ptr
        /\ run'.version = run.version + 1
        /\ drv' \in [Drivers -> DriverType] /\ drv'[d].pc = me.then
        /\ me.then # "idle" => drv'[d].run = run'
        /\ UNCHANGED <<plan, progress, late, crashes, answers, seen>>
        /\ MoveOK(me) /\ me.pc = "move" /\ ~pending_checkpoint(run)
        /\ <<run.stage, me.target, me.then>> \in Routes \cup Abandons
    BY MoveFacts
  <1> HIDE DEF me
  <1>2. ~pending_checkpoint(run)'
    BY <1>1 DEF pending_checkpoint
  <1>3. TypeOK'
    BY <1>1 DEF IInv, TypeOK
  <1>4. RunOK'
    <2>1. run'.stage \in Early => progress.status = "none"
      BY <1>1, Facts DEF Routes, Abandons, Early, RunOK
    <2>2. run'.stage \in {PLAN_APPROVAL_GATE} \cup PostApproval => plan.version # 0
      BY <1>1, Facts DEF Routes, Abandons, PostApproval, RunOK, MoveOK
    <2>3. run'.stage \in PostApproval \ {IMPLEMENTATION} =>
            progress.status = "saved" /\ Exhausted(progress.done)
      BY <1>1, Facts DEF Routes, Abandons, PostApproval, RunOK, MoveOK
    <2>4. progress' = progress /\ plan' = plan
      BY <1>1
    <2>. QED BY <1>2, <2>1, <2>2, <2>3, <2>4, Facts DEF RunOK
  <1>5. ApprovedPlanOnly'
    BY <1>1, Facts DEF Routes, Abandons, PostApproval, ApprovedPlanOnly, MoveOK, RunOK
  <1>6. ReviewedDiffWasVerified'
    <2>1. progress' = progress /\ seen' = seen
      BY <1>1
    <2>2. run'.stage = CHANGE_REVIEW_GATE => seen.verified = Diff(progress)
      BY <1>1 DEF MoveOK
    <2>3. run'.stage \in PostReview =>
            seen.reviewed = Diff(progress) /\ seen.verified = Diff(progress)
      BY <1>1, Facts DEF MoveOK, Routes, Abandons, PostReview, ReviewedDiffWasVerified
    <2>. QED BY <2>1, <2>2, <2>3 DEF ReviewedDiffWasVerified
  <1>7. DriverOK(drv[d])'
    <2>1. me.then \in {"idle", "drive", "fresh"}
      BY <1>1 DEF Routes, Abandons
    <2>2. me.then = "fresh" => run'.stage = IMPLEMENTATION /\ progress'.status = "none"
      BY <1>1, Facts DEF Routes, Abandons, RunOK, Early
    <2>. QED BY <1>1, <1>2, <2>1, <2>2 DEF DriverOK, PlaceOK, MoveOK, AskOK, ReloadOK,
            SaveBatchOK, SaveFailureOK, SaveOK, pending_checkpoint
  <1>8. FailuresOK(drv[d])'
    <2>1. me.target # ABANDONED => progress.fails < Room
      BY <1>1, Facts DEF FailuresOK, Excused, Routes, Abandons, me
    <2>2. drv'[d].pc # "ack"
      BY <1>1 DEF Routes, Abandons
    <2>3. /\ progress' = progress /\ Room' = Room
          /\ StuckAcked(progress)' = StuckAcked(progress)
      BY <1>1 DEF Room, StuckAcked
    <2>. QED BY <1>1, <1>2, <2>1, <2>2, <2>3, Facts DEF FailuresOK, Excused
  <1>9. RestOK(drv[d])'
    BY <1>1 DEF RestOK, Routes, Abandons, TERMINAL_STAGES
  <1>. QED BY <1>3, <1>4, <1>5, <1>6, <1>7, <1>8, <1>9, Conclude

\* write_checkpoint: the question is put, on the current row.
LEMMA AskStepOK ==
  ASSUME IInv, NEW d, Drivers = {d}, Ask(d)
  PROVE  IInv'
  <1> DEFINE me  == drv[d]
             e   == [trigger |-> me.trigger, stage |-> me.run.stage,
                     status |-> "pending", decision |-> "none"]
             row == [run EXCEPT !.ptr = e, !.version = @ + 1]
             m   == [[Idle EXCEPT !.pc = "reload", !.run = row] EXCEPT !.outcome = "paused"]
  <1>1. me.pc = "ask" /\ me.run = run /\ AskOK(me)
    BY Facts DEF Ask, DriverOK, PlaceOK
  <1>2. /\ run' = row /\ drv' = [at(d, "reload", row) EXCEPT ![d].outcome = "paused"]
        /\ UNCHANGED <<plan, progress, late, crashes, answers, seen>>
    BY <1>1 DEF Ask
  <1>3. e \in ElicitationType /\ e.trigger = me.trigger /\ e.status = "pending"
    BY <1>1, Facts DEF ElicitationType
  <1>4. row \in RowType /\ row.stage = run.stage /\ row.ptr = e
    <2> HIDE DEF e
    <2>. QED BY <1>3, Facts, PointerWritten
  <1> HIDE DEF row, e
  <1>5. m \in DriverType /\ m.pc = "reload" /\ m.run = row /\ m.outcome = "paused"
    BY <1>4, Constants DEF DriverType, RowType, PCs
  <1>6. drv' = [drv EXCEPT ![d] = m]
    BY <1>2, Facts DEF at
  <1> HIDE DEF m
  <1>7. /\ drv' \in [Drivers -> DriverType] /\ drv'[d].pc = "reload" /\ drv'[d].run = row
        /\ drv'[d].outcome = "paused"
    BY <1>5, <1>6, Facts
  <1>8. TypeOK'
    BY <1>2, <1>4, <1>7 DEF IInv, TypeOK
  <1>9. RunOK'
    BY <1>1, <1>2, <1>4, Facts DEF RunOK, AskOK
  <1>10. ApprovedPlanOnly' /\ ReviewedDiffWasVerified'
    BY <1>2, <1>4, Facts DEF ApprovedPlanOnly, ReviewedDiffWasVerified
  <1>11. DriverOK(drv[d])'
    BY <1>1, <1>2, <1>4, <1>7 DEF DriverOK, PlaceOK, MoveOK, AskOK, ReloadOK, SaveBatchOK,
       SaveFailureOK, SaveOK
  <1>12. FailuresOK(drv[d])'
    <2>1. /\ progress' = progress /\ Room' = Room
          /\ StuckAcked(progress)' = StuckAcked(progress)
      BY <1>2 DEF Room, StuckAcked
    <2>2. run'.ptr.trigger = me.trigger /\ pending_checkpoint(run')
      BY <1>2, <1>3, <1>4 DEF pending_checkpoint
    <2>3. me.trigger.kind # "stuck" => progress.fails < Room
      BY <1>1, Facts DEF FailuresOK, Excused, AskOK, Working
    <2>4. me.trigger.kind = "stuck" =>
            me.trigger = stuck(progress.fails) /\ me.trigger \notin progress.acked
      BY <1>1 DEF AskOK
    <2>. QED BY <2>1, <2>2, <2>3, <2>4, Facts DEF FailuresOK, Excused
  <1>13. RestOK(drv[d])'
    BY <1>7 DEF RestOK
  <1>. QED BY <1>8, <1>9, <1>10, <1>11, <1>12, <1>13, Conclude

\* resolve_checkpoint writes the answer.
LEMMA ResolveFacts ==
  ASSUME IInv, NEW d, Drivers = {d}, Resolve(d)
  PROVE  /\ drv[d].pc = "resolve" /\ drv[d].run = run /\ pending_checkpoint(run)
         /\ drv[d].decision \in {"continue", "extend_scope", "stop"}
         /\ run' \in RowType /\ run'.stage = run.stage /\ run'.ptr.trigger = run.ptr.trigger
         /\ run'.ptr.status = "resolved"
         /\ drv' \in [Drivers -> DriverType] /\ drv'[d].run = run'
         /\ drv[d].decision = "stop" =>
              drv'[d].pc = "move" /\ drv'[d].target = ABANDONED /\ drv'[d].then = "idle"
         /\ drv[d].decision # "stop" => drv'[d].pc = "ack"
         /\ UNCHANGED <<plan, progress, late, crashes, answers, seen>>
  <1> DEFINE me  == drv[d]
             e   == [run.ptr EXCEPT !.status = "resolved", !.decision = me.decision]
             row == [run EXCEPT !.ptr = e, !.version = @ + 1]
             base == [Idle EXCEPT !.pc = "ack", !.run = row]
             m   == [base EXCEPT !.decision = me.decision]
  <1>1. /\ me.pc = "resolve" /\ me.run = run /\ pending_checkpoint(run)
        /\ me.decision \in {"continue", "extend_scope", "stop"}
    BY Facts DEF Resolve, DriverOK, PlaceOK, DriverType
  <1>2. /\ run' = row
        /\ IF me.decision = "stop" THEN drv' = moving(d, row, ABANDONED, "idle")
           ELSE drv' = [at(d, "ack", row) EXCEPT ![d].decision = me.decision]
        /\ UNCHANGED <<plan, progress, late, crashes, answers, seen>>
    BY <1>1 DEF Resolve
  <1>3. run.ptr \in ElicitationType
    BY Facts DEF RowType
  <1>4. e \in ElicitationType /\ e.trigger = run.ptr.trigger /\ e.status = "resolved"
    BY <1>1, <1>3 DEF ElicitationType
  <1>5. row \in RowType /\ row.stage = run.stage /\ row.ptr = e
    <2> HIDE DEF e
    <2>. QED BY <1>4, Facts, PointerWritten
  <1> HIDE DEF row, e
  <1>6. CASE me.decision = "stop"
    <2>1. drv' = moving(d, row, ABANDONED, "idle")
      BY <1>2, <1>6
    <2>2. /\ drv' \in [Drivers -> DriverType] /\ drv'[d].pc = "move" /\ drv'[d].run = row
          /\ drv'[d].target = ABANDONED /\ drv'[d].then = "idle"
      BY <2>1, <1>5, Facts, MovingTo, Stages DEF PCs
    <2>. QED BY <1>1, <1>2, <1>4, <1>5, <1>6, <2>2
  <1>7. CASE me.decision # "stop"
    <2>1. base \in DriverType /\ base.pc = "ack" /\ base.run = row
      BY <1>5, Constants DEF DriverType, RowType, PCs
    <2>2. drv' = [drv EXCEPT ![d] = m]
      BY <1>2, <1>7, Facts DEF at
    <2> HIDE DEF base
    <2>3. m \in DriverType /\ m.pc = "ack" /\ m.run = row
      BY <2>1, <1>1 DEF DriverType
    <2> HIDE DEF m
    <2>4. drv' \in [Drivers -> DriverType] /\ drv'[d].pc = "ack" /\ drv'[d].run = row
      BY <2>2, <2>3, Facts
    <2>. QED BY <1>1, <1>2, <1>4, <1>5, <1>7, <2>4
  <1>. QED BY <1>6, <1>7

\* The recorded answer keeps the invariant.
LEMMA ResolveOK ==
  ASSUME IInv, NEW d, Drivers = {d}, Resolve(d)
  PROVE  IInv'
  <1>1. run.stage \in Working /\ progress.status = "saved"
    BY ResolveFacts, Facts DEF RunOK
  <1>2. ~pending_checkpoint(run')
    BY ResolveFacts DEF pending_checkpoint
  <1>3. TypeOK'
    BY ResolveFacts DEF IInv, TypeOK
  <1>4. RunOK' /\ ApprovedPlanOnly' /\ ReviewedDiffWasVerified'
    BY <1>2, ResolveFacts, Facts DEF RunOK, ApprovedPlanOnly, ReviewedDiffWasVerified
  <1>5. DriverOK(drv[d])'
    <2>1. CASE drv[d].decision = "stop"
      BY <1>1, <1>2, <2>1, ResolveFacts DEF DriverOK, PlaceOK, MoveOK, AskOK, ReloadOK,
         SaveBatchOK, SaveFailureOK, SaveOK, Abandons, Working
    <2>2. CASE drv[d].decision # "stop"
      BY <1>1, <1>2, <2>2, ResolveFacts DEF DriverOK, PlaceOK, MoveOK, AskOK, ReloadOK,
         SaveBatchOK, SaveFailureOK, SaveOK
    <2>. QED BY <2>1, <2>2
  <1>6. FailuresOK(drv[d])'
    <2>1. /\ progress' = progress /\ Room' = Room
          /\ StuckAcked(progress)' = StuckAcked(progress)
      BY ResolveFacts DEF Room, StuckAcked
    <2>2. run.ptr.trigger.kind # "stuck" => progress.fails < Room
      BY <1>1, ResolveFacts, Facts DEF FailuresOK, Excused, Working
    <2>3. run.ptr.trigger.kind = "stuck" =>
            run.ptr.trigger = stuck(progress.fails) /\ run.ptr.trigger \notin progress.acked
      BY ResolveFacts, Facts DEF FailuresOK
    <2>. QED BY <1>2, <2>1, <2>2, <2>3, ResolveFacts, Facts DEF FailuresOK, Excused
  <1>7. RestOK(drv[d])'
    BY ResolveFacts DEF RestOK
  <1>. QED BY <1>3, <1>4, <1>5, <1>6, <1>7, Conclude

\* One more answer: a stuck question answered makes room for one failure more.
LEMMA AnswerMakesRoom ==
  ASSUME NEW p, IsFiniteSet(p.acked), NEW t, NEW q, q.acked = p.acked \cup {t}
  PROVE  /\ IsFiniteSet(q.acked)
         /\ t.kind # "stuck" => StuckAcked(q) = StuckAcked(p)
         /\ t.kind = "stuck" => StuckAcked(q) = StuckAcked(p) \cup {t}
         /\ t.kind = "stuck" /\ t \notin p.acked =>
              Cardinality(StuckAcked(q)) = Cardinality(StuckAcked(p)) + 1
  <1>1. IsFiniteSet(q.acked)
    BY FS_AddElement
  <1>2. /\ t.kind # "stuck" => StuckAcked(q) = StuckAcked(p)
        /\ t.kind = "stuck" => StuckAcked(q) = StuckAcked(p) \cup {t}
    BY DEF StuckAcked
  <1>3. t \notin p.acked => t \notin StuckAcked(p)
    BY DEF StuckAcked
  <1>4. IsFiniteSet(StuckAcked(p))
    BY AnsweredType
  <1>5. t \notin StuckAcked(p) =>
          Cardinality(StuckAcked(p) \cup {t}) = Cardinality(StuckAcked(p)) + 1
    BY <1>4, FS_AddElement
  <1>. QED BY <1>1, <1>2, <1>3, <1>5

\* The answer is recorded with the progress.
LEMMA AcknowledgeOK ==
  ASSUME IInv, NEW d, Drivers = {d}, Acknowledge(d)
  PROVE  IInv'
  <1> DEFINE me == drv[d]
             t  == run.ptr.trigger
  <1>1. /\ me.pc = "ack" /\ me.run = run /\ run.stage \in Working
        /\ progress.status = "saved"
    BY Facts DEF Acknowledge, DriverOK, PlaceOK
  <1>2. /\ progress' = [progress EXCEPT !.acked = @ \cup {t}]
        /\ UNCHANGED <<run, plan, late, crashes, answers, seen>>
        /\ \E pc \in {"widen", "drive"} : drv' = at(d, pc, run)
    BY <1>1 DEF Acknowledge
  <1>3. /\ drv' \in [Drivers -> DriverType] /\ drv'[d].pc \in {"widen", "drive"}
        /\ drv'[d].run = run
    BY <1>2, Facts, AtPlace DEF PCs
  <1>4. t \in TriggerType
    BY Facts DEF RowType, ElicitationType
  <1> HIDE DEF t
  <1>5. /\ progress' \in ProgressType /\ progress'.acked = progress.acked \cup {t}
        /\ progress'.fails = progress.fails /\ progress'.done = progress.done
        /\ progress'.status = "saved" /\ Diff(progress') = Diff(progress)
    BY <1>1, <1>2, <1>4, Facts DEF ProgressType, Diff
  <1>6. ~pending_checkpoint(run)
    BY <1>1, Facts DEF DriverOK, PlaceOK
  <1>7. TypeOK'
    BY <1>2, <1>3, <1>5 DEF IInv, TypeOK
  <1>8. RunOK' /\ ApprovedPlanOnly' /\ ReviewedDiffWasVerified'
    BY <1>1, <1>2, <1>5, <1>6, Facts DEF RunOK, ApprovedPlanOnly, ReviewedDiffWasVerified,
       Working, Early, PostReview
  <1>9. DriverOK(drv[d])'
    BY <1>1, <1>2, <1>3, <1>5, <1>6 DEF DriverOK, PlaceOK, MoveOK, AskOK, ReloadOK,
       SaveBatchOK, SaveFailureOK, SaveOK
  <1>10. /\ IsFiniteSet(progress'.acked)
         /\ t.kind # "stuck" => StuckAcked(progress') = StuckAcked(progress)
         /\ t.kind = "stuck" => StuckAcked(progress') = StuckAcked(progress) \cup {t}
         /\ t.kind = "stuck" /\ t \notin progress.acked =>
              Cardinality(StuckAcked(progress')) = Cardinality(StuckAcked(progress)) + 1
    BY <1>5, Facts, AnswerMakesRoom DEF FailuresOK
  <1>11. FailuresOK(drv[d])'
    <2>1. CASE t.kind # "stuck"
      <3>1. progress.fails < Room
        BY <1>1, <1>6, <2>1, Facts DEF FailuresOK, Excused, Working, t
      <3>2. Room' = Room /\ StuckAcked(progress') = StuckAcked(progress)
        BY <1>2, <1>10, <2>1 DEF Room
      <3>. QED BY <1>2, <1>3, <1>5, <1>6, <1>10, <3>1, <3>2, Facts DEF FailuresOK
    <2>2. CASE t.kind = "stuck"
      <3>1. t = stuck(progress.fails) /\ t \notin progress.acked
        BY <1>1, <2>2, Facts DEF FailuresOK, t
      <3>2. t.fails = progress.fails
        BY <3>1 DEF stuck, Trigger
      <3>3. Cardinality(StuckAcked(progress)) \in Nat
        BY Facts, AnsweredType DEF FailuresOK
      <3>7. Cardinality(StuckAcked(progress')) = Cardinality(StuckAcked(progress)) + 1
        BY <1>10, <2>2, <3>1
      <3>4. Room' = Room + 1 /\ Room \in Nat
        <4>1. crashes \in Nat /\ Room \in Nat
          BY RoomType
        <4>2. Room = 3 + crashes + Cardinality(StuckAcked(progress))
          BY DEF Room, DEFAULT_STUCK_RETRY_BUDGET
        <4>3. Room' = 3 + crashes + Cardinality(StuckAcked(progress'))
          BY <1>2 DEF Room, DEFAULT_STUCK_RETRY_BUDGET
        <4>. QED BY <4>1, <4>2, <4>3, <3>3, <3>7
      <3>5. progress'.fails < Room' /\ progress'.fails <= Room'
        BY <3>4, <1>5, Facts DEF FailuresOK
      <3>6. ASSUME NEW u \in StuckAcked(progress') PROVE u.fails < Room'
        <4>1. CASE u = t
          BY <3>2, <3>5, <1>5, <4>1
        <4>2. CASE u # t
          <5>1. u \in StuckAcked(progress) /\ u.fails < Room
            BY <4>2, <1>10, <2>2, Facts DEF FailuresOK
          <5>2. u.fails \in Nat
            BY <5>1, Facts DEF StuckAcked, ProgressType, TriggerType
          <5>. QED BY <5>1, <5>2, <3>4
        <4>. QED BY <4>1, <4>2
      <3>. QED BY <1>2, <1>3, <1>6, <1>10, <3>5, <3>6 DEF FailuresOK
    <2>. QED BY <2>1, <2>2
  <1>12. RestOK(drv[d])'
    BY <1>3 DEF RestOK
  <1>. QED BY <1>7, <1>8, <1>9, <1>11, <1>12, Conclude

\* extend_scope: a new plan version with the scope the human agreed to.
LEMMA ExtendOK ==
  ASSUME IInv, NEW d, Drivers = {d}, ExtendDeclaredScope(d)
  PROVE  IInv'
  <1> USE DEF ExtendDeclaredScope
  <1>1. drv[d].pc = "widen" /\ drv[d].run = run /\ run.stage \in Working
    BY Facts DEF DriverOK, PlaceOK
  <1>2. run.ptr.trigger.out \in SUBSET Files
    BY Facts DEF RowType, ElicitationType, TriggerType
  <1>3. /\ plan \in [version : Nat, scope : SUBSET Files]
        /\ seen \in [approvedPlan : Nat, verified : DiffType, reviewed : DiffType,
                     decision : {"none", "continue", "extend_scope", "stop"}]
    BY DEF IInv, TypeOK
  <1>4. plan' \in [version : Nat, scope : SUBSET Files] /\ plan'.version = plan.version + 1
    BY <1>1, <1>2, <1>3
  <1>5. /\ drv' \in [Drivers -> DriverType] /\ drv'[d].pc = "drive" /\ drv'[d].run = run
    BY Facts, AtPlace DEF PCs
  <1>6. seen.approvedPlan = plan.version /\ plan.version # 0
    BY <1>1, Facts DEF ApprovedPlanOnly, Working, PostApproval
  <1>7. /\ seen' \in [approvedPlan : Nat, verified : DiffType, reviewed : DiffType,
                      decision : {"none", "continue", "extend_scope", "stop"}]
        /\ seen'.approvedPlan = plan'.version
        /\ seen'.verified = seen.verified /\ seen'.reviewed = seen.reviewed
    <2>1. PICK v \in Nat : v = plan.version + 1
      BY <1>3
    <2>2. seen' = [seen EXCEPT !.approvedPlan = v]
      BY <1>6, <2>1
    <2>. QED BY <2>1, <2>2, <1>3, <1>4
  <1>8. ~pending_checkpoint(run)
    BY <1>1, Facts DEF DriverOK, PlaceOK
  <1>9. TypeOK'
    BY <1>4, <1>5, <1>7 DEF IInv, TypeOK
  <1>10. RunOK'
    BY <1>1, <1>4, <1>8, Facts DEF RunOK, Working
  <1>11. ApprovedPlanOnly' /\ ReviewedDiffWasVerified'
    BY <1>1, <1>3, <1>4, <1>7, Facts DEF ApprovedPlanOnly, ReviewedDiffWasVerified, Working,
       PostReview
  <1>12. DriverOK(drv[d])'
    BY <1>5, <1>8 DEF DriverOK, PlaceOK, MoveOK, AskOK, ReloadOK, SaveBatchOK,
       SaveFailureOK, SaveOK
  <1>13. FailuresOK(drv[d])'
    <2>1. progress.fails < Room
      BY <1>1, <1>8, Facts DEF FailuresOK, Excused, Working
    <2>2. Room' = Room /\ StuckAcked(progress)' = StuckAcked(progress)
      BY DEF Room, StuckAcked
    <2>. QED BY <1>5, <1>8, <2>1, <2>2, Facts DEF FailuresOK
  <1>14. RestOK(drv[d])'
    BY <1>5 DEF RestOK
  <1>. QED BY <1>9, <1>10, <1>11, <1>12, <1>13, <1>14, Conclude

\* The progress is written; a question is next, or the run is read again.
LEMMA SavingFacts ==
  ASSUME IInv, NEW d, Drivers = {d}, NEW ts, saving(d, ts),
         drv[d].pc \in {"save_batch", "save_failure", "save"},
         ts # <<>> => Head(ts) \in TriggerType
  PROVE  /\ progress' = drv[d].prog /\ UNCHANGED <<run, plan, late, crashes, answers, seen>>
         /\ drv' \in [Drivers -> DriverType] /\ drv'[d].run = run
         /\ drv'[d].outcome = drv[d].outcome
         /\ ts = <<>> => drv'[d].pc = "reload"
         /\ ts # <<>> => drv'[d].pc = "ask" /\ drv'[d].trigger = Head(ts)
  <1>1. progress' = drv[d].prog /\ UNCHANGED <<run, plan, late, crashes, answers, seen>>
    BY DEF saving
  <1>2. drv[d].run = run
    BY Facts DEF DriverOK, PlaceOK
  <1>3. CASE ts = <<>>
    <2> DEFINE m == [drv[d] EXCEPT !.pc = "reload"]
    <2>1. drv' = [drv EXCEPT ![d] = m]
      BY <1>3, Facts DEF saving
    <2>2. m \in DriverType /\ m.pc = "reload" /\ m.run = run /\ m.outcome = drv[d].outcome
      BY <1>2, Facts DEF DriverType, PCs
    <2> HIDE DEF m
    <2>. QED BY <1>1, <1>3, <2>1, <2>2, Facts
  <1>4. CASE ts # <<>>
    <2> DEFINE m == [drv[d] EXCEPT !.pc = "ask", !.trigger = Head(ts)]
    <2>1. drv' = [drv EXCEPT ![d] = m]
      BY <1>4, Facts DEF saving
    <2>2. /\ m \in DriverType /\ m.pc = "ask" /\ m.run = run /\ m.outcome = drv[d].outcome
          /\ m.trigger = Head(ts)
      BY <1>2, <1>4, Facts DEF DriverType, PCs
    <2> HIDE DEF m
    <2>. QED BY <1>1, <1>4, <2>1, <2>2, Facts
  <1>. QED BY <1>3, <1>4

\* What the three saves have in common: the run is being worked on, the answers
\* given are kept, and the failures are within the room or a stuck question is next.
LEMMA SavedOK ==
  ASSUME IInv, NEW d, Drivers = {d}, NEW ts, saving(d, ts),
         drv[d].pc \in {"save_batch", "save_failure", "save"},
         ts # <<>> => Head(ts) \in TriggerType,
         run.stage \in Working, ~pending_checkpoint(run),
         drv[d].prog.status = "saved", drv[d].prog.acked = progress.acked,
         Closed(drv[d].prog.done),
         run.stage = VERIFICATION => Exhausted(drv[d].prog.done),
         ts = <<>> => ReloadOK(drv[d])',
         ts # <<>> /\ Head(ts).kind = "stuck" =>
           Head(ts) = stuck(drv[d].prog.fails) /\ Head(ts) \notin drv[d].prog.acked,
         drv[d].prog.fails <= Room,
         drv[d].prog.fails < Room \/ (ts # <<>> /\ Head(ts).kind = "stuck")
  PROVE  IInv'
  <1>1. /\ progress' = drv[d].prog /\ UNCHANGED <<run, plan, late, crashes, answers, seen>>
        /\ drv' \in [Drivers -> DriverType] /\ drv'[d].run = run
        /\ ts = <<>> => drv'[d].pc = "reload"
        /\ ts # <<>> => drv'[d].pc = "ask" /\ drv'[d].trigger = Head(ts)
    BY SavingFacts
  <1>2. drv[d].prog \in ProgressType
    BY Facts
  <1>3. TypeOK'
    BY <1>1, <1>2 DEF IInv, TypeOK
  <1>4. RunOK'
    BY <1>1, Facts DEF RunOK, Working, Early, PostApproval
  <1>5. ApprovedPlanOnly' /\ ReviewedDiffWasVerified'
    BY <1>1, Facts DEF ApprovedPlanOnly, ReviewedDiffWasVerified, Working, PostReview
  <1>6. DriverOK(drv[d])'
    <2>1. CASE ts = <<>>
      BY <1>1, <2>1 DEF DriverOK, PlaceOK, MoveOK, AskOK, SaveBatchOK, SaveFailureOK, SaveOK
    <2>2. CASE ts # <<>>
      BY <1>1, <2>2 DEF DriverOK, PlaceOK, MoveOK, AskOK, ReloadOK, SaveBatchOK,
         SaveFailureOK, SaveOK
    <2>. QED BY <2>1, <2>2
  <1>7. FailuresOK(drv[d])'
    <2>1. StuckAcked(progress') = StuckAcked(progress) /\ progress'.acked = progress.acked
      BY <1>1 DEF StuckAcked
    <2>2. Room' = Room
      BY <1>1, <2>1 DEF Room
    <2>. QED BY <1>1, <2>1, <2>2, Facts DEF FailuresOK, Excused
  <1>8. RestOK(drv[d])'
    BY <1>1 DEF RestOK
  <1>. QED BY <1>3, <1>4, <1>5, <1>6, <1>7, <1>8, Conclude

\* A batch is saved.
LEMMA SaveBatchStepOK ==
  ASSUME IInv, NEW d, Drivers = {d}, SaveBatch(d)
  PROVE  IInv'
  <1> DEFINE ts == any_trigger(drv[d].prog, drv[d].scope)
  <1>1. drv[d].pc = "save_batch" /\ saving(d, ts)
    BY DEF SaveBatch
  <1>2. /\ run.stage = IMPLEMENTATION /\ ~pending_checkpoint(run)
        /\ drv[d].prog.status = "saved"
        /\ drv[d].prog.acked = progress.acked /\ drv[d].prog.fails = 0
        /\ Closed(drv[d].prog.done)
        /\ drv[d].outcome \in {"verify", "continue"}
        /\ drv[d].outcome = "verify" => Exhausted(drv[d].prog.done)
    BY <1>1, Facts DEF DriverOK, SaveBatchOK, Extends
  <1>3. ts # <<>> =>
          /\ Head(ts) \in TriggerType
          /\ Head(ts).kind = "stuck" =>
               Head(ts) = stuck(drv[d].prog.fails) /\ Head(ts) \notin drv[d].prog.acked
    BY Facts, FirstTrigger DEF any_trigger
  <1> HIDE DEF ts
  <1>4. ts = <<>> => ReloadOK(drv[d])'
    <2>1. ts = <<>> => /\ progress' = drv[d].prog /\ run' = run
                       /\ drv'[d].outcome = drv[d].outcome
      BY <1>1, <1>3, SavingFacts
    <2>. QED BY <2>1, <1>2 DEF ReloadOK
  <1>5. 0 <= Room /\ 0 < Room
    BY RoomType DEF DEFAULT_STUCK_RETRY_BUDGET
  <1>6. run.stage \in Working
    BY <1>2 DEF Working
  <1>. QED BY <1>1, <1>2, <1>3, <1>4, <1>5, <1>6, SavedOK

\* A failure is saved: the retry budget decides whether to ask.
LEMMA SaveFailureStepOK ==
  ASSUME IInv, NEW d, Drivers = {d}, SaveFailure(d)
  PROVE  IInv'
  <1> DEFINE p  == drv[d].prog
             ts == stuck_trigger(p, drv[d].scope)
  <1>1. drv[d].pc = "save_failure" /\ saving(d, ts)
    BY DEF SaveFailure
  <1>2. /\ ~pending_checkpoint(run) /\ p.status = "saved"
        /\ p.done = progress.done /\ p.acked = progress.acked
        /\ p.fails = progress.fails + 1
        /\ <<run.stage, drv[d].outcome>>
             \in {<<IMPLEMENTATION, "continue">>, <<VERIFICATION, "retry">>}
    BY <1>1, Facts DEF DriverOK, SaveFailureOK, Diff
  <1>3. ts # <<>> =>
          /\ Head(ts) \in TriggerType /\ Head(ts).kind = "stuck"
          /\ Head(ts) = stuck(p.fails) /\ Head(ts) \notin p.acked
    BY Facts, FirstTrigger DEF stuck_trigger
  <1>4. ts = <<>> =>
          p.fails < DEFAULT_STUCK_RETRY_BUDGET \/ stuck(p.fails) \in p.acked
    BY Facts, NoTrigger DEF stuck_trigger
  <1> HIDE DEF ts
  <1>5. progress.fails < Room /\ Room \in Nat /\ Room >= DEFAULT_STUCK_RETRY_BUDGET
    BY <1>1, <1>2, Facts, RoomType DEF FailuresOK, Excused
  <1>6. p.fails <= Room /\ p.fails \in Nat
    BY <1>2, <1>5, Facts
  <1>7. ts = <<>> => p.fails < Room
    <2>1. ASSUME stuck(p.fails) \in p.acked PROVE p.fails < Room
      <3>1. stuck(p.fails).kind = "stuck" /\ stuck(p.fails).fails = p.fails
        BY DEF stuck, Trigger
      <3>2. stuck(p.fails) \in StuckAcked(progress)
        BY <2>1, <3>1, <1>2 DEF StuckAcked
      <3>. QED BY <3>1, <3>2, Facts DEF FailuresOK
    <2>2. ASSUME p.fails < DEFAULT_STUCK_RETRY_BUDGET PROVE p.fails < Room
      BY <2>2, <1>5, <1>6 DEF DEFAULT_STUCK_RETRY_BUDGET
    <2>. QED BY <2>1, <2>2, <1>4
  <1>8. /\ Closed(p.done) /\ run.stage \in Working
        /\ run.stage = VERIFICATION => Exhausted(p.done)
    BY <1>2, Facts DEF RunOK, Working, PostApproval
  <1>9. ts = <<>> => ReloadOK(drv[d])'
    <2>1. ts = <<>> => /\ progress' = p /\ run' = run
                       /\ drv'[d].outcome = drv[d].outcome
      BY <1>1, <1>3, SavingFacts
    <2>. QED BY <2>1, <1>2 DEF ReloadOK
  <1>. QED BY <1>1, <1>2, <1>3, <1>6, <1>7, <1>8, <1>9, SavedOK

\* A fix-up or a passed verification is saved.
LEMMA SaveStepOK ==
  ASSUME IInv, NEW d, Drivers = {d}, Save(d)
  PROVE  IInv'
  <1> DEFINE p  == drv[d].prog
  <1>1. drv[d].pc = "save" /\ saving(d, <<>>) /\ SaveOK(drv[d])
    BY Facts DEF Save, DriverOK
  <1>2. /\ ~pending_checkpoint(run) /\ p.status = "saved"
        /\ p.acked = progress.acked /\ p.done = progress.done
        /\ p.fails \in {0, progress.fails} /\ Exhausted(p.done)
        /\ run.stage \in Working
    BY <1>1 DEF SaveOK, Extends, Working
  <1>3. progress.fails < Room /\ Room \in Nat /\ Room >= DEFAULT_STUCK_RETRY_BUDGET
    BY <1>1, <1>2, Facts, RoomType DEF FailuresOK, Excused, Working
  <1>4. p.fails < Room /\ p.fails <= Room
    BY <1>2, <1>3, Facts DEF DEFAULT_STUCK_RETRY_BUDGET
  <1>5. Closed(p.done)
    BY <1>2, Facts DEF RunOK
  <1>6. ReloadOK(drv[d])'
    <2>1. /\ progress' = p /\ run' = run /\ seen' = seen /\ drv'[d].outcome = drv[d].outcome
      BY <1>1, SavingFacts
    <2>. QED BY <2>1, <1>1, <1>2 DEF ReloadOK, SaveOK
  <1>. QED BY <1>1, <1>2, <1>4, <1>5, <1>6, SavedOK

-----------------------------------------------------------------------------
(* The induction.                                                          *)

\* Every step of the only driver, of a human and of the clock keeps the invariant.
LEMMA NextIInv ==
  ASSUME OneDriver, IInv, [Next]_vars
  PROVE  IInv'
  <1>1. PICK d \in Drivers : Drivers = {d}
    BY DEF OneDriver
  <1>2. CASE UNCHANGED vars
    <2>1. TypeOK' /\ RunOK' /\ ApprovedPlanOnly' /\ ReviewedDiffWasVerified'
      BY <1>2, <1>1, Facts DEF vars, IInv, TypeOK, RunOK, ApprovedPlanOnly,
         ReviewedDiffWasVerified
    <2>2. DriverOK(drv[d])'
      BY <1>2, <1>1, Facts DEF vars, DriverOK, PlaceOK, MoveOK, AskOK, ReloadOK,
         SaveBatchOK, SaveFailureOK, SaveOK
    <2>3. Room' = Room /\ StuckAcked(progress') = StuckAcked(progress)
      BY <1>2 DEF vars, Room
    <2>4. FailuresOK(drv[d])' /\ RestOK(drv[d])'
      BY <1>2, <1>1, <2>3, Facts DEF vars, FailuresOK, RestOK, Excused
    <2>. QED BY <1>1, <2>1, <2>2, <2>4, Conclude
  <1>3. CASE Tick
    BY <1>1, <1>3, TickOK
  <1>4. CASE Crash(d)
    BY <1>1, <1>4, CrashOK
  <1>5. CASE EntryPoint(d)
    BY <1>1, <1>5, ResumeRunOK, ApprovePlanOK, ApproveChangeReviewOK, ResolveCheckpointOK
       DEF EntryPoint
  <1>6. CASE DriverStep(d)
    <2>1. CASE Move(d) \/ Ask(d) \/ StartProgress(d) \/ AppendAttempt(d) \/ RePlan(d)
      BY <1>1, <2>1, MoveStepOK, AskStepOK, StartProgressOK, AppendAttemptOK, StorePlanOK
    <2>2. CASE Resolve(d) \/ Acknowledge(d) \/ ExtendDeclaredScope(d)
      BY <1>1, <2>2, ResolveOK, AcknowledgeOK, ExtendOK
    <2>3. CASE DriveReturns(d) \/ DriveOn(d) \/ AuthorPlan(d) \/ InitProgress(d)
      BY <1>1, <2>3, DriveReturnsOK, DriveOnOK, StorePlanOK, StartProgressOK
    <2>4. CASE \E files \in SUBSET Files, lines \in DiffLines :
                 ImplementBatch(d, files, lines) \/ ImplementFixup(d, files, lines)
      BY <1>1, <2>4, ImplementBatchOK, ImplementFixupOK
    <2>5. CASE NothingToImplement(d) \/ ImplementRaises(d)
      BY <1>1, <2>5, NothingToImplementOK, ImplementRaisesOK
    <2>6. CASE SaveBatch(d) \/ SaveFailure(d) \/ Save(d)
      BY <1>1, <2>6, SaveBatchStepOK, SaveFailureStepOK, SaveStepOK
    <2>7. CASE \E passed \in BOOLEAN : Verify(d, passed)
      BY <1>1, <2>7, VerifyOK
    <2>8. CASE Reload(d)
      BY <1>1, <2>8, ReloadStepOK
    <2>. QED BY <1>6, <2>1, <2>2, <2>3, <2>4, <2>5, <2>6, <2>7, <2>8 DEF DriverStep
  <1>. QED BY <1>1, <1>2, <1>3, <1>4, <1>5, <1>6 DEF Next

\* The inductive invariant holds in every reachable state.
LEMMA Inductive ==
  ASSUME OneDriver
  PROVE  Spec => []IInv
  <1>1. Init => IInv
    BY InitIInv
  <1>2. IInv /\ [Next]_vars => IInv'
    BY NextIInv
  <1>. QED BY <1>1, <1>2, PTL DEF Spec

\* Whatever crashes and retries do, nothing is implemented, verified, reviewed or
\* packaged that was not planned, approved and finished first (_drive,
\* approve_plan, approve_change_review): for every sound plan, any number of
\* subtasks, files, crashes and decisions.
THEOREM WorkSanctioned ==
  ASSUME OneDriver, PlanIsSound
  PROVE  Spec => []WorkIsSanctioned
  <1>1. ASSUME IInv PROVE WorkIsSanctioned
    <2>1. PICK d \in Drivers : Drivers = {d}
      BY DEF OneDriver
    <2>2. progress.done \in SUBSET SubtaskIds
      BY <1>1, <2>1, Facts DEF ProgressType
    <2>3. run.stage \in PostApproval \ {IMPLEMENTATION} => progress.done = SubtaskIds
      BY <1>1, <2>1, <2>2, Facts, ExhaustedIsDone DEF RunOK
    <2>4. SubtasksDoneInOrder
      BY <1>1, <2>1, <2>3, Facts DEF SubtasksDoneInOrder, RunOK, Closed
    <2>. QED BY <1>1, <2>4 DEF IInv, WorkIsSanctioned
  <1>2. IInv => WorkIsSanctioned
    BY <1>1
  <1>. QED BY <1>2, Inductive, PTL

\* The run asks before it has failed once too often, and rests only where a human
\* is to answer (_handle_implementation_failure, _verification_step, _drive).
THEOREM AskedInTime ==
  ASSUME OneDriver
  PROVE  Spec => []AsksInTime
  <1>1. ASSUME IInv PROVE AsksInTime
    <2>1. PICK d \in Drivers : Drivers = {d}
      BY DEF OneDriver
    <2>2. FailuresBounded
      BY <1>1, <2>1, Facts DEF FailuresOK, FailuresBounded, Room, StuckAcked
    <2>3. RestsOnlyForAHuman
      BY <1>1, <2>1, Facts DEF RestOK, RestsOnlyForAHuman
    <2>. QED BY <2>2, <2>3 DEF AsksInTime
  <1>2. IInv => AsksInTime
    BY <1>1
  <1>. QED BY <1>2, Inductive, PTL

\* What one step may do, as StepsAreSafe says it.
StepSafe ==
  /\ pending_checkpoint(run) => run'.stage = run.stage /\ Diff(progress') = Diff(progress)
  /\ progress.status = "saved" => progress'.status = "saved"
  /\ progress.done \subseteq progress'.done
  /\ progress.files \subseteq progress'.files
  /\ progress.lines <= progress'.lines
  /\ progress.acked \subseteq progress'.acked
  /\ BatchOK(progress'.done \ progress.done)

\* A step that leaves the progress alone, and the stage too if a question is open.
LEMMA ProgressKept ==
  ASSUME IInv, NEW d, Drivers = {d}, progress' = progress,
         pending_checkpoint(run) => run'.stage = run.stage
  PROVE  StepSafe
  <1>1. Cardinality({}) = 0 /\ progress'.done \ progress.done = {}
    BY FS_EmptySet
  <1>2. progress.lines \in Nat
    BY Facts DEF ProgressType
  <1>. QED BY <1>1, <1>2 DEF StepSafe, BatchOK

\* A step that writes the progress does so with no question open and only adds.
LEMMA ProgressWritten ==
  ASSUME IInv, NEW d, Drivers = {d}, NEW q, progress' = q, ~pending_checkpoint(run),
         progress.status = "saved" => q.status = "saved",
         progress.done \subseteq q.done, progress.files \subseteq q.files,
         progress.lines <= q.lines, progress.acked \subseteq q.acked,
         BatchOK(q.done \ progress.done)
  PROVE  StepSafe
  BY DEF StepSafe

\* Every step of the only driver is safe.
LEMMA DriverStepSafe ==
  ASSUME IInv, NEW d, Drivers = {d}, DriverStep(d)
  PROVE  StepSafe
  <1>1. BatchOK({}) /\ \A S : S \ S = {}
    BY FS_EmptySet DEF BatchOK
  <1>2. progress.lines \in Nat
    BY Facts DEF ProgressType
  <1>3. CASE Move(d)
    BY <1>3, MoveFacts, ProgressKept
  <1>4. CASE Ask(d)
    <2>1. drv[d].pc = "ask" /\ progress' = progress
      BY <1>4 DEF Ask
    <2>2. ~pending_checkpoint(run)
      BY <2>1, Facts DEF DriverOK, AskOK
    <2>. QED BY <2>1, <2>2, ProgressKept
  <1>5. CASE AppendAttempt(d)
    <2>1. drv[d].pc = "new_attempt" /\ progress' = progress
      BY <1>5 DEF AppendAttempt
    <2>2. ~pending_checkpoint(run)
      BY <2>1, Facts DEF DriverOK, PlaceOK
    <2>. QED BY <2>1, <2>2, ProgressKept
  <1>6. CASE Resolve(d)
    BY <1>6, ResolveFacts, ProgressKept
  <1>7. CASE \/ RePlan(d) \/ ExtendDeclaredScope(d) \/ DriveReturns(d) \/ DriveOn(d)
             \/ AuthorPlan(d) \/ NothingToImplement(d) \/ ImplementRaises(d) \/ Reload(d)
             \/ \E passed \in BOOLEAN : Verify(d, passed)
             \/ \E files \in SUBSET Files, lines \in DiffLines :
                  ImplementBatch(d, files, lines) \/ ImplementFixup(d, files, lines)
    <2>1. progress' = progress /\ run' = run
      BY <1>7 DEF RePlan, store_plan, ExtendDeclaredScope, DriveReturns, DriveOn, AuthorPlan,
         NothingToImplement, ImplementRaises, Reload, Verify, ImplementBatch, ImplementFixup
    <2>. QED BY <2>1, ProgressKept
  <1>8. CASE StartProgress(d) \/ InitProgress(d)
    <2>1. progress.status = "none" /\ progress' = NewProgress
      BY <1>8, Facts DEF StartProgress, InitProgress, DriverOK, PlaceOK
    <2>2. progress = NoProgress /\ ~pending_checkpoint(run)
      BY <2>1, Facts DEF RunOK
    <2>3. /\ NewProgress.done = {} /\ NewProgress.files = {} /\ NewProgress.lines = 0
          /\ NewProgress.acked = {} /\ NoProgress.done = {} /\ NoProgress.files = {}
          /\ NoProgress.lines = 0 /\ NoProgress.acked = {} /\ NewProgress.status = "saved"
      BY DEF NewProgress, NoProgress
    <2>. QED BY <1>1, <2>1, <2>2, <2>3, ProgressWritten
  <1>9. CASE Acknowledge(d)
    <2>1. /\ drv[d].pc = "ack" /\ progress.status = "saved"
          /\ progress' = [progress EXCEPT !.acked = @ \cup {drv[d].run.ptr.trigger}]
      BY <1>9, Facts DEF Acknowledge, DriverOK, PlaceOK
    <2>2. ~pending_checkpoint(run)
      BY <2>1, Facts DEF DriverOK, PlaceOK
    <2>3. /\ progress'.done = progress.done /\ progress'.files = progress.files
          /\ progress'.lines = progress.lines /\ progress'.status = progress.status
          /\ progress.acked \subseteq progress'.acked
      BY <2>1, Facts DEF ProgressType
    <2>. QED BY <1>1, <1>2, <2>2, <2>3, ProgressWritten
  <1>10. CASE SaveBatch(d)
    <2>1. drv[d].pc = "save_batch" /\ progress' = drv[d].prog
      BY <1>10 DEF SaveBatch, saving
    <2>2. SaveBatchOK(drv[d])
      BY Facts DEF DriverOK
    <2>. QED BY <2>1, <2>2, ProgressWritten DEF SaveBatchOK, Extends
  <1>11. CASE SaveFailure(d)
    <2>1. drv[d].pc = "save_failure" /\ progress' = drv[d].prog
      BY <1>11 DEF SaveFailure, saving
    <2>2. /\ ~pending_checkpoint(run) /\ drv[d].prog.status = "saved"
          /\ drv[d].prog.done = progress.done /\ drv[d].prog.files = progress.files
          /\ drv[d].prog.lines = progress.lines /\ drv[d].prog.acked = progress.acked
      BY <2>1, Facts DEF DriverOK, SaveFailureOK, Diff
    <2>. QED BY <1>1, <1>2, <2>1, <2>2, ProgressWritten
  <1>12. CASE Save(d)
    <2>1. drv[d].pc = "save" /\ progress' = drv[d].prog
      BY <1>12 DEF Save, saving
    <2>2. SaveOK(drv[d])
      BY Facts DEF DriverOK
    <2>. QED BY <1>1, <2>1, <2>2, ProgressWritten DEF SaveOK, Extends
  <1>. QED BY <1>3, <1>4, <1>5, <1>6, <1>7, <1>8, <1>9, <1>10, <1>11, <1>12 DEF DriverStep

\* No step decides past a pending question, loses recorded work or an answer, or
\* records a parallel batch without its contracts (_implementation_step,
\* resolve_checkpoint, RunProgressStore.save).
THEOREM SafeSteps ==
  ASSUME OneDriver
  PROVE  Spec => StepsAreSafe
  <1>1. ASSUME IInv, [Next]_vars PROVE StepSafe
    <2>1. PICK d \in Drivers : Drivers = {d}
      BY DEF OneDriver
    <2>2. CASE DriverStep(d)
      BY <1>1, <2>1, <2>2, DriverStepSafe
    <2>3. CASE UNCHANGED vars \/ Tick \/ Crash(d) \/ EntryPoint(d)
      <3>1. progress' = progress /\ run' = run
        BY <2>3 DEF vars, Tick, Crash, EntryPoint, ResumeRun, ApprovePlan,
           ApproveChangeReview, ResolveCheckpoint
      <3>. QED BY <3>1, <1>1, <2>1, ProgressKept
    <2>. QED BY <1>1, <2>1, <2>2, <2>3 DEF Next
  <1>2. IInv /\ [Next]_vars =>
          [pending_checkpoint(run) =>
             run'.stage = run.stage /\ Diff(progress') = Diff(progress)]_vars
    BY <1>1 DEF StepSafe
  <1>3. IInv /\ [Next]_vars =>
          [/\ progress.status = "saved" => progress'.status = "saved"
           /\ progress.done \subseteq progress'.done
           /\ progress.files \subseteq progress'.files
           /\ progress.lines <= progress'.lines
           /\ progress.acked \subseteq progress'.acked]_vars
    BY <1>1 DEF StepSafe
  <1>4. IInv /\ [Next]_vars =>
          [LET batch == progress'.done \ progress.done
           IN  Cardinality(batch) > 1 =>
                 /\ batch \subseteq Contracted
                 /\ \A s, t \in batch : RawGroup[s] = RawGroup[t]]_vars
    BY <1>1 DEF StepSafe, BatchOK
  <1>. QED BY <1>2, <1>3, <1>4, Inductive, PTL
          DEF Spec, StepsAreSafe, PauseIsFirm, ProgressNeverLost, ContractsBeforeParallelWrites

-----------------------------------------------------------------------------
(* The drive loop implements RunLifecycle.                                 *)

USE DEF Lifecycle!INTAKE, Lifecycle!RESEARCH, Lifecycle!PLAN_AUTHORING,
        Lifecycle!PLAN_APPROVAL_GATE, Lifecycle!IMPLEMENTATION, Lifecycle!VERIFICATION,
        Lifecycle!CHANGE_REVIEW_GATE, Lifecycle!PACKAGING, Lifecycle!RETROSPECTIVE,
        Lifecycle!COMPLETED, Lifecycle!ABANDONED

\* The stages of the abstract specification are those of the run.
LEMMA SameStages ==
  /\ Lifecycle!ALL_STAGES = ALL_STAGES
  /\ Lifecycle!LEGAL_TRANSITIONS = LEGAL_TRANSITIONS
  /\ Lifecycle!GATES = {PLAN_APPROVAL_GATE, CHANGE_REVIEW_GATE}
  /\ Lifecycle!NON_TERMINAL_STAGES = NON_TERMINAL_STAGES
  BY DEF Lifecycle!ALL_STAGES, Lifecycle!LEGAL_TRANSITIONS, Lifecycle!GATES, ALL_STAGES,
     LEGAL_TRANSITIONS, Lifecycle!NON_TERMINAL_STAGES, NON_TERMINAL_STAGES,
     Lifecycle!TERMINAL_STAGES, TERMINAL_STAGES

\* The decision under way is the one the only driver carries.
LEMMA MandateIs ==
  ASSUME NEW d, Drivers = {d}
  PROVE  mandate = carries(d) /\ mandate' = carries(d)'
  BY DEF mandate

\* A driver elsewhere than on its way with a decision carries none.
LEMMA CarriesNothing ==
  ASSUME NEW d, drv[d].pc \notin {"move", "new_attempt", "resolve"}
  PROVE  carries(d) = {}
  BY DEF carries

\* A step that a reader of the stage, the question and the decisions does not see.
LEMMA Invisible ==
  ASSUME NEW d, Drivers = {d}, run'.stage = run.stage, run'.ptr.status = run.ptr.status,
         carries(d)' = carries(d), answers' = answers
  PROVE  UNCHANGED Lifecycle!vars
  BY MandateIs DEF Lifecycle!vars

\* A stage change: the system's own, or a decision taking effect.
LEMMA MoveRefines ==
  ASSUME IInv, NEW d, Drivers = {d}, Move(d)
  PROVE  Lifecycle!Next
  <1> DEFINE me == drv[d]
  <1>1. /\ run'.stage = me.target /\ run'.ptr = run.ptr
        /\ drv'[d].pc = me.then /\ answers' = answers
        /\ me.pc = "move" /\ ~pending_checkpoint(run) /\ me.run = run
        /\ <<run.stage, me.target, me.then>> \in Routes \cup Abandons
    BY MoveFacts
  <1>2. me.then \in {"idle", "drive", "fresh"} /\ me.target \in ALL_STAGES
    BY <1>1, Stages DEF Routes, Abandons
  <1>3. carries(d)' = {}
    BY <1>1, <1>2 DEF carries
  <1>4. mandate' = {} /\ mandate = carries(d)
    BY <1>3, MandateIs
  <1>5. CASE run.stage \in {PLAN_APPROVAL_GATE, CHANGE_REVIEW_GATE} \/ me.target = ABANDONED
    <2>1. mandate = {me.target}
      BY <1>1, <1>4, <1>5 DEF carries
    <2>2. Lifecycle!Carry
      BY <1>1, <1>2, <1>4, <2>1, SameStages DEF Lifecycle!Carry
    <2>. QED BY <2>2 DEF Lifecycle!Next
  <1>6. CASE run.stage \notin {PLAN_APPROVAL_GATE, CHANGE_REVIEW_GATE} /\ me.target # ABANDONED
    <2>1. mandate = {}
      BY <1>1, <1>4, <1>6 DEF carries
    <2>2. <<run.stage, me.target>> \in LEGAL_TRANSITIONS
      BY <1>1, <1>6 DEF Routes, Abandons, LEGAL_TRANSITIONS
    <2>3. Lifecycle!Work(me.target)
      BY <1>1, <1>4, <1>6, <2>1, <2>2, SameStages DEF Lifecycle!Work, pending_checkpoint
    <2>. QED BY <1>2, <2>3, SameStages DEF Lifecycle!Next
  <1>. QED BY <1>5, <1>6

\* The question is put.
LEMMA AskRefines ==
  ASSUME IInv, NEW d, Drivers = {d}, Ask(d)
  PROVE  Lifecycle!Next
  <1> DEFINE e   == [trigger |-> drv[d].trigger, stage |-> drv[d].run.stage,
                     status |-> "pending", decision |-> "none"]
             row == [run EXCEPT !.ptr = e, !.version = @ + 1]
             m   == [[Idle EXCEPT !.pc = "reload", !.run = row] EXCEPT !.outcome = "paused"]
  <1>1. drv[d].pc = "ask" /\ drv[d].run = run /\ AskOK(drv[d])
    BY Facts DEF Ask, DriverOK, PlaceOK
  <1>2. /\ run' = row /\ drv' = [at(d, "reload", row) EXCEPT ![d].outcome = "paused"]
        /\ answers' = answers
    BY <1>1 DEF Ask
  <1>3. run'.stage = run.stage /\ run'.ptr.status = "pending"
    BY <1>2, Facts DEF RowType
  <1>4. drv'[d] = m
    BY <1>2, Facts DEF at
  <1> HIDE DEF row
  <1>5. m.pc = "reload"
    BY Constants DEF DriverType
  <1>6. carries(d)' = {} /\ carries(d) = {}
    BY <1>1, <1>4, <1>5 DEF carries
  <1>7. Lifecycle!AskHuman
    BY <1>1, <1>2, <1>3, <1>6, MandateIs DEF Lifecycle!AskHuman, AskOK, Working,
       pending_checkpoint
  <1>. QED BY <1>7 DEF Lifecycle!Next

\* request_changes takes effect.
LEMMA AppendAttemptRefines ==
  ASSUME IInv, NEW d, Drivers = {d}, AppendAttempt(d)
  PROVE  Lifecycle!Next
  <1> DEFINE row == [run EXCEPT !.stage = PLAN_AUTHORING, !.version = @ + 1, !.attempt = @ + 1]
  <1>1. drv[d].pc = "new_attempt" /\ drv[d].run = run /\ run.stage = PLAN_APPROVAL_GATE
    BY Facts DEF AppendAttempt, DriverOK, PlaceOK
  <1>2. run' = row /\ drv' = at(d, "replan", row) /\ answers' = answers
    BY <1>1 DEF AppendAttempt, is_legal_transition, LEGAL_TRANSITIONS
  <1>3. row \in RowType /\ row.stage = PLAN_AUTHORING /\ row.ptr = run.ptr
    BY Facts, Stages, AttemptWritten
  <1> HIDE DEF row
  <1>4. drv'[d].pc = "replan"
    BY <1>2, <1>3, Facts, AtPlace DEF PCs
  <1>5. carries(d)' = {} /\ carries(d) = {PLAN_AUTHORING}
    BY <1>1, <1>4 DEF carries
  <1>6. Lifecycle!Carry
    BY <1>2, <1>3, <1>5, MandateIs, SameStages, Stages DEF Lifecycle!Carry
  <1>. QED BY <1>6 DEF Lifecycle!Next

\* The answer is recorded.
LEMMA ResolveRefines ==
  ASSUME IInv, NEW d, Drivers = {d}, Resolve(d)
  PROVE  Lifecycle!Next
  <1>1. carries(d) = {drv[d].decision}
    BY ResolveFacts DEF carries
  <1>2. carries(d)' = IF drv[d].decision = "stop" THEN {ABANDONED} ELSE {}
    BY ResolveFacts DEF carries
  <1>3. Lifecycle!Settle
    BY <1>1, <1>2, ResolveFacts, MandateIs
       DEF Lifecycle!Settle, Lifecycle!Answers, pending_checkpoint
  <1>. QED BY <1>3 DEF Lifecycle!Next

\* A human decides at the plan gate.
LEMMA ApprovePlanRefines ==
  ASSUME IInv, NEW d, Drivers = {d}, NEW decision \in {"approve", "request_changes", "reject"},
         ApprovePlan(d, decision)
  PROVE  Lifecycle!Next
  <1>1. /\ drv[d].pc = "idle" /\ run.stage = PLAN_APPROVAL_GATE /\ answers' = answers + 1
        /\ run' = run
    BY DEF ApprovePlan, answering
  <1>2. carries(d) = {}
    BY <1>1, CarriesNothing
  <1>3. \E s \in {IMPLEMENTATION, PLAN_AUTHORING, ABANDONED} : carries(d)' = {s}
    <2>1. CASE decision = "approve"
      <3>1. drv' = moving(d, run, IMPLEMENTATION, "fresh")
        BY <2>1 DEF ApprovePlan
      <3>2. drv'[d].pc = "move" /\ drv'[d].run = run /\ drv'[d].target = IMPLEMENTATION
        BY <3>1, Facts, MovingTo, Stages DEF PCs
      <3>. QED BY <1>1, <3>2 DEF carries
    <2>2. CASE decision = "request_changes"
      <3>1. drv' = at(d, "new_attempt", run)
        BY <2>2 DEF ApprovePlan
      <3>2. drv'[d].pc = "new_attempt"
        BY <3>1, Facts, AtPlace DEF PCs
      <3>. QED BY <3>2 DEF carries
    <2>3. CASE decision = "reject"
      <3>1. drv' = moving(d, run, ABANDONED, "idle")
        BY <2>3 DEF ApprovePlan
      <3>2. drv'[d].pc = "move" /\ drv'[d].run = run /\ drv'[d].target = ABANDONED
        BY <3>1, Facts, MovingTo, Stages DEF PCs
      <3>. QED BY <3>2 DEF carries
    <2>. QED BY <2>1, <2>2, <2>3
  <1>4. PICK s \in {IMPLEMENTATION, PLAN_AUTHORING, ABANDONED} : carries(d)' = {s}
    BY <1>3
  <1>5. Lifecycle!is_legal_transition(run.stage, s) /\ s \in ALL_STAGES
    BY <1>1, SameStages, Stages
       DEF Lifecycle!is_legal_transition, LEGAL_TRANSITIONS, NON_TERMINAL_STAGES
  <1>6. Lifecycle!Decide(s)
    BY <1>1, <1>2, <1>4, <1>5, MandateIs, SameStages DEF Lifecycle!Decide
  <1>. QED BY <1>5, <1>6, SameStages DEF Lifecycle!Next

\* A human decides at the change gate.
LEMMA ApproveChangeReviewRefines ==
  ASSUME IInv, NEW d, Drivers = {d}, NEW decision \in {"approve", "request_changes", "reject"},
         ApproveChangeReview(d, decision)
  PROVE  Lifecycle!Next
  <1>1. /\ drv[d].pc = "idle" /\ run.stage = CHANGE_REVIEW_GATE /\ answers' = answers + 1
        /\ run' = run
    BY DEF ApproveChangeReview, answering
  <1>2. carries(d) = {}
    BY <1>1, CarriesNothing
  <1>3. PICK s \in {IMPLEMENTATION, PACKAGING, ABANDONED}, then \in PCs :
          drv' = moving(d, run, s, then)
    BY DEF ApproveChangeReview, PCs
  <1>4. drv'[d].pc = "move" /\ drv'[d].run = run /\ drv'[d].target = s
    BY <1>3, Facts, MovingTo, Stages
  <1>5. carries(d)' = {s}
    BY <1>1, <1>4 DEF carries
  <1>6. Lifecycle!is_legal_transition(run.stage, s) /\ s \in ALL_STAGES
    BY <1>1, SameStages, Stages
       DEF Lifecycle!is_legal_transition, LEGAL_TRANSITIONS, NON_TERMINAL_STAGES
  <1>7. Lifecycle!Decide(s)
    BY <1>1, <1>2, <1>5, <1>6, MandateIs, SameStages DEF Lifecycle!Decide
  <1>. QED BY <1>6, <1>7, SameStages DEF Lifecycle!Next

\* A human answers the question.
LEMMA ResolveCheckpointRefines ==
  ASSUME IInv, NEW d, Drivers = {d}, NEW decision \in {"continue", "extend_scope", "stop"},
         ResolveCheckpoint(d, decision)
  PROVE  Lifecycle!Next
  <1> DEFINE base == [Idle EXCEPT !.pc = "resolve", !.run = run]
             m    == [base EXCEPT !.decision = decision]
  <1>1. /\ drv[d].pc = "idle" /\ pending_checkpoint(run) /\ answers' = answers + 1
        /\ run' = run /\ drv' = [at(d, "resolve", run) EXCEPT ![d].decision = decision]
    BY DEF ResolveCheckpoint, answering
  <1>2. drv'[d] = m
    BY <1>1, Facts DEF at
  <1>3. m.pc = "resolve" /\ m.decision = decision
    BY Constants DEF DriverType
  <1> HIDE DEF m
  <1>4. carries(d) = {} /\ carries(d)' = {decision}
    BY <1>1, <1>2, <1>3 DEF carries
  <1>5. Lifecycle!Decide(decision)
    BY <1>1, <1>4, MandateIs DEF Lifecycle!Decide, Lifecycle!Answers, pending_checkpoint
  <1>. QED BY <1>5 DEF Lifecycle!Next, Lifecycle!Answers

\* The process that carried a decision is gone.
LEMMA CrashRefines ==
  ASSUME IInv, NEW d, Drivers = {d}, Crash(d)
  PROVE  Lifecycle!Next \/ UNCHANGED Lifecycle!vars
  <1>1. run' = run /\ answers' = answers /\ drv'[d].pc = "idle"
    BY Facts, Rested DEF Crash
  <1>2. carries(d)' = {}
    BY <1>1 DEF carries
  <1>3. CASE carries(d) = {}
    BY <1>1, <1>2, <1>3, Invisible
  <1>4. CASE carries(d) # {}
    <2>1. Lifecycle!Forget
      BY <1>1, <1>2, <1>4, MandateIs DEF Lifecycle!Forget
    <2>. QED BY <2>1 DEF Lifecycle!Next
  <1>. QED BY <1>3, <1>4

\* The other steps of a driver: the run is the same and no decision is carried
\* before or after.
LEMMA QuietRefines ==
  ASSUME IInv, NEW d, Drivers = {d}, run' = run, answers' = answers,
         drv[d].pc \notin {"move", "new_attempt", "resolve"},
         \/ drv'[d].pc \notin {"move", "new_attempt", "resolve"}
         \/ /\ drv'[d].pc = "move" /\ drv'[d].target # ABANDONED /\ drv'[d].run = run
            /\ run.stage \notin {PLAN_APPROVAL_GATE, CHANGE_REVIEW_GATE}
  PROVE  UNCHANGED Lifecycle!vars
  <1>1. carries(d) = {}
    BY CarriesNothing
  <1>2. carries(d)' = {}
    BY DEF carries
  <1>. QED BY <1>1, <1>2, Invisible

\* Steps that only leave the driver at another place.
LEMMA PlaceRefines ==
  ASSUME IInv, NEW d, Drivers = {d},
         \/ StartProgress(d) \/ Acknowledge(d) \/ ExtendDeclaredScope(d) \/ ResumeRun(d)
         \/ DriveReturns(d) \/ InitProgress(d) \/ NothingToImplement(d)
  PROVE  UNCHANGED Lifecycle!vars
  <1>1. /\ run' = run /\ answers' = answers
        /\ drv[d].pc \notin {"move", "new_attempt", "resolve"}
    BY DEF StartProgress, Acknowledge, ExtendDeclaredScope, ResumeRun, DriveReturns,
       InitProgress, NothingToImplement, implementing, driving
  <1>2. drv'[d].pc \notin {"move", "new_attempt", "resolve"}
    <2>1. CASE \E pc \in {"drive", "widen"}, r \in RowType : drv' = at(d, pc, r)
      BY <2>1, Facts, AtPlace DEF PCs
    <2>2. CASE StartProgress(d) \/ ExtendDeclaredScope(d) \/ ResumeRun(d)
      BY <2>1, <2>2, Facts DEF StartProgress, ExtendDeclaredScope, ResumeRun
    <2>3. CASE Acknowledge(d)
      BY <2>1, <2>3, Facts DEF Acknowledge
    <2>4. CASE DriveReturns(d)
      BY <2>4, Facts, Rested DEF DriveReturns
    <2>5. CASE InitProgress(d)
      BY <1>1, <2>5 DEF InitProgress
    <2>6. CASE NothingToImplement(d)
      <3>1. drv'[d] = [drv[d] EXCEPT !.pc = "reload", !.outcome = "verify"]
        BY <2>6, Facts DEF NothingToImplement
      <3>2. drv'[d].pc = "reload"
        BY <3>1, Facts DEF DriverType
      <3>. QED BY <3>2
    <2>. QED BY <2>2, <2>3, <2>4, <2>5, <2>6
  <1>. QED BY <1>1, <1>2, QuietRefines

\* The agent or the verification has run: the driver holds what it will save.
LEMMA HoldingRefines ==
  ASSUME IInv, NEW d, Drivers = {d},
         \/ ImplementRaises(d)
         \/ \E files \in SUBSET Files, lines \in DiffLines :
              ImplementBatch(d, files, lines) \/ ImplementFixup(d, files, lines)
         \/ \E passed \in BOOLEAN : Verify(d, passed)
  PROVE  UNCHANGED Lifecycle!vars
  <1>1. run' = run /\ answers' = answers /\ drv[d].pc = "drive"
    BY DEF ImplementRaises, ImplementBatch, ImplementFixup, Verify, implementing, driving
  <1>2. \E pc \in {"save_batch", "save_failure", "save"} :
          \E p, outcome : drv' = holding(d, pc, p, outcome)
    <2>1. CASE ImplementRaises(d)
      BY <2>1, Zenon DEF ImplementRaises
    <2>2. CASE \E files \in SUBSET Files, lines \in DiffLines : ImplementBatch(d, files, lines)
      BY <2>2, Zenon DEF ImplementBatch
    <2>3. CASE \E files \in SUBSET Files, lines \in DiffLines : ImplementFixup(d, files, lines)
      BY <2>3, Zenon DEF ImplementFixup
    <2>4. CASE \E passed \in BOOLEAN : Verify(d, passed)
      BY <2>4, Zenon DEF Verify
    <2>. QED BY <2>1, <2>2, <2>3, <2>4
  <1>3. PICK pc \in {"save_batch", "save_failure", "save"} :
          \E p, outcome : drv' = holding(d, pc, p, outcome)
    BY <1>2
  <1>6. PICK p, outcome : drv' = holding(d, pc, p, outcome)
    BY <1>3
  <1>4. drv'[d] = [drv[d] EXCEPT !.pc = pc, !.prog = p, !.scope = plan.scope,
                                 !.outcome = outcome]
    BY <1>6, Facts DEF holding
  <1>5. drv'[d].pc = pc
    BY <1>4, Facts DEF DriverType
  <1>. QED BY <1>1, <1>5, QuietRefines

\* The progress is saved.
LEMMA SavingRefines ==
  ASSUME IInv, NEW d, Drivers = {d}, SaveBatch(d) \/ SaveFailure(d) \/ Save(d)
  PROVE  UNCHANGED Lifecycle!vars
  <1>1. PICK ts : saving(d, ts)
    BY Zenon DEF SaveBatch, SaveFailure, Save
  <1>2. /\ run' = run /\ answers' = answers
        /\ drv[d].pc \notin {"move", "new_attempt", "resolve"}
    BY <1>1 DEF saving, SaveBatch, SaveFailure, Save
  <1>3. \/ drv'[d] = [drv[d] EXCEPT !.pc = "reload"]
        \/ drv'[d] = [drv[d] EXCEPT !.pc = "ask", !.trigger = Head(ts)]
    BY <1>1, Facts DEF saving
  <1>4. drv'[d].pc \in {"reload", "ask"}
    BY <1>3, Facts DEF DriverType
  <1>. QED BY <1>2, <1>4, QuietRefines

\* The driver is about to make one of the system's own moves.
LEMMA SettingOutRefines ==
  ASSUME IInv, NEW d, Drivers = {d}, RePlan(d) \/ AuthorPlan(d) \/ DriveOn(d) \/ Reload(d)
  PROVE  UNCHANGED Lifecycle!vars
  <1>1. run' = run /\ answers' = answers /\ drv[d].pc \in {"replan", "drive", "reload"}
    BY DEF RePlan, AuthorPlan, store_plan, DriveOn, Reload, driving
  <1>2. CASE /\ run.stage \notin {PLAN_APPROVAL_GATE, CHANGE_REVIEW_GATE}
             /\ \E s \in ALL_STAGES \ {ABANDONED}, then \in PCs : drv' = moving(d, run, s, then)
    BY <1>1, <1>2, Facts, MovingTo, QuietRefines
  <1>3. CASE RePlan(d) \/ AuthorPlan(d)
    <2>1. drv[d].run = run /\ run.stage = PLAN_AUTHORING /\ store_plan(d)
      BY <1>3, Facts, DrivingFacts, Stages DEF RePlan, AuthorPlan, DriverOK, PlaceOK
    <2>. QED BY <1>2, <2>1, Stages DEF store_plan, PCs
  <1>4. CASE DriveOn(d)
    <2>1. drv[d].run = run /\ run.stage \in {INTAKE, RESEARCH, PACKAGING, RETROSPECTIVE}
      BY <1>4, DrivingFacts, Stages DEF DriveOn
    <2>. QED BY <1>2, <1>4, <2>1, Stages DEF DriveOn, PCs
  <1>5. CASE Reload(d)
    <2>1. run.stage \in Working
      BY <1>5, Facts DEF Reload, DriverOK, ReloadOK, Working
    <2>2. \/ \E s \in {CHANGE_REVIEW_GATE, IMPLEMENTATION, VERIFICATION},
               then \in {"idle", "drive"} : drv' = moving(d, run, s, then)
          \/ drv' = at(d, "drive", run)
      BY <1>5 DEF Reload
    <2>3. CASE drv' = at(d, "drive", run)
      BY <1>1, <2>3, Facts, AtPlace, QuietRefines DEF PCs
    <2>. QED BY <1>2, <2>1, <2>2, <2>3, Stages DEF PCs, Working
  <1>. QED BY <1>3, <1>4, <1>5

\* Every step is a step of the lifecycle or is not visible in it.
LEMMA NextRefines ==
  ASSUME OneDriver, IInv, [Next]_vars
  PROVE  Lifecycle!Next \/ UNCHANGED Lifecycle!vars
  <1>1. PICK d \in Drivers : Drivers = {d}
    BY DEF OneDriver
  <1>2. CASE UNCHANGED vars \/ Tick
    <2>1. run' = run /\ drv' = drv /\ answers' = answers
      BY <1>2 DEF vars, Tick
    <2>2. carries(d)' = carries(d)
      BY <2>1 DEF carries
    <2>. QED BY <1>1, <2>1, <2>2, Invisible
  <1>3. CASE Crash(d)
    BY <1>1, <1>3, CrashRefines
  <1>4. CASE EntryPoint(d)
    BY <1>1, <1>4, PlaceRefines, ApprovePlanRefines, ApproveChangeReviewRefines,
       ResolveCheckpointRefines DEF EntryPoint
  <1>5. CASE DriverStep(d)
    <2>1. CASE Move(d) \/ Ask(d) \/ AppendAttempt(d) \/ Resolve(d)
      BY <1>1, <2>1, MoveRefines, AskRefines, AppendAttemptRefines, ResolveRefines
    <2>2. CASE \/ StartProgress(d) \/ Acknowledge(d) \/ ExtendDeclaredScope(d)
               \/ DriveReturns(d) \/ InitProgress(d) \/ NothingToImplement(d)
      BY <1>1, <2>2, PlaceRefines
    <2>3. CASE RePlan(d) \/ AuthorPlan(d) \/ DriveOn(d) \/ Reload(d)
      BY <1>1, <2>3, SettingOutRefines
    <2>4. CASE \/ ImplementRaises(d)
               \/ \E files \in SUBSET Files, lines \in DiffLines :
                    ImplementBatch(d, files, lines) \/ ImplementFixup(d, files, lines)
               \/ \E passed \in BOOLEAN : Verify(d, passed)
      BY <1>1, <2>4, HoldingRefines
    <2>5. CASE SaveBatch(d) \/ SaveFailure(d) \/ Save(d)
      BY <1>1, <2>5, SavingRefines
    <2>. QED BY <1>5, <2>1, <2>2, <2>3, <2>4, <2>5 DEF DriverStep
  <1>. QED BY <1>1, <1>2, <1>3, <1>4, <1>5 DEF Next

\* The drive loop, its retries and its crashes implement RunLifecycle: a run
\* leaves a gate, and passes a question, only by one human decision for each
\* (approve_plan, approve_change_review, resolve_checkpoint, _drive).
THEOREM ImplementsTheLifecycle ==
  ASSUME OneDriver
  PROVE  Spec => ImplementsLifecycle
  <1>1. Init => Lifecycle!Init
    <2> SUFFICES ASSUME Init PROVE Lifecycle!Init
      OBVIOUS
    <2>1. \A d \in Drivers : carries(d) = {}
      BY Constants DEF Init, carries
    <2>2. mandate = {}
      BY <2>1 DEF mandate
    <2>. QED BY <2>2, Constants DEF Init, Lifecycle!Init
  <1>2. IInv /\ [Next]_vars => [Lifecycle!Next]_(Lifecycle!vars)
    BY NextRefines
  <1>. QED BY <1>1, <1>2, Inductive, PTL DEF Spec, ImplementsLifecycle, Lifecycle!Spec
-----------------------------------------------------------------------------
(* The size check of Checkpoints: facts that hold for every diff.          *)

Budgets == [minutes : Nat, cost : Nat, lines : Nat, files : Nat]

\* Budget b allows at least what budget a allows.
AtLeast(b, a) == b.lines >= a.lines /\ b.files >= a.files

\* next_size_class is one step up and stays at XL.
LEMMA NextSizeClass ==
  /\ next_size_class("S") = "M"
  /\ next_size_class("M") = "L"
  /\ next_size_class("L") = "XL"
  /\ next_size_class("XL") = "XL"
<1>1. SizeIndex("S") = 1 /\ SizeIndex("M") = 2 /\ SizeIndex("L") = 3 /\ SizeIndex("XL") = 4
  <2>1. DOMAIN STORY_SIZES = 1..4 /\ Len(STORY_SIZES) = 4
    BY DEF STORY_SIZES
  <2>2. /\ STORY_SIZES[1] = "S" /\ STORY_SIZES[2] = "M"
        /\ STORY_SIZES[3] = "L" /\ STORY_SIZES[4] = "XL"
    BY DEF STORY_SIZES
  <2>3. \A i \in 1..4 : i = 1 \/ i = 2 \/ i = 3 \/ i = 4
    OBVIOUS
  <2>4. ASSUME NEW k \in 1..4 PROVE SizeIndex(STORY_SIZES[k]) = k
    <3>1. \A i \in DOMAIN STORY_SIZES : STORY_SIZES[i] = STORY_SIZES[k] => i = k
      BY <2>1, <2>2, <2>3
    <3> QED BY <2>1, <3>1 DEF SizeIndex
  <2> QED BY <2>2, <2>4
<1>2. Len(STORY_SIZES) = 4
  BY DEF STORY_SIZES
<1>3. /\ STORY_SIZES[2] = "M" /\ STORY_SIZES[3] = "L" /\ STORY_SIZES[4] = "XL"
  BY DEF STORY_SIZES
<1> QED BY <1>1, <1>2, <1>3 DEF next_size_class

\* A diff over its size ceiling stays over it while it grows, although the line
\* ceiling drops to a third when the second file is touched (check_size).
THEOREM GrowthNeverClearsSize ==
  ASSUME NEW budget \in Budgets,
         NEW nfiles \in Nat, NEW lines \in Nat,
         NEW more_files \in Nat, NEW more_lines \in Nat,
         size_exceeded(nfiles, lines, budget)
  PROVE  size_exceeded(nfiles + more_files, lines + more_lines, budget)
<1>1. budget.lines \in Nat /\ budget.files \in Nat
  BY DEF Budgets
<1> QED
  BY <1>1 DEF size_exceeded, line_threshold, SINGLE_FILE_LINE_MULTIPLIER

\* A larger budget never makes the size check stricter.
LEMMA LargerBudget ==
  ASSUME NEW a \in Budgets, NEW b \in Budgets, AtLeast(b, a),
         NEW nfiles \in Nat, NEW lines \in Nat,
         size_exceeded(nfiles, lines, b)
  PROVE  size_exceeded(nfiles, lines, a)
<1>1. /\ a.lines \in Nat /\ a.files \in Nat
      /\ b.lines \in Nat /\ b.files \in Nat
  BY DEF Budgets
<1> QED
  BY <1>1 DEF AtLeast, size_exceeded, line_threshold, SINGLE_FILE_LINE_MULTIPLIER

\* Flagging a story as cross-cutting, which moves it to the next size class
\* (resolve_budget), never makes its size check stricter, whatever the diff.
THEOREM PromotionNeverTightens ==
  ASSUME NEW size \in {"S", "M", "L"}, NEW flagged \in BOOLEAN,
         resolve_size(size, flagged) # "XL",
         NEW nfiles \in Nat, NEW lines \in Nat,
         size_exceeded(nfiles, lines, DEFAULT_BUDGETS[resolve_size(size, flagged)])
  PROVE  size_exceeded(nfiles, lines, DEFAULT_BUDGETS[size])
<1>1. /\ DEFAULT_BUDGETS["S"] \in Budgets
      /\ DEFAULT_BUDGETS["M"] \in Budgets
      /\ DEFAULT_BUDGETS["L"] \in Budgets
  BY DEF DEFAULT_BUDGETS, Budgets
<1>2. /\ AtLeast(DEFAULT_BUDGETS["M"], DEFAULT_BUDGETS["S"])
      /\ AtLeast(DEFAULT_BUDGETS["L"], DEFAULT_BUDGETS["M"])
  BY DEF DEFAULT_BUDGETS, AtLeast
<1>3. CASE resolve_size(size, flagged) = size
  BY <1>3
<1>4. CASE resolve_size(size, flagged) = next_size_class(size)
  <2>1. CASE size = "S"
    BY <1>1, <1>2, <1>4, <2>1, NextSizeClass, LargerBudget
  <2>2. CASE size = "M"
    BY <1>1, <1>2, <1>4, <2>2, NextSizeClass, LargerBudget
  <2>3. CASE size = "L"
    BY <1>4, <2>3, NextSizeClass
  <2> QED BY <2>1, <2>2, <2>3
<1> QED BY <1>3, <1>4 DEF resolve_size
=============================================================================
