-------------------------- MODULE RunWorkerProofs --------------------------
(***************************************************************************)
(* Theorems about RunWorker, for any number of stories, runs, replies and  *)
(* faults, while no two instances of the worker run at once: the files and *)
(* the issue agree with the runs, and a reply decides the question it was  *)
(* written for.                                                            *)
(***************************************************************************)
EXTENDS RunWorker, NaturalsInduction, WellFoundedInduction, TLAPS

RunType ==
  [story : Stories, stage : ALL_STAGES, question : {"none", "pending"}, no : Nat, loops : Nat]

CommentType == [word : {"question", "yes", "no"}, about : PauseId]

IssueType == [status : {"trigger", "approval", "done"}, comments : Seq(CommentType)]

\* Where a worker has a story in hand.
Busy ==
  {"resume", "build", "drive", "apply", "stop", "report", "post", "save", "finish", "pop", "mark"}

Resting == {"off", "locked"}

Places == Busy \cup Resting \cup {"tick", "replies", "poll", "over"}

WorkerType ==
  [pc : Places,
   todo : SUBSET (Stories \X RecordType), from : {"poll", "check"},
   story : Stories \cup {NoStory}, run : Nat, record : RecordType,
   then : {"loop", "match"}, word : {"none", "yes", "no", "auto"}, about : PauseId,
   seen : Nat, exit : {0, 1}]

Shape ==
  /\ issue \in [Stories -> IssueType] /\ runs \in Seq(RunType)
  /\ pending \in [Stories -> RecordType] /\ processed \subseteq Stories
  /\ worker \in [Workers -> WorkerType] /\ lock \in Workers \cup {NoWorker}
  /\ bad \in [FaultKinds -> Nat] /\ DOMAIN told = Stories

-----------------------------------------------------------------------------
(* The inductive invariant.  What it says of a worker is said of its       *)
(* record, W; what it says of a story, s, mentions the workers only to     *)
(* tell whether one of them has the story in hand.                         *)

\* The run of story s that was started last.
Latest(s, i) ==
  /\ i \in DOMAIN runs /\ runs[i].story = s
  /\ \A j \in DOMAIN runs : runs[j].story = s => j <= i

\* A run waits for an answer only inside these two stages.
RunsOK ==
  \A i \in DOMAIN runs :
    runs[i].question = "pending" => runs[i].stage \in {IMPLEMENTATION, VERIFICATION}

\* A gate, and the stages from which it is never entered again.
Past(gate) ==
  {gate, PACKAGING, RETROSPECTIVE, COMPLETED, ABANDONED} \cup
  (IF gate = PLAN_APPROVAL_GATE THEN {IMPLEMENTATION, VERIFICATION, CHANGE_REVIEW_GATE} ELSE {})

\* A reply at a pause of this kind is for that pause.
Trusted(kind) ==
  /\ bad["post"] = 0
  /\ kind # "gate" => bad["crash"] = 0 /\ bad["raise"] = 0

\* Comment k of story s is the question of pause n of run i, and so is what
\* all later comments are about.
Pinned(s, k, i, n) ==
  /\ k \in DOMAIN issue[s].comments /\ issue[s].comments[k].word = "question"
  /\ \A j \in DOMAIN issue[s].comments :
       j >= k => issue[s].comments[j].about = [run |-> i, no |-> n]

\* A worker has read a reply and has not compared it with the run yet.
Resuming(W) == W.pc = "resume" \/ (W.pc = "drive" /\ W.then = "match")

\* Nobody has the story in hand; nobody has touched its run.
Free(s) == \A w \in Workers : worker[w].story # s
Waiting(s) == \A w \in Workers : worker[w].story = s => Resuming(worker[w])

Here(W) == [run |-> W.run, no |-> runs[W.run].no]

RecordOK(s) ==
  /\ Latest(s, pending[s].run)
  /\ pending[s].kind \in {"gate", "checkpoint"} /\ pending[s].seen <= Len(issue[s].comments)
  /\ pending[s].kind = "gate" =>
       pending[s].stage \in GATES /\ runs[pending[s].run].stage \in Past(pending[s].stage)

\* The run is at the pause of the record, and replies to it are about it.
PauseOK(s) ==
  LET r == runs[pending[s].run] IN
  /\ Waiting(s) /\ Trusted("checkpoint") => same_pause(r, pending[s])
  /\ same_pause(r, pending[s]) /\ Trusted(pending[s].kind)
     /\ (pending[s].kind = "gate" \/ Waiting(s)) =>
       Pinned(s, pending[s].seen, pending[s].run, r.no)

\* Nothing has cut a worker short or kept a report from its issue.
Unbroken == \A k \in {"crash", "exit", "post"} : bad[k] = 0

Forgotten(s) ==
  /\ issue[s].status = "approval" /\ pending[s] = NoRecord
  /\ told[s] = {} /\ Free(s)

FileOK(s) == pending[s] # NoRecord => RecordOK(s) /\ PauseOK(s)

EndedOK(s) ==
  s \in processed => pending[s] = NoRecord /\ \E i \in DOMAIN runs : Latest(s, i) /\ over(runs[i])

DoneOK(s) ==
  bad["crash"] = 0 /\ issue[s].status = "done" =>
    \E i \in DOMAIN runs : runs[i].story = s /\ runs[i].stage = COMPLETED

\* A run that waits was not abandoned.
LiveOK(s) ==
  bad["crash"] = 0 /\ pending[s] # NoRecord /\ Free(s) => runs[pending[s].run].stage # ABANDONED

ToldOK(s) == Unbroken => ~Forgotten(s)

StoryOK(s) == FileOK(s) /\ EndedOK(s) /\ DoneOK(s) /\ LiveOK(s) /\ ToldOK(s)

\* The records still to be looked at are those of the file.
TodoOK(W) ==
  \A p \in W.todo :
    p[1] \in Stories /\ p[1] # W.story /\ p[2] = pending[p[1]] /\ p[2] # NoRecord

\* A story in hand: its record, its run, and how far its handling is.
HandOK(W) ==
  /\ W.story \in Stories \ processed
  /\ IF W.from = "check" /\ W.pc # "mark"
     THEN pending[W.story] # NoRecord /\ pending[W.story].run = W.run
     ELSE pending[W.story] = NoRecord
  /\ W.pc \notin {"build", "report"} => Latest(W.story, W.run)
  /\ (Resuming(W) \/ W.pc = "pop" => W.from = "check") /\ (W.pc \in {"build", "report"} => W.from = "poll")
  /\ Resuming(W) => W.record = pending[W.story] /\ W.word \in {"yes", "no"}
  /\ W.pc \notin {"resume", "drive"} => W.then = "loop"

PlaceOK(W) ==
  LET r == runs[W.run] IN
  /\ W.pc = "apply" => /\ paused(r) /\ W.word \in {"yes", "no", "auto"}
                       /\ W.word = "auto" => auto_approved(r)
  /\ W.pc = "stop" => ~paused(r) /\ ~over(r)
  /\ W.pc \in {"post", "save"} => paused(r)
  /\ W.pc = "save" => W.seen <= Len(issue[W.story].comments)
  /\ W.pc \in {"finish", "pop", "mark"} => over(r)
  /\ W.pc \in {"pop", "mark"} /\ Unbroken => told[W.story] # {}

\* Without a kill an abandoned run is reported as such.
ReportOK(W) ==
  bad["crash"] = 0 =>
    /\ W.pc = "finish" /\ W.exit = 0 => runs[W.run].stage = COMPLETED
    /\ W.pc \in {"resume", "drive", "apply", "stop", "post", "save"} =>
         runs[W.run].stage # ABANDONED

\* The reply in hand is for the pause it will be applied to.
ReplyOK(W) ==
  /\ W.pc = "save" /\ bad["post"] = 0 => Pinned(W.story, W.seen, W.run, runs[W.run].no)
  /\ Resuming(W) /\ same_pause(runs[W.run], W.record) /\ Trusted(W.record.kind) =>
       W.about = Here(W)
  /\ W.pc = "apply" /\ W.word # "auto" /\ Trusted(pause_kind(runs[W.run])) => W.about = Here(W)

WorkerOK(W) ==
  /\ W.pc \in Resting => W.todo = {}
  /\ W.pc \notin Busy => W.story = NoStory
  /\ TodoOK(W)
  /\ W.pc \in Busy => HandOK(W) /\ PlaceOK(W) /\ ReportOK(W) /\ ReplyOK(W)

AppliedOK ==
  \A a \in applied : a.kind \in {"gate", "checkpoint"} /\ (Trusted(a.kind) => a.about = a.to)

StoriesOK == \A s \in Stories : StoryOK(s)

WorkersOK == \A W \in {worker[w] : w \in Workers} : WorkerOK(W)

IInv == Shape /\ RunsOK /\ AppliedOK /\ StoriesOK /\ WorkersOK

-----------------------------------------------------------------------------
(* The operators.                                                          *)

\* A set of numbers that is not empty has a least one.
LEMMA LeastOf ==
  ASSUME NEW S, S \subseteq Nat, S # {}
  PROVE  \E i \in S : \A j \in S : ~(j < i)
<1>1. PICK i \in S : \A j \in S : <<j, i>> \notin OpToRel(<, Nat)
  BY WFMin, NatLessThanWellFounded, Zenon
<1>2. \A j \in S : ~(j < i)
  BY <1>1, Zenon DEF OpToRel
<1> QED BY <1>2

\* Max is the greatest of a bounded set of numbers.
LEMMA MaxOf ==
  ASSUME NEW n \in Nat, NEW S, S \subseteq 1 .. n, S # {}
  PROVE  Max(S) \in S /\ \A y \in S : y <= Max(S)
<1> DEFINE U == {m \in Nat : \A y \in S : y <= m}
<1>1. PICK m \in U : \A j \in U : ~(j < m)
  <2>1. n \in U
    OBVIOUS
  <2> QED BY <2>1, LeastOf
<1>2. m \in S
  <2>1. SUFFICES ASSUME m \notin S PROVE FALSE
    OBVIOUS
  <2>2. PICK y \in S : TRUE
    OBVIOUS
  <2>3. m - 1 \in Nat
    BY <1>1, <2>2
  <2>4. \A z \in S : z <= m - 1
    BY <1>1, <2>1
  <2> QED BY <1>1, <2>3, <2>4
<1>3. \E x \in S : \A y \in S : x >= y
  BY <1>1, <1>2
<1>4. Max(S) \in S /\ \A y \in S : Max(S) >= y
  BY <1>3 DEF Max
<1> QED BY <1>4

\* The latest run of a story is the greatest of its runs.
LEMMA LatestIsMax ==
  ASSUME Shape, NEW s, NEW i, Latest(s, i)
  PROVE  Max(runs_of(s)) = i
<1>1. DOMAIN runs = 1 .. Len(runs) /\ Len(runs) \in Nat
  BY DEF Shape
<1>2. i \in runs_of(s) /\ \A y \in runs_of(s) : y <= i
  BY DEF Latest, runs_of
<1>3. runs_of(s) \subseteq 1 .. Len(runs)
  BY <1>1 DEF runs_of
<1>4. Max(runs_of(s)) \in runs_of(s) /\ i <= Max(runs_of(s))
  BY <1>1, <1>2, <1>3, MaxOf
<1> QED BY <1>1, <1>2, <1>3, <1>4

\* The drive loop never goes back to a gate that was behind it.
LEMMA GatesStayPast ==
  ASSUME NEW g \in GATES, NEW s, NEW t, <<s, t>> \in LEGAL_TRANSITIONS,
         s \in Past(g), s \notin GATES
  PROVE  t \in Past(g) /\ t # g
BY DEF GATES, Past, LEGAL_TRANSITIONS, INTAKE, RESEARCH, PLAN_AUTHORING, PLAN_APPROVAL_GATE,
       IMPLEMENTATION, VERIFICATION, CHANGE_REVIEW_GATE, PACKAGING, RETROSPECTIVE, COMPLETED,
       ABANDONED

\* A run that waits for someone is not over.
LEMMA PausedNotOver ==
  ASSUME RunsOK, NEW i \in DOMAIN runs, paused(runs[i])
  PROVE  ~over(runs[i])
BY DEF RunsOK, paused, pause_kind, over, GATES, TERMINAL_STAGES, PLAN_APPROVAL_GATE,
       IMPLEMENTATION, VERIFICATION, CHANGE_REVIEW_GATE, COMPLETED, ABANDONED

\* The step is a fault or leaves the faults as they are.
Harder == bad' \in [FaultKinds -> Nat] /\ \A k \in FaultKinds : bad[k] <= bad'[k]

\* A fault adds to the faults.
LEMMA FaultIsHarder ==
  ASSUME Shape, NEW k \in FaultKinds, Fault(k)
  PROVE  Harder /\ bad'[k] > 0
<1>1. PICK n \in Nat : n = bad[k] + 1
  BY DEF Shape
<1>2. bad' = [bad EXCEPT ![k] = n]
  BY <1>1 DEF Fault
<1> QED BY <1>1, <1>2 DEF Shape, Harder

\* What was excused stays excused.
LEMMA HarderMeans ==
  ASSUME Shape, Harder
  PROVE  /\ \A k \in FaultKinds : bad'[k] = 0 => bad[k] = 0
         /\ bad'["crash"] = 0 => bad["crash"] = 0
         /\ bad'["raise"] = 0 => bad["raise"] = 0
         /\ bad'["exit"] = 0 => bad["exit"] = 0
         /\ bad'["post"] = 0 => bad["post"] = 0
         /\ \A kind : Trusted(kind)' => Trusted(kind)
         /\ Unbroken' => Unbroken
<1>1. \A k \in FaultKinds : bad'[k] = 0 => bad[k] = 0
  BY DEF Shape, Harder
<1> QED BY <1>1 DEF FaultKinds, Trusted, Unbroken

\* A worker that holds nothing satisfies the invariant in every state.
LEMMA IdleOK ==
  ASSUME NEW W, W.pc \notin Busy, W.todo = {}, W.story = NoStory
  PROVE  WorkerOK(W) /\ WorkerOK(W)'
BY DEF WorkerOK, TodoOK

-----------------------------------------------------------------------------
(* What a step leaves alone.                                               *)

\* The step changes no run of story s and starts none.
SameRunsOf(s) ==
  /\ \A i \in DOMAIN runs : runs[i].story = s => i \in DOMAIN runs' /\ runs'[i] = runs[i]
  /\ \A i \in DOMAIN runs' : runs'[i].story = s => i \in DOMAIN runs /\ runs[i].story = s

\* The step adds comments to story s at most, about what the last one is about.
CommentsGrow(s) ==
  /\ Len(issue[s].comments) <= Len(issue'[s].comments)
  /\ \A k, i, n : Pinned(s, k, i, n) => Pinned(s, k, i, n)'

\* The step leaves the record and the runs of story s alone, and does not end it.
SameStory(s) ==
  /\ pending'[s] = pending[s] /\ (s \in processed' => s \in processed)
  /\ issue'[s].status = "done" => issue[s].status = "done"
  /\ SameRunsOf(s) /\ CommentsGrow(s)

\* An issue that does not change has no more comments.
LEMMA SameComments ==
  ASSUME Shape, NEW s \in Stories, issue'[s].comments = issue[s].comments
  PROVE  CommentsGrow(s)
BY DEF CommentsGrow, Pinned, Shape, IssueType

\* The latest run stays the latest one.
LEMMA LatestStays ==
  ASSUME NEW s, SameRunsOf(s), NEW i, Latest(s, i)
  PROVE  Latest(s, i)' /\ runs'[i] = runs[i]
BY DEF SameRunsOf, Latest

\* The record of a story whose run nobody touches.
LEMMA FileStays ==
  ASSUME Shape, Shape', NEW s \in Stories, SameStory(s), Harder, FileOK(s),
         \/ Waiting(s)' => Waiting(s)
         \/ pending[s] = NoRecord
         \/ ~Trusted("checkpoint")'
  PROVE  FileOK(s)'
<1>1. SUFFICES ASSUME pending'[s] # NoRecord PROVE RecordOK(s)' /\ PauseOK(s)'
  BY DEF FileOK
<1>2. pending'[s] = pending[s] /\ SameRunsOf(s) /\ CommentsGrow(s)
  BY DEF SameStory
<1>3. RecordOK(s) /\ PauseOK(s)
  BY <1>1, <1>2 DEF FileOK
<1>4. Latest(s, pending[s].run) /\ pending[s].kind \in {"gate", "checkpoint"}
  BY <1>3 DEF RecordOK
<1>5. Latest(s, pending[s].run)' /\ runs'[pending[s].run] = runs[pending[s].run]
  BY <1>2, <1>4, LatestStays
<1>6. RecordOK(s)'
  <2>1. /\ pending[s].seen \in Nat /\ Len(issue[s].comments) \in Nat
        /\ Len(issue'[s].comments) \in Nat
    BY DEF Shape, RecordType, IssueType
  <2>2. pending[s].seen <= Len(issue'[s].comments)
    BY <1>2, <1>3, <2>1 DEF RecordOK, CommentsGrow
  <2> QED BY <1>2, <1>3, <1>5, <2>2 DEF RecordOK
<1>7. \A kind : Trusted(kind)' => Trusted(kind)
  BY HarderMeans
<1>8. ASSUME Waiting(s)', Trusted("checkpoint")' PROVE same_pause(runs[pending[s].run], pending[s])
  BY <1>1, <1>2, <1>3, <1>7, <1>8 DEF PauseOK
<1>9. ASSUME same_pause(runs[pending[s].run], pending[s]), Trusted(pending[s].kind)',
             pending[s].kind = "gate" \/ Waiting(s)'
      PROVE  Pinned(s, pending[s].seen, pending[s].run, runs[pending[s].run].no)
  BY <1>1, <1>2, <1>3, <1>4, <1>7, <1>9 DEF PauseOK
<1>10. ASSUME NEW k, NEW i, NEW n, Pinned(s, k, i, n) PROVE Pinned(s, k, i, n)'
  BY <1>2, <1>10 DEF CommentsGrow
<1>11. PauseOK(s)'
  BY <1>2, <1>5, <1>8, <1>9, <1>10 DEF PauseOK, same_pause, pause_kind, Trusted
<1> QED BY <1>6, <1>11

\* A story that nobody touches.
LEMMA StoryStays ==
  ASSUME Shape, Shape', NEW s \in Stories, SameStory(s), Harder, StoryOK(s),
         \/ Waiting(s)' => Waiting(s)
         \/ pending[s] = NoRecord
         \/ ~Trusted("checkpoint")',
         Free(s)' /\ bad'["crash"] = 0 /\ pending[s] # NoRecord =>
           Free(s) \/ runs[pending[s].run].stage # ABANDONED,
         \/ /\ (Free(s)' => Free(s)) /\ told'[s] = told[s] /\ (s \in processed => s \in processed')
            /\ issue'[s].status = "approval" => issue[s].status = "approval"
         \/ ToldOK(s)'
  PROVE  StoryOK(s)'
<1>1. FileOK(s)'
  BY FileStays DEF StoryOK
<1>2. EndedOK(s)'
  BY LatestStays DEF StoryOK, EndedOK, SameStory, over, Latest
<1>3. DoneOK(s)'
  BY HarderMeans DEF StoryOK, DoneOK, SameStory, SameRunsOf
<1>4. LiveOK(s)'
  <2>1. SUFFICES ASSUME bad'["crash"] = 0, pending[s] # NoRecord, Free(s)'
                 PROVE  runs'[pending[s].run].stage # ABANDONED
    BY DEF LiveOK, SameStory
  <2>2. Latest(s, pending[s].run)
    BY <2>1 DEF StoryOK, FileOK, RecordOK
  <2>3. runs'[pending[s].run] = runs[pending[s].run]
    BY <2>2, LatestStays DEF SameStory
  <2>4. bad["crash"] = 0
    BY <2>1, HarderMeans
  <2> QED BY <2>1, <2>3, <2>4 DEF StoryOK, LiveOK
<1>5. ToldOK(s)'
  BY HarderMeans DEF StoryOK, ToldOK, Forgotten, SameStory
<1> QED BY <1>1, <1>2, <1>3, <1>4, <1>5 DEF StoryOK

\* The steps that leave the files and the runs alone.
SameFiles ==
  /\ runs' = runs /\ pending' = pending /\ processed' = processed
  /\ \A s \in Stories : CommentsGrow(s) /\ told[s] \subseteq told'[s]

\* What such a step leaves of a worker that does not take it.
LEMMA WorkerStays ==
  ASSUME Shape, Shape', SameFiles, Harder, NEW W \in WorkerType, WorkerOK(W)
  PROVE  WorkerOK(W)'
<1>1. TodoOK(W)'
  BY DEF WorkerOK, TodoOK, SameFiles
<1>2. ASSUME W.pc \in Busy PROVE HandOK(W)' /\ PlaceOK(W)' /\ ReportOK(W)' /\ ReplyOK(W)'
  <2>1. HandOK(W) /\ PlaceOK(W) /\ ReportOK(W) /\ ReplyOK(W)
    BY <1>2 DEF WorkerOK
  <2>2. W.story \in Stories /\ CommentsGrow(W.story)
    BY <2>1 DEF HandOK, SameFiles
  <2>3. HandOK(W)'
    BY <2>1 DEF HandOK, Resuming, Latest, SameFiles
  <2>4. W.pc = "save" => W.seen <= Len(issue'[W.story].comments)
    <3>1. /\ W.seen \in Nat /\ Len(issue[W.story].comments) \in Nat
          /\ Len(issue'[W.story].comments) \in Nat
      BY <2>2 DEF Shape, WorkerType, IssueType
    <3> QED BY <2>1, <2>2, <3>1 DEF PlaceOK, CommentsGrow
  <2>5. PlaceOK(W)'
    BY <2>1, <2>2, <2>4, HarderMeans DEF PlaceOK, SameFiles
  <2>6. ReportOK(W)'
    BY <2>1, HarderMeans DEF ReportOK, SameFiles
  <2>7. ReplyOK(W)'
    <3>1. W.pc = "save" /\ bad'["post"] = 0 =>
            Pinned(W.story, W.seen, W.run, runs[W.run].no)'
      BY <2>1, <2>2, HarderMeans DEF ReplyOK, CommentsGrow, SameFiles
    <3> QED BY <2>1, <3>1, HarderMeans DEF ReplyOK, SameFiles, Resuming, Here
  <2> QED BY <2>3, <2>5, <2>6, <2>7
<1> QED BY <1>1, <1>2 DEF WorkerOK

\* No other worker is beyond its lock.
Alone(w) == \A v \in Workers \ {w} : worker[v].pc \in Resting

\* One worker steps: what is left to show of it, and of the others.
LEMMA Assemble ==
  ASSUME IInv, Shape', NEW w \in Workers, NEW W, worker' = [worker EXCEPT ![w] = W],
         WorkerOK(W)', Alone(w) \/ (SameFiles /\ Harder)
  PROVE  WorkersOK'
<1>1. SUFFICES ASSUME NEW v \in Workers, NEW V, V = worker'[v] PROVE WorkerOK(V)'
  BY DEF WorkersOK
<1>2. CASE v = w
  BY <1>1, <1>2 DEF IInv, Shape
<1>3. CASE v # w
  <2>1. V = worker[v] /\ V \in WorkerType
    BY <1>1, <1>3 DEF IInv, Shape
  <2>2. WorkerOK(V)
    BY <2>1 DEF IInv, WorkersOK
  <2>3. CASE Alone(w)
    <3>1. V.pc \in Resting
      BY <1>3, <2>1, <2>3 DEF Alone
    <3>2. V.pc \notin Busy /\ V.todo = {} /\ V.story = NoStory
      BY <2>2, <3>1 DEF WorkerOK, Resting, Busy
    <3> QED BY <3>1, <3>2, IdleOK
  <2>4. CASE SameFiles /\ Harder
    BY <2>1, <2>2, <2>4, WorkerStays DEF IInv
  <2> QED BY <2>3, <2>4
<1> QED BY <1>2, <1>3

\* A worker that is beyond its lock is alone.
LEMMA OneWorks ==
  ASSUME OneInstance, NEW w \in Workers, worker[w].pc \notin Resting
  PROVE  Alone(w)
BY DEF OneInstance, Alone, Resting

\* The step of worker w has no part in story s.
NotHis(w, s) == worker[w].story # s /\ worker'[w].story # s

\* A story the step has no part in.
LEMMA OtherStory ==
  ASSUME IInv, Shape', Harder, NEW w \in Workers, NEW W, worker' = [worker EXCEPT ![w] = W],
         NEW s \in Stories, NotHis(w, s), SameStory(s), told'[s] = told[s],
         s \in processed => s \in processed',
         issue'[s].status = "approval" => issue[s].status = "approval"
  PROVE  StoryOK(s)'
<1>1. \A v \in Workers : worker'[v].story = worker[v].story \/ v = w
  BY DEF IInv, Shape
<1>2. \A v \in Workers : worker'[v] = worker[v] \/ v = w
  BY DEF IInv, Shape
<1>3. Free(s)' => Free(s)
  BY <1>1 DEF Free, NotHis
<1>4. Waiting(s)' => Waiting(s)
  BY <1>2 DEF Waiting, NotHis, Resuming
<1>5. StoryOK(s)
  BY DEF IInv, StoriesOK
<1> QED BY <1>3, <1>4, <1>5, StoryStays DEF IInv

-----------------------------------------------------------------------------
(* The first state.                                                        *)

\* The values a worker starts with have their types.
LEMMA OffType ==
  /\ NoRecord \in RecordType /\ NoPause \in PauseId
  /\ \A pc \in Places : [Off EXCEPT !.pc = pc] \in WorkerType
  /\ Off \in WorkerType
<1>1. INTAKE \in ALL_STAGES
  BY DEF ALL_STAGES, NON_TERMINAL_STAGES
<1>2. NoRecord \in RecordType /\ NoPause \in PauseId
  BY <1>1 DEF NoRecord, RecordType, NoPause, PauseId
<1>3. Off \in WorkerType
  BY <1>2 DEF Off, WorkerType, Places, Resting
<1>4. \A pc \in Places : [Off EXCEPT !.pc = pc] \in WorkerType
  BY <1>2 DEF Off, WorkerType
<1> QED BY <1>2, <1>3, <1>4

\* A worker with some records to look at and nothing in hand.
LEMMA FreshType ==
  ASSUME NEW pc \in Places, NEW todo \in SUBSET (Stories \X RecordType)
  PROVE  [Off EXCEPT !.pc = pc, !.todo = todo] \in WorkerType
<1>1. NoRecord \in RecordType /\ NoPause \in PauseId
  BY OffType
<1> QED BY <1>1 DEF WorkerType, Off

\* The invariant holds before anything was polled.
LEMMA InitInv == Init => IInv
<1> SUFFICES ASSUME Init PROVE IInv
  OBVIOUS
<1> USE DEF Init
<1>1. Shape
  <2>1. issue \in [Stories -> IssueType]
    BY DEF IssueType
  <2>2. bad \in [FaultKinds -> Nat]
    OBVIOUS
  <2> QED BY <2>1, <2>2, OffType DEF Shape
<1>2. RunsOK /\ AppliedOK
  BY DEF RunsOK, AppliedOK
<1>3. StoriesOK
  <2>1. SUFFICES ASSUME NEW s \in Stories PROVE StoryOK(s)
    BY DEF StoriesOK
  <2>2. pending[s] = NoRecord /\ s \notin processed /\ issue[s].status = "trigger"
    OBVIOUS
  <2> QED BY <2>2 DEF StoryOK, FileOK, EndedOK, DoneOK, LiveOK, ToldOK, Forgotten
<1>4. WorkersOK
  <2>1. WorkerOK(Off)
    BY IdleOK DEF Off, Busy
  <2> QED BY <2>1 DEF WorkersOK
<1> QED BY <1>1, <1>2, <1>3, <1>4 DEF IInv

-----------------------------------------------------------------------------
(* The steps inside a worker: only its memory changes.                     *)

Local(w, W) ==
  /\ W \in WorkerType /\ worker' = [worker EXCEPT ![w] = W]
  /\ lock' \in Workers \cup {NoWorker} /\ Harder
  /\ UNCHANGED <<issue, runs, pending, processed, told, applied>>

\* What such a step leaves alone.
LEMMA LocalFrame ==
  ASSUME IInv, NEW w \in Workers, NEW W, Local(w, W)
  PROVE  /\ Shape' /\ SameFiles /\ RunsOK' /\ AppliedOK'
         /\ \A s \in Stories : SameStory(s)
         /\ \A V \in WorkerType : WorkerOK(V) => WorkerOK(V)'
<1>1. Shape'
  BY DEF IInv, Local, Shape, Harder
<1>2. SameFiles
  BY SameComments DEF IInv, Local, SameFiles
<1>3. RunsOK'
  BY DEF IInv, RunsOK, Local
<1>4. AppliedOK'
  BY HarderMeans DEF IInv, AppliedOK, Local
<1>5. \A s \in Stories : SameStory(s)
  BY <1>2 DEF SameStory, SameFiles, SameRunsOf, Local
<1>6. \A V \in WorkerType : WorkerOK(V) => WorkerOK(V)'
  BY <1>1, <1>2, WorkerStays DEF IInv, Local
<1> QED BY <1>1, <1>2, <1>3, <1>4, <1>5, <1>6

\* A step inside a worker that keeps its story, or takes one up.
LEMMA LocalStep ==
  ASSUME IInv, NEW w \in Workers, NEW W, Local(w, W), WorkerOK(W)',
         worker[w].story \in {W.story, NoStory},
         Resuming(W) => worker[w].story = NoStory \/ Resuming(worker[w])
  PROVE  IInv'
<1>1. /\ Shape' /\ SameFiles /\ RunsOK' /\ AppliedOK' /\ Harder
      /\ \A s \in Stories : SameStory(s)
  BY LocalFrame DEF Local
<1>2. worker' = [worker EXCEPT ![w] = W]
  BY DEF Local
<1>3. WorkersOK'
  BY <1>1, <1>2, Assemble
<1>4. ASSUME NEW s \in Stories PROVE StoryOK(s)'
  <2>1. s # NoStory
    BY WorkerAssumption
  <2>2. \A v \in Workers : worker'[v] = IF v = w THEN W ELSE worker[v]
    BY <1>2 DEF IInv, Shape
  <2>3. Free(s)' => Free(s)
    BY <2>1, <2>2 DEF Free
  <2>4. Waiting(s)' => Waiting(s)
    <3>1. SUFFICES ASSUME Waiting(s)', NEW v \in Workers, worker[v].story = s
                   PROVE  Resuming(worker[v])
      BY DEF Waiting
    <3>2. worker'[v].story = s
      BY <2>1, <2>2, <3>1
    <3>3. Resuming(worker[v])'
      BY <3>1, <3>2 DEF Waiting
    <3>4. CASE v = w
      BY <2>1, <2>2, <3>1, <3>3, <3>4 DEF Resuming
    <3>5. CASE v # w
      BY <2>2, <3>3, <3>5 DEF Resuming
    <3> QED BY <3>4, <3>5
  <2>5. StoryOK(s) /\ Shape
    BY DEF IInv, StoriesOK
  <2>6. /\ told'[s] = told[s] /\ (s \in processed => s \in processed')
        /\ issue'[s].status = "approval" => issue[s].status = "approval"
    BY DEF Local
  <2> QED BY <1>1, <2>3, <2>4, <2>5, <2>6, StoryStays
<1> QED BY <1>1, <1>3, <1>4 DEF IInv, StoriesOK

\* What the invariant says of worker w.
LEMMA Of ==
  ASSUME IInv, NEW w \in Workers
  PROVE  /\ Shape /\ worker[w] \in WorkerType /\ WorkerOK(worker[w])
         /\ worker[w].todo \subseteq Stories \X RecordType
         /\ worker[w].pc \notin Busy => worker[w].story = NoStory
         /\ worker[w].pc \in Busy => worker[w].story \in Stories
BY DEF IInv, Shape, WorkersOK, WorkerOK, HandOK, WorkerType

\* A step that does not fail is no harder.
LEMMA NoFault == ASSUME Shape, UNCHANGED bad PROVE Harder
BY DEF Shape, Harder

\* A worker that goes from one place without a story to another.
LEMMA Between ==
  ASSUME IInv, NEW w \in Workers, NEW pc \in Places, NEW todo,
         pc \notin Busy, pc \in Resting => todo = {},
         worker[w].pc \notin Busy, todo \subseteq worker[w].todo,
         Local(w, [worker[w] EXCEPT !.pc = pc, !.todo = todo])
  PROVE  IInv'
<1>1. worker[w] \in WorkerType /\ WorkerOK(worker[w]) /\ worker[w].story = NoStory
  BY Of
<1>2. PICK V, W : V = worker[w] /\ W = [worker[w] EXCEPT !.pc = pc, !.todo = todo]
  OBVIOUS
<1>3. W.pc = pc /\ W.todo = todo /\ W.story = NoStory /\ Local(w, W)
  BY <1>1, <1>2 DEF WorkerType
<1>4. ~Resuming(W)
  BY <1>3 DEF Resuming, Busy
<1>5. WorkerOK(V)'
  BY <1>1, <1>2, <1>3, LocalFrame
<1>6. TodoOK(V)' /\ todo \subseteq V.todo /\ V.story = NoStory
  BY <1>1, <1>2, <1>5 DEF WorkerOK
<1>7. TodoOK(W)'
  BY <1>3, <1>6 DEF TodoOK
<1>8. WorkerOK(W)'
  BY <1>3, <1>7 DEF WorkerOK
<1> QED BY <1>1, <1>3, <1>4, <1>8, LocalStep

\* A worker that starts afresh from a place without a story.
LEMMA Afresh ==
  ASSUME IInv, NEW w \in Workers, NEW pc \in Places, pc \notin Busy, worker[w].pc \notin Busy,
         Local(w, [Off EXCEPT !.pc = pc])
  PROVE  IInv'
<1> DEFINE W == [Off EXCEPT !.pc = pc]
<1>1. W.pc = pc /\ W.todo = {} /\ W.story = NoStory
  BY DEF Off
<1>2. WorkerOK(W)' /\ ~Resuming(W)
  BY <1>1, IdleOK DEF Resuming, Busy
<1>3. worker[w].story = NoStory
  BY Of
<1> HIDE DEF W
<1> QED BY <1>1, <1>2, <1>3, LocalStep DEF W

\* goto changes the place.
LEMMA GoTo ==
  ASSUME IInv, NEW w \in Workers, NEW pc \in Places, goto(w, pc)
  PROVE  /\ worker' = [worker EXCEPT ![w] = [worker[w] EXCEPT !.pc = pc, !.todo = worker[w].todo]]
         /\ worker' = [worker EXCEPT ![w] = [worker[w] EXCEPT !.pc = pc]]
         /\ [worker[w] EXCEPT !.pc = pc, !.todo = worker[w].todo] \in WorkerType
<1>1. worker[w] \in WorkerType
  BY Of
<1>2. [worker[w] EXCEPT !.pc = pc, !.todo = worker[w].todo] = [worker[w] EXCEPT !.pc = pc]
  BY <1>1 DEF WorkerType
<1>3. [worker[w] EXCEPT !.pc = pc, !.todo = worker[w].todo] \in WorkerType
  BY <1>1 DEF WorkerType
<1> QED BY <1>2, <1>3 DEF goto

\* The lock is taken: nothing in hand changes.
LEMMA AcquireLockInv ==
  ASSUME IInv, NEW w \in Workers, AcquireLock(w) PROVE IInv'
<1>1. "locked" \in Places /\ "locked" \notin Busy
  BY DEF Places, Busy, Resting
<1>2. worker[w].pc \notin Busy /\ worker[w].todo = {}
  BY Of DEF WorkerOK, Resting, AcquireLock, Busy
<1>3. Local(w, [worker[w] EXCEPT !.pc = "locked", !.todo = worker[w].todo])
  BY <1>1, GoTo, NoFault, Of DEF AcquireLock, Local
<1> QED BY <1>1, <1>2, <1>3, Between

\* The lock goes with its file object; the instance starts to tick.
LEMMA ReturnFromAcquireInv ==
  ASSUME IInv, NEW w \in Workers, ReturnFromAcquire(w) PROVE IInv'
<1>1. "tick" \in Places /\ "tick" \notin Busy \cup Resting
  BY DEF Places, Busy, Resting
<1>2. worker[w].pc \notin Busy
  BY DEF ReturnFromAcquire, Busy
<1>3. Local(w, [worker[w] EXCEPT !.pc = "tick", !.todo = worker[w].todo])
  BY <1>1, GoTo, NoFault, Of DEF ReturnFromAcquire, Local
<1> QED BY <1>1, <1>2, <1>3, Between

\* Every record was looked at: on to the new stories.
LEMMA EndRepliesInv ==
  ASSUME IInv, NEW w \in Workers, EndReplies(w) PROVE IInv'
<1>1. "poll" \in Places /\ "poll" \notin Busy \cup Resting
  BY DEF Places, Busy, Resting
<1>2. worker[w].pc \notin Busy
  BY DEF EndReplies, Busy
<1>3. Local(w, [worker[w] EXCEPT !.pc = "poll", !.todo = worker[w].todo])
  BY <1>1, GoTo, NoFault, Of DEF EndReplies, Local, Shape
<1> QED BY <1>1, <1>2, <1>3, Between

\* No new story, or none that can be read: the tick is over.
LEMMA NothingNewInv ==
  ASSUME IInv, NEW w \in Workers, NothingNew(w) PROVE IInv'
<1>1. "over" \in Places /\ "over" \notin Busy \cup Resting /\ "jira" \in FaultKinds
  BY DEF Places, Busy, Resting, FaultKinds
<1>2. worker[w].pc \notin Busy
  BY DEF NothingNew, Busy
<1>3. Harder
  BY <1>1, FaultIsHarder, NoFault DEF NothingNew, IInv
<1>4. Local(w, [worker[w] EXCEPT !.pc = "over", !.todo = worker[w].todo])
  BY <1>1, <1>3, GoTo, Of DEF NothingNew, Local, Shape
<1> QED BY <1>1, <1>2, <1>4, Between

\* The next tick, or the end of the process, starts with nothing in hand.
LEMMA EndTickInv ==
  ASSUME IInv, NEW w \in Workers, EndTick(w) PROVE IInv'
<1>1. /\ {"tick", "off"} \subseteq Places \ Busy
      /\ worker[w].pc \notin Busy
  BY DEF Places, Busy, Resting, EndTick
<1>2. [Off EXCEPT !.pc = "off"] = Off
  BY DEF Off
<1>3. PICK pc \in {"tick", "off"} : worker' = [worker EXCEPT ![w] = [Off EXCEPT !.pc = pc]]
  BY <1>2 DEF EndTick
<1>4. Local(w, [Off EXCEPT !.pc = pc])
  BY <1>1, <1>3, NoFault, Of, OffType DEF EndTick, Local, Shape
<1> QED BY <1>1, <1>4, Afresh

\* A record whose comments cannot be read waits for the next tick.
LEMMA ListCommentsFailsInv ==
  ASSUME IInv, NEW w \in Workers, ListCommentsFails(w) PROVE IInv'
<1>1. "replies" \in Places /\ "replies" \notin Busy \cup Resting /\ "jira" \in FaultKinds
  BY DEF Places, Busy, Resting, FaultKinds
<1>2. worker[w].pc = "replies" /\ worker[w] \in WorkerType
  BY Of DEF ListCommentsFails
<1>3. PICK p \in worker[w].todo : worker' = [worker EXCEPT ![w].todo = @ \ {p}]
  BY DEF ListCommentsFails
<1> DEFINE todo == worker[w].todo \ {p}
           W == [worker[w] EXCEPT !.pc = "replies", !.todo = todo]
<1>4. W = [worker[w] EXCEPT !.todo = todo] /\ W \in WorkerType
  BY <1>1, <1>2 DEF WorkerType
<1>5. Harder
  BY <1>1, FaultIsHarder DEF ListCommentsFails, IInv
<1>6. Local(w, W)
  BY <1>3, <1>4, <1>5, Of DEF ListCommentsFails, Local, Shape
<1> QED BY <1>1, <1>2, <1>6, Between

\* The records to look at are those of the file.
LEMMA BeginTickInv ==
  ASSUME IInv, NEW w \in Workers, BeginTick(w) PROVE IInv'
<1>1. PICK todo : todo = {<<s, pending[s]>> : s \in {t \in Stories : pending[t] # NoRecord}}
  OBVIOUS
<1>2. PICK W : W = [Off EXCEPT !.pc = "replies", !.todo = todo]
  OBVIOUS
<1>3. worker[w].pc = "tick" /\ worker' = [worker EXCEPT ![w] = W]
  BY <1>1, <1>2 DEF BeginTick
<1>4. /\ todo \subseteq Stories \X RecordType
      /\ \A p \in todo : p[1] \in Stories /\ p[2] = pending[p[1]] /\ p[2] # NoRecord
  BY <1>1 DEF IInv, Shape
<1>5. /\ W.pc = "replies" /\ W.todo = todo /\ W.story = NoStory /\ W \in WorkerType
      /\ W.pc \notin Busy \cup Resting
  <2>1. "replies" \in Places /\ "replies" \notin Busy \cup Resting
    BY DEF Places, Busy, Resting
  <2>2. W \in WorkerType
    BY <1>2, <1>4, <2>1, FreshType
  <2>3. W.pc = "replies" /\ W.todo = todo /\ W.story = NoStory
    BY <1>2 DEF Off
  <2> QED BY <2>1, <2>2, <2>3
<1>6. Local(w, W) /\ worker[w].story = NoStory
  BY <1>3, <1>5, NoFault, Of DEF BeginTick, Local, Shape, Busy
<1>7. TodoOK(W)'
  BY <1>4, <1>5, WorkerAssumption DEF TodoOK, BeginTick
<1>8. WorkerOK(W)' /\ ~Resuming(W)
  BY <1>5, <1>7 DEF WorkerOK, Resuming
<1> QED BY <1>5, <1>6, <1>8, LocalStep

\* The run is taken up at the pause of its record.
LEMMA ResumeInv ==
  ASSUME IInv, NEW w \in Workers, Resume(w) PROVE IInv'
<1>1. worker[w].pc = "resume" /\ worker[w] \in WorkerType /\ Shape /\ WorkerOK(worker[w])
  BY Of DEF Resume
<1>2. PICK V, W : V = worker[w] /\ W = [V EXCEPT !.pc = "drive"]
  OBVIOUS
<1>3. worker' = [worker EXCEPT ![w] = W]
  BY <1>2 DEF Resume, goto
<1>4. /\ W \in WorkerType /\ W.pc = "drive" /\ W.todo = V.todo /\ W.from = V.from
      /\ W.story = V.story /\ W.run = V.run /\ W.record = V.record /\ W.then = V.then
      /\ W.word = V.word /\ W.about = V.about
  BY <1>1, <1>2 DEF WorkerType, Places, Busy
<1>5. Local(w, W)
  BY <1>1, <1>3, <1>4, NoFault DEF Resume, Local, Shape
<1>6. Resuming(V) /\ Resuming(worker[w])
  BY <1>1, <1>2 DEF Resuming
<1>7. WorkerOK(V)' /\ V.pc = "resume"
  BY <1>1, <1>2, <1>5, LocalFrame
<1>8. TodoOK(V)' /\ HandOK(V)' /\ ReportOK(V)' /\ ReplyOK(V)'
  BY <1>7 DEF WorkerOK, Busy
<1>9. TodoOK(W)'
  BY <1>4, <1>8 DEF TodoOK
<1>10. HandOK(W)'
  BY <1>4, <1>6, <1>7, <1>8 DEF HandOK
<1>11. PlaceOK(W)'
  BY <1>4 DEF PlaceOK
<1>12. ReportOK(W)'
  BY <1>4, <1>7, <1>8 DEF ReportOK
<1>13. ReplyOK(W)'
  BY <1>4, <1>6, <1>8 DEF ReplyOK, Here
<1>14. WorkerOK(W)'
  BY <1>4, <1>9, <1>10, <1>11, <1>12, <1>13 DEF WorkerOK, Busy, Resting
<1> QED BY <1>2, <1>4, <1>5, <1>6, <1>14, LocalStep

\* The reply is for this pause, or it is left alone.
LEMMA MatchInv ==
  ASSUME IInv, NEW w \in Workers, Match(w) PROVE IInv'
<1>1. /\ worker[w].pc = "drive" /\ worker[w].then = "match"
      /\ worker[w] \in WorkerType /\ Shape /\ WorkerOK(worker[w])
  BY Of DEF Match
<1>2. PICK V, W :
        /\ V = worker[w] /\ worker' = [worker EXCEPT ![w] = W]
        /\ \/ same_pause(runs[V.run], V.record) /\ W = [V EXCEPT !.pc = "apply", !.then = "loop"]
           \/ W = [V EXCEPT !.then = "loop", !.word = "none"]
  BY DEF Match, Run
<1>3. /\ W \in WorkerType /\ W.todo = V.todo /\ W.from = V.from
      /\ W.story = V.story /\ W.run = V.run /\ W.then = "loop" /\ W.about = V.about
      /\ \/ W.pc = "drive"
         \/ W.pc = "apply" /\ same_pause(runs[V.run], V.record) /\ W.word = V.word
  BY <1>1, <1>2 DEF WorkerType, Places, Busy
<1>4. Local(w, W)
  BY <1>1, <1>2, <1>3, NoFault DEF Match, Local, Shape
<1>5. Resuming(V) /\ V.pc = "drive" /\ V \in WorkerType /\ ~Resuming(W)
  BY <1>1, <1>2, <1>3 DEF Resuming
<1>6. WorkerOK(V)' /\ WorkerOK(V)
  BY <1>1, <1>2, <1>4, LocalFrame
<1>7. TodoOK(V)' /\ HandOK(V)' /\ ReportOK(V)' /\ ReplyOK(V)' /\ HandOK(V)
  BY <1>5, <1>6 DEF WorkerOK, Busy
<1>8. TodoOK(W)'
  BY <1>3, <1>7 DEF TodoOK
<1>9. HandOK(W)'
  BY <1>3, <1>5, <1>7 DEF HandOK
<1>10. runs' = runs /\ V.word \in {"yes", "no"}
  BY <1>5, <1>7 DEF HandOK, Match
<1>11. ASSUME W.pc = "apply" PROVE paused(runs[V.run]) /\ pause_kind(runs[V.run]) = V.record.kind
  <2>1. pending[V.story] # NoRecord /\ V.record = pending[V.story] /\ V.story \in Stories
    BY <1>5, <1>7 DEF HandOK
  <2>2. V.record.kind \in {"gate", "checkpoint"}
    BY <2>1 DEF IInv, StoriesOK, StoryOK, FileOK, RecordOK
  <2> QED BY <1>3, <1>11, <2>2 DEF same_pause, paused
<1>12. PlaceOK(W)'
  BY <1>3, <1>10, <1>11 DEF PlaceOK
<1>13. ReportOK(W)'
  BY <1>3, <1>5, <1>7 DEF ReportOK
<1>14. ReplyOK(W)'
  BY <1>3, <1>5, <1>7, <1>10, <1>11 DEF ReplyOK, Here
<1>15. WorkerOK(W)'
  BY <1>3, <1>8, <1>9, <1>12, <1>13, <1>14 DEF WorkerOK, Busy, Resting
<1> QED BY <1>2, <1>3, <1>4, <1>5, <1>15, LocalStep

\* Over, approved at once, or a question: the loop of drive().
LEMMA LoopInv ==
  ASSUME IInv, NEW w \in Workers, Loop(w) PROVE IInv'
<1>1. /\ worker[w].pc = "drive" /\ worker[w].then = "loop"
      /\ worker[w] \in WorkerType /\ Shape /\ WorkerOK(worker[w])
  BY Of DEF Loop
<1>2. PICK V, W :
        /\ V = worker[w] /\ worker' = [worker EXCEPT ![w] = W]
        /\ \/ over(runs[V.run]) /\ W = [V EXCEPT !.pc = "finish", !.exit = 0]
           \/ auto_approved(runs[V.run]) /\ W = [V EXCEPT !.pc = "apply", !.word = "auto"]
           \/ ~over(runs[V.run]) /\ W = [V EXCEPT !.pc = "post"]
  BY DEF Loop, Run
<1>3. /\ W \in WorkerType /\ W.todo = V.todo /\ W.from = V.from
      /\ W.story = V.story /\ W.run = V.run /\ W.then = "loop"
      /\ \/ W.pc = "finish" /\ over(runs[V.run])
         \/ W.pc = "apply" /\ W.word = "auto" /\ auto_approved(runs[V.run])
         \/ W.pc = "post" /\ ~over(runs[V.run])
  BY <1>1, <1>2 DEF WorkerType, Places, Busy
<1>4. Local(w, W)
  BY <1>1, <1>2, <1>3, NoFault DEF Loop, Local, Shape
<1>5. /\ ~Resuming(V) /\ V.pc = "drive" /\ V \in WorkerType /\ ~Resuming(W)
      /\ paused(runs[V.run]) \/ over(runs[V.run])
  BY <1>1, <1>2, <1>3 DEF Resuming, Loop, driving, Run
<1>6. WorkerOK(V)' /\ WorkerOK(V)
  BY <1>1, <1>2, <1>4, LocalFrame
<1>7. TodoOK(V)' /\ HandOK(V)' /\ ReportOK(V)' /\ HandOK(V)
  BY <1>5, <1>6 DEF WorkerOK, Busy
<1>8. TodoOK(W)'
  BY <1>3, <1>7 DEF TodoOK
<1>9. HandOK(W)'
  BY <1>3, <1>5, <1>7 DEF HandOK
<1>10. runs' = runs
  BY DEF Loop
<1>11. auto_approved(runs[V.run]) => paused(runs[V.run])
  BY DEF auto_approved, paused
<1>12. PlaceOK(W)'
  BY <1>3, <1>5, <1>10, <1>11 DEF PlaceOK
<1>13. ReportOK(W)'
  BY <1>3, <1>5, <1>7, <1>10 DEF ReportOK, over, TERMINAL_STAGES
<1>14. ReplyOK(W)'
  BY <1>3, <1>5 DEF ReplyOK
<1>15. WorkerOK(W)'
  BY <1>3, <1>8, <1>9, <1>12, <1>13, <1>14 DEF WorkerOK, Busy, Resting
<1> QED BY <1>2, <1>3, <1>4, <1>5, <1>15, LocalStep

\* A worker that is alone and has nothing in hand: every story is free.
LEMMA AllFree ==
  ASSUME IInv, NEW w \in Workers, Alone(w), worker[w].pc \notin Busy, NEW s \in Stories
  PROVE  Free(s) /\ Waiting(s)
<1>1. \A v \in Workers : worker[v].pc \notin Busy
  BY DEF Alone, Resting, Busy
<1>2. \A v \in Workers : worker[v].story = NoStory
  BY <1>1, Of
<1> QED BY <1>2, WorkerAssumption DEF Free, Waiting

\* A reply is found: the worker takes up the story of the record.
LEMMA TakeUp ==
  ASSUME IInv, NEW w \in Workers, Alone(w), worker[w].pc = "replies",
         NEW p \in worker[w].todo, NEW c \in DOMAIN issue[p[1]].comments,
         c > p[2].seen, issue[p[1]].comments[c].word \in {"yes", "no"},
         NEW W, W = [Off EXCEPT !.pc = "resume", !.todo = worker[w].todo \ {p}, !.from = "check",
                       !.story = p[1], !.run = p[2].run, !.record = p[2], !.then = "match",
                       !.word = issue[p[1]].comments[c].word,
                       !.about = issue[p[1]].comments[c].about],
         worker' = [worker EXCEPT ![w] = W],
         UNCHANGED <<issue, runs, pending, processed, lock, bad, back, told, applied>>
  PROVE  IInv'
<1>1. PICK s, record : s = p[1] /\ record = p[2]
  OBVIOUS
<1>2. /\ Shape /\ worker[w].pc \notin Busy /\ worker[w].story = NoStory
      /\ worker[w].todo \subseteq Stories \X RecordType /\ TodoOK(worker[w])
  BY Of DEF Busy, WorkerOK
<1>3. /\ s \in Stories /\ record \in RecordType /\ p = <<s, record>>
      /\ record = pending[s] /\ record # NoRecord
  BY <1>1, <1>2 DEF TodoOK
<1>4. PICK comment \in CommentType : comment = issue[s].comments[c]
  BY <1>1, <1>2, <1>3 DEF Shape, IssueType
<1>5. /\ W.pc = "resume" /\ W.todo = worker[w].todo \ {p} /\ W.from = "check" /\ W.story = s
      /\ W.run = record.run /\ W.record = record /\ W.then = "match" /\ W.word = comment.word
      /\ W.about = comment.about
  BY <1>1, <1>4 DEF Off
<1>6. W \in WorkerType
  <2>1. NoRecord \in RecordType /\ NoPause \in PauseId /\ "resume" \in Places
    BY OffType DEF Places, Busy
  <2>2. record.run \in Nat /\ comment.about \in PauseId /\ comment.word \in {"yes", "no"}
    BY <1>1, <1>3, <1>4 DEF RecordType, CommentType
  <2>3. worker[w].todo \ {p} \in SUBSET (Stories \X RecordType)
    BY <1>2
  <2> QED BY <1>1, <1>3, <1>4, <2>1, <2>2, <2>3 DEF WorkerType, Off
<1>7. Local(w, W)
  BY <1>2, <1>6, NoFault DEF Local, Shape
<1>8. Resuming(W) /\ W.pc \in Busy /\ W.pc \notin Resting
  BY <1>5 DEF Resuming, Busy, Resting
<1>9. Free(s) /\ Waiting(s) /\ StoryOK(s)
  BY <1>2, <1>3, AllFree DEF IInv, StoriesOK
<1>10. RecordOK(s) /\ PauseOK(s) /\ s \notin processed
  BY <1>3, <1>9 DEF StoryOK, FileOK, EndedOK
<1>11. TodoOK(W)'
  <2>1. SUFFICES ASSUME NEW q \in worker[w].todo, q # p
                 PROVE  q[1] \in Stories /\ q[1] # s /\ q[2] = pending[q[1]] /\ q[2] # NoRecord
    BY <1>5 DEF TodoOK
  <2>2. q = <<q[1], q[2]>> /\ q[1] \in Stories /\ q[2] = pending[q[1]] /\ q[2] # NoRecord
    BY <1>2, <2>1 DEF TodoOK
  <2> QED BY <1>3, <2>1, <2>2
<1>12. HandOK(W)'
  <2>1. Latest(s, record.run)'
    BY <1>3, <1>10 DEF RecordOK, Latest
  <2>2. W.word \in {"yes", "no"}
    BY <1>1, <1>4, <1>5
  <2> QED BY <1>3, <1>5, <1>8, <1>10, <2>1, <2>2 DEF HandOK
<1>13. PlaceOK(W)'
  BY <1>5 DEF PlaceOK
<1>14. ReportOK(W)'
  BY <1>3, <1>5, <1>9 DEF ReportOK, StoryOK, LiveOK
<1>15. ReplyOK(W)'
  <2>1. SUFFICES ASSUME same_pause(runs[record.run], record), Trusted(record.kind)
                 PROVE  comment.about = [run |-> record.run, no |-> runs[record.run].no]
    BY <1>5 DEF ReplyOK, Here, Trusted
  <2>2. Pinned(s, record.seen, record.run, runs[record.run].no)
    BY <1>3, <1>9, <1>10, <2>1 DEF PauseOK
  <2>3. c >= record.seen
    BY <1>1, <1>2, <1>3 DEF Shape, IssueType, RecordType
  <2> QED BY <1>1, <1>4, <2>2, <2>3 DEF Pinned
<1>16. WorkerOK(W)'
  BY <1>8, <1>11, <1>12, <1>13, <1>14, <1>15 DEF WorkerOK
<1> QED BY <1>2, <1>7, <1>16, LocalStep

\* The latest reply after the last comment seen is about the pause of the record.
LEMMA ReadRepliesInv ==
  ASSUME IInv, OneInstance, NEW w \in Workers, ReadReplies(w) PROVE IInv'
<1>1. worker[w].pc = "replies" /\ worker[w] \in WorkerType /\ Shape
  BY Of DEF ReadReplies
<1>2. "replies" \in Places /\ "replies" \notin Busy \cup Resting
  BY DEF Places, Busy, Resting
<1>3. Alone(w)
  BY <1>1, <1>2, OneWorks
<1>4. PICK p \in worker[w].todo :
        LET new == new_replies(p[1], p[2])
            rest == worker[w].todo \ {p}
        IN  worker' = [worker EXCEPT ![w] =
              IF new = {} THEN [@ EXCEPT !.todo = rest]
              ELSE LET c == issue[p[1]].comments[Max(new)]
                   IN  [Off EXCEPT !.pc = "resume", !.todo = rest, !.from = "check",
                          !.story = p[1], !.run = p[2].run, !.record = p[2],
                          !.then = "match", !.word = c.word, !.about = c.about]]
  BY DEF ReadReplies
<1> DEFINE new == new_replies(p[1], p[2])
<1>5. CASE new = {}
  <2> DEFINE todo == worker[w].todo \ {p}
             W == [worker[w] EXCEPT !.pc = "replies", !.todo = todo]
  <2>1. W = [worker[w] EXCEPT !.todo = todo] /\ W \in WorkerType
    BY <1>1, <1>2 DEF WorkerType
  <2>2. worker' = [worker EXCEPT ![w] = [worker[w] EXCEPT !.todo = todo]]
    BY <1>4, <1>5
  <2>3. Local(w, W)
    BY <1>1, <2>1, <2>2, NoFault DEF ReadReplies, Local, Shape
  <2> QED BY <1>1, <1>2, <2>3, Between
<1>6. CASE new # {}
  <2>1. p[1] \in Stories
    BY Of
  <2>2. /\ Len(issue[p[1]].comments) \in Nat
        /\ DOMAIN issue[p[1]].comments = 1 .. Len(issue[p[1]].comments)
    BY <1>1, <2>1 DEF Shape, IssueType
  <2>3. new \subseteq 1 .. Len(issue[p[1]].comments)
    BY <2>2 DEF new_replies
  <2>4. Max(new) \in new
    BY <1>6, <2>2, <2>3, MaxOf
  <2>5. PICK c : c = Max(new)
    OBVIOUS
  <2>6. /\ c \in DOMAIN issue[p[1]].comments /\ c > p[2].seen
        /\ issue[p[1]].comments[c].word \in {"yes", "no"}
    BY <2>4, <2>5 DEF new_replies
  <2>7. PICK W : W = [Off EXCEPT !.pc = "resume", !.todo = worker[w].todo \ {p}, !.from = "check",
                        !.story = p[1], !.run = p[2].run, !.record = p[2], !.then = "match",
                        !.word = issue[p[1]].comments[c].word,
                        !.about = issue[p[1]].comments[c].about]
    OBVIOUS
  <2>8. worker' = [worker EXCEPT ![w] = W]
    BY <1>4, <1>6, <2>5, <2>7
  <2>9. UNCHANGED <<issue, runs, pending, processed, lock, bad, back, told, applied>>
    BY DEF ReadReplies
  <2> QED BY <1>1, <1>3, <2>6, <2>7, <2>8, <2>9, TakeUp
<1> QED BY <1>5, <1>6

-----------------------------------------------------------------------------
(* The steps that let go of a story.                                       *)

\* Back in its loop, the worker has what it still has to look at.
LEMMA DoneWith ==
  ASSUME IInv, NEW w \in Workers, done_with(w),
         \A s \in Stories : s # worker[w].story => pending'[s] = pending[s]
  PROVE  \E W \in WorkerType :
           /\ worker' = [worker EXCEPT ![w] = W] /\ W.story = NoStory /\ W.pc \notin Busy
           /\ WorkerOK(W)'
<1>1. worker[w].todo \subseteq Stories \X RecordType /\ TodoOK(worker[w])
  BY Of DEF WorkerOK
<1>2. {"replies", "over"} \subseteq Places \ (Busy \cup Resting)
  BY DEF Places, Busy, Resting
<1>3. CASE worker[w].from = "check"
  <2>1. PICK todo, W :
          /\ todo \in SUBSET (Stories \X RecordType) /\ todo = worker[w].todo
          /\ W = [Off EXCEPT !.pc = "replies", !.todo = todo]
    BY <1>1
  <2>2. worker' = [worker EXCEPT ![w] = W]
    BY <1>3, <2>1 DEF done_with
  <2>3. W.pc = "replies" /\ W.todo = todo /\ W.story = NoStory
    BY <2>1 DEF Off
  <2>4. TodoOK(W)'
    BY <1>1, <2>1, <2>3, WorkerAssumption DEF TodoOK
  <2>5. WorkerOK(W)'
    BY <1>2, <2>3, <2>4 DEF WorkerOK
  <2>6. W \in WorkerType
    BY <1>2, <2>1, FreshType
  <2> QED BY <1>2, <2>2, <2>3, <2>5, <2>6
<1>4. CASE worker[w].from # "check"
  <2>1. PICK W : W = [Off EXCEPT !.pc = "over"]
    OBVIOUS
  <2>2. worker' = [worker EXCEPT ![w] = W]
    BY <1>4, <2>1 DEF done_with
  <2>3. W.pc = "over" /\ W.todo = {} /\ W.story = NoStory
    BY <2>1 DEF Off
  <2>4. WorkerOK(W)'
    BY <1>2, <2>3, IdleOK
  <2>5. W \in WorkerType
    BY <1>2, <2>1, OffType
  <2> QED BY <1>2, <2>2, <2>3, <2>4, <2>5
<1> QED BY <1>3, <1>4

\* A worker lets go of its story, for whatever fault.
LEMMA PutDown ==
  ASSUME IInv, NEW w \in Workers, NEW W \in WorkerType, worker' = [worker EXCEPT ![w] = W],
         W.story = NoStory, WorkerOK(W)', Harder, lock' \in Workers \cup {NoWorker},
         UNCHANGED <<issue, runs, pending, processed, applied>>,
         DOMAIN told' = Stories,
         \A s \in Stories : s # worker[w].story => told'[s] = told[s],
         \A s \in Stories : told[s] \subseteq told'[s],
         \A s \in Stories : s = worker[w].story =>
           /\ pending[s] # NoRecord => ~Trusted("checkpoint")'
           /\ bad'["crash"] = 0 /\ pending[s] # NoRecord => runs[pending[s].run].stage # ABANDONED
           /\ ToldOK(s)'
  PROVE  IInv'
<1>1. Shape'
  BY DEF IInv, Shape, Harder
<1>2. RunsOK'
  BY DEF IInv, RunsOK
<1>3. AppliedOK'
  BY HarderMeans DEF IInv, AppliedOK
<1>4. SameFiles
  BY SameComments DEF IInv, SameFiles
<1>5. WorkersOK'
  BY <1>1, <1>4, Assemble
<1>6. ASSUME NEW s \in Stories PROVE StoryOK(s)'
  <2>1. SameStory(s) /\ Shape /\ StoryOK(s)
    BY <1>4 DEF SameStory, SameFiles, SameRunsOf, IInv, StoriesOK
  <2>2. worker'[w].story # s
    BY WorkerAssumption DEF IInv, Shape
  <2>3. CASE worker[w].story = s
    BY <1>1, <2>1, <2>3, StoryStays
  <2>4. CASE worker[w].story # s
    BY <1>1, <2>1, <2>2, <2>4, OtherStory DEF NotHis
  <2> QED BY <2>3, <2>4
<1> QED BY <1>1, <1>2, <1>3, <1>5, <1>6 DEF IInv, StoriesOK

\* SystemExit: the story has no record yet, and the silence is excused.
LEMMA ExitInv ==
  ASSUME IInv, NEW w \in Workers, Exit(w) PROVE IInv'
<1>1. "exit" \in FaultKinds
  BY DEF FaultKinds
<1>2. Harder /\ bad'["exit"] > 0 /\ Shape
  BY <1>1, FaultIsHarder DEF Exit, IInv
<1>3. Off \in WorkerType /\ Off.story = NoStory /\ WorkerOK(Off)'
  BY OffType, IdleOK DEF Off, Busy
<1>4. \A s \in Stories : s = worker[w].story => pending[s] = NoRecord
  BY Of, WorkerAssumption DEF Exit, WorkerOK, HandOK, Busy
<1>5. \A s \in Stories : ToldOK(s)'
  BY <1>2 DEF ToldOK, Unbroken
<1>6. /\ UNCHANGED <<issue, runs, pending, processed, applied, told, lock>>
      /\ worker' = [worker EXCEPT ![w] = Off]
  BY DEF Exit
<1>7. DOMAIN told' = Stories /\ lock' \in Workers \cup {NoWorker}
  BY <1>2, <1>6 DEF Shape
<1> QED BY <1>2, <1>3, <1>4, <1>5, <1>6, <1>7, PutDown

\* A kill: whatever was in hand is gone, and no reply to a checkpoint is trusted again.
LEMMA CrashInv ==
  ASSUME IInv, NEW w \in Workers, Crash(w) PROVE IInv'
<1>1. "crash" \in FaultKinds
  BY DEF FaultKinds
<1>2. Harder /\ bad'["crash"] > 0 /\ Shape
  BY <1>1, FaultIsHarder DEF Crash, IInv
<1>3. Off \in WorkerType /\ Off.story = NoStory /\ WorkerOK(Off)'
  BY OffType, IdleOK DEF Off, Busy
<1>4. ~Trusted("checkpoint")'
  BY <1>2 DEF Trusted
<1>5. \A s \in Stories : ToldOK(s)'
  BY <1>2 DEF ToldOK, Unbroken
<1>6. /\ UNCHANGED <<issue, runs, pending, processed, applied, told>>
      /\ worker' = [worker EXCEPT ![w] = Off]
  BY DEF Crash
<1>7. DOMAIN told' = Stories /\ lock' \in Workers \cup {NoWorker}
  BY <1>2, <1>6 DEF Shape, Crash
<1>8. ~(bad'["crash"] = 0)
  BY <1>2
<1> QED BY <1>2, <1>3, <1>4, <1>5, <1>6, <1>7, <1>8, PutDown

\* An exception while a recorded run is resumed: its record is kept.
LEMMA RaiseOfResumed ==
  ASSUME IInv, NEW w \in Workers, Raise(w), worker[w].from = "check" PROVE IInv'
<1>1. "raise" \in FaultKinds
  BY DEF FaultKinds
<1>2. Harder /\ bad'["raise"] > 0 /\ Shape
  BY <1>1, FaultIsHarder DEF Raise, IInv
<1>3. /\ UNCHANGED <<issue, runs, pending, processed, applied, lock, told>>
      /\ done_with(w)
      /\ worker[w].pc \in {"resume", "build", "drive", "apply", "stop"}
  BY DEF Raise, driving
<1>4. PICK W \in WorkerType :
        worker' = [worker EXCEPT ![w] = W] /\ W.story = NoStory /\ WorkerOK(W)'
  BY <1>3, DoneWith
<1>5. worker[w].pc \in Busy /\ worker[w].pc # "mark"
  BY <1>3 DEF Busy
<1>6. HandOK(worker[w]) /\ ReportOK(worker[w]) /\ worker[w].story \in Stories
  BY <1>5, Of DEF WorkerOK
<1>7. PICK S : S = worker[w].story
  OBVIOUS
<1>8. ~Trusted("checkpoint")'
  BY <1>2 DEF Trusted
<1>9. bad'["crash"] = 0 /\ pending[S] # NoRecord => runs[pending[S].run].stage # ABANDONED
  <2>1. SUFFICES ASSUME bad'["crash"] = 0, pending[S] # NoRecord
                 PROVE  runs[pending[S].run].stage # ABANDONED
    OBVIOUS
  <2>2. bad["crash"] = 0
    BY <1>2, <2>1, HarderMeans
  <2>3. pending[S].run = worker[w].run
    BY <1>5, <1>6, <1>7, <2>1 DEF HandOK
  <2>4. worker[w].pc # "build"
    BY <1>6 DEF HandOK
  <2> QED BY <1>3, <1>6, <2>2, <2>3, <2>4 DEF ReportOK
<1>10. ToldOK(S)'
  BY <1>3, <1>5, <1>6, <1>7 DEF ToldOK, Forgotten, HandOK
<1>11. DOMAIN told' = Stories /\ lock' \in Workers \cup {NoWorker}
  BY <1>2, <1>3 DEF Shape
<1> QED BY <1>2, <1>3, <1>4, <1>7, <1>8, <1>9, <1>10, <1>11, PutDown

\* An exception while a new run is started: the story is still in hand.
LEMMA RaiseOfNew ==
  ASSUME IInv, NEW w \in Workers, Raise(w), worker[w].from # "check" PROVE IInv'
<1>1. "raise" \in FaultKinds
  BY DEF FaultKinds
<1>2. Harder /\ Shape
  BY <1>1, FaultIsHarder DEF Raise, IInv
<1>3. /\ UNCHANGED <<issue, runs, pending, processed, applied, lock, told>>
      /\ worker' = [worker EXCEPT ![w].pc = "report"]
      /\ worker[w].pc \in {"resume", "build", "drive", "apply", "stop"}
  BY DEF Raise, driving, goto
<1>4. PICK V, W : V = worker[w] /\ W = [V EXCEPT !.pc = "report"]
  OBVIOUS
<1>5. /\ V \in WorkerType /\ V.from = "poll" /\ V.pc \in Busy
      /\ HandOK(V) /\ TodoOK(V) /\ V.story \in Stories
  BY <1>3, <1>4, Of DEF WorkerOK, Busy, WorkerType
<1>6. ~Resuming(V)
  BY <1>5 DEF HandOK
<1>7. /\ W \in WorkerType /\ W.pc = "report" /\ W.story = V.story /\ W.from = "poll"
      /\ W.todo = V.todo /\ W.then = V.then
  BY <1>4, <1>5 DEF WorkerType, Places, Busy
<1>8. V.then = "loop"
  <2>1. V.then \in {"loop", "match"}
    BY <1>5 DEF WorkerType
  <2> QED BY <1>3, <1>4, <1>5, <1>6, <2>1 DEF HandOK, Resuming
<1>9. ~Resuming(W) /\ W.pc \in Busy /\ W.pc \notin Resting
  BY <1>7 DEF Resuming, Busy, Resting
<1>10. WorkerOK(W)'
  <2>1. HandOK(W)'
    BY <1>3, <1>5, <1>7, <1>8, <1>9 DEF HandOK
  <2>2. PlaceOK(W)' /\ ReportOK(W)' /\ ReplyOK(W)'
    BY <1>7, <1>9 DEF PlaceOK, ReportOK, ReplyOK
  <2>3. TodoOK(W)'
    BY <1>3, <1>5, <1>7 DEF TodoOK
  <2> QED BY <1>9, <2>1, <2>2, <2>3 DEF WorkerOK
<1>11. Local(w, W)
  BY <1>2, <1>3, <1>4, <1>7 DEF Local, Shape
<1> QED BY <1>4, <1>7, <1>9, <1>10, <1>11, LocalStep

\* An exception: a resumed run keeps its record, a new one is to be reported.
LEMMA RaiseInv ==
  ASSUME IInv, NEW w \in Workers, Raise(w) PROVE IInv'
BY RaiseOfResumed, RaiseOfNew

\* The report of the exception: the story is told of it, or the report fails.
LEMMA ReportErrorInv ==
  ASSUME IInv, NEW w \in Workers, ReportError(w) PROVE IInv'
<1>1. "post" \in FaultKinds
  BY DEF FaultKinds
<1>2. Shape /\ Harder
  BY <1>1, FaultIsHarder, NoFault DEF ReportError, IInv
<1>3. /\ UNCHANGED <<issue, runs, pending, processed, applied, lock>>
      /\ done_with(w) /\ worker[w].pc = "report" /\ worker[w].pc \in Busy
  BY DEF ReportError, Busy
<1>4. PICK W \in WorkerType :
        worker' = [worker EXCEPT ![w] = W] /\ W.story = NoStory /\ WorkerOK(W)'
  BY <1>3, DoneWith
<1>5. PICK S : S = worker[w].story
  OBVIOUS
<1>6. S \in Stories /\ pending[S] = NoRecord
  BY <1>3, <1>5, Of DEF WorkerOK, HandOK
<1>7. /\ DOMAIN told' = Stories /\ \A s \in Stories : s # S => told'[s] = told[s]
      /\ \A s \in Stories : told[s] \subseteq told'[s]
      /\ Unbroken' => told'[S] # {}
  <2>1. CASE told' = [told EXCEPT ![S] = @ \cup {"error"}]
    BY <1>2, <1>6, <2>1 DEF Shape
  <2>2. CASE told' = told /\ Fault("post")
    <3>1. bad'["post"] > 0
      BY <1>1, <1>2, <2>2, FaultIsHarder
    <3> QED BY <1>2, <2>2, <3>1 DEF Shape, Unbroken
  <2> QED BY <1>5, <2>1, <2>2 DEF ReportError
<1>8. ToldOK(S)'
  BY <1>7 DEF ToldOK, Forgotten
<1>9. lock' \in Workers \cup {NoWorker}
  BY <1>2, <1>3 DEF Shape
<1> QED BY <1>2, <1>3, <1>4, <1>5, <1>6, <1>7, <1>8, <1>9, PutDown

-----------------------------------------------------------------------------
(* The steps that take up a story and start a run.                         *)

\* A worker that is alone: the others have no story.
LEMMA OthersFree ==
  ASSUME IInv, NEW w \in Workers, Alone(w), NEW v \in Workers, v # w
  PROVE  worker[v].story = NoStory
<1>1. worker[v].pc \notin Busy
  BY DEF Alone, Resting, Busy
<1> QED BY <1>1, Of

\* A status is all that changes on an issue.
LEMMA StatusType ==
  ASSUME Shape, NEW s \in Stories, NEW status \in {"trigger", "approval", "done"},
         issue' = [issue EXCEPT ![s].status = status]
  PROVE  /\ issue' \in [Stories -> IssueType]
         /\ \A v \in Stories :
                issue'[v].comments = issue[v].comments /\ (v # s => issue'[v] = issue[v])
         /\ issue'[s].status = status
<1>1. PICK i : i = [issue[s] EXCEPT !.status = status]
  OBVIOUS
<1>2. issue \in [Stories -> IssueType] /\ issue[s] \in IssueType
  BY DEF Shape
<1>3. i \in IssueType /\ i.comments = issue[s].comments /\ i.status = status
  BY <1>1, <1>2 DEF IssueType
<1>4. issue' = [issue EXCEPT ![s] = i]
  BY <1>1
<1> QED BY <1>2, <1>3, <1>4

\* A story without a record and without an end is taken up.
LEMMA PickupInv ==
  ASSUME IInv, OneInstance, NEW w \in Workers, Pickup(w) PROVE IInv'
<1>1. PICK S \in Stories :
        /\ candidate(S)
        /\ \/ issue' = [issue EXCEPT ![S].status = "approval"] /\ UNCHANGED bad
           \/ Fault("jira") /\ UNCHANGED issue
        /\ told' = [told EXCEPT ![S] = {}]
        /\ worker' = [worker EXCEPT ![w] = [Off EXCEPT !.pc = "build", !.story = S]]
  BY DEF Pickup
<1>2. UNCHANGED <<runs, pending, processed, lock, back, applied>> /\ worker[w].pc = "poll"
  BY DEF Pickup
<1>3. PICK W : W = [Off EXCEPT !.pc = "build", !.story = S]
  OBVIOUS
<1>4. /\ W.pc = "build" /\ W.todo = {} /\ W.from = "poll" /\ W.story = S /\ W.then = "loop"
  BY <1>3 DEF Off
<1>5. W \in WorkerType
  <2>1. NoRecord \in RecordType /\ NoPause \in PauseId /\ "build" \in Places
    BY OffType DEF Places, Busy
  <2> QED BY <1>3, <2>1 DEF WorkerType, Off
<1>6. Shape /\ worker[w].pc \notin Busy \cup Resting /\ worker[w].story = NoStory
  BY <1>2, Of DEF Busy, Resting
<1>7. Harder
  <2>1. "jira" \in FaultKinds
    BY DEF FaultKinds
  <2> QED BY <1>1, <1>6, <2>1, FaultIsHarder, NoFault
<1>8. \A s \in Stories :
        /\ issue'[s].comments = issue[s].comments
        /\ issue'[s].status = issue[s].status \/ (s = S /\ issue'[s].status = "approval")
  BY <1>1, <1>6 DEF Shape, IssueType
<1>9. issue' \in [Stories -> IssueType]
  <2>1. issue \in [Stories -> IssueType]
    BY <1>6 DEF Shape
  <2>2. CASE issue' = [issue EXCEPT ![S].status = "approval"]
    BY <1>6, <2>2, StatusType
  <2> QED BY <1>1, <2>1, <2>2
<1>10. worker' = [worker EXCEPT ![w] = W]
  BY <1>1, <1>3
<1>11. Shape'
  BY <1>1, <1>2, <1>5, <1>6, <1>7, <1>9, <1>10 DEF Shape, Harder
<1>12. Alone(w) /\ \A s \in Stories : CommentsGrow(s)
  BY <1>6, <1>8, SameComments, OneWorks
<1>13. pending[S] = NoRecord /\ S \notin processed
  BY <1>1 DEF candidate
<1>14. WorkerOK(W)'
  <2>1. ~Resuming(W) /\ W.pc \in Busy /\ W.pc \notin Resting
    BY <1>4 DEF Resuming, Busy, Resting
  <2>2. HandOK(W)'
    BY <1>2, <1>4, <1>13, <2>1 DEF HandOK
  <2>3. PlaceOK(W)' /\ ReportOK(W)' /\ ReplyOK(W)'
    BY <1>4, <2>1 DEF PlaceOK, ReportOK, ReplyOK
  <2>4. TodoOK(W)'
    BY <1>4 DEF TodoOK
  <2> QED BY <2>1, <2>2, <2>3, <2>4 DEF WorkerOK
<1>15. WorkersOK'
  BY <1>7, <1>10, <1>11, <1>12, <1>14, Assemble
<1>16. ASSUME NEW s \in Stories PROVE StoryOK(s)'
  <2>1. SameStory(s) /\ StoryOK(s)
    BY <1>2, <1>8, <1>12 DEF SameStory, SameRunsOf, IInv, StoriesOK
  <2>2. worker'[w].story = S /\ s # NoStory
    BY <1>4, <1>6, <1>10, WorkerAssumption DEF Shape
  <2>3. CASE s = S
    <3>1. ~Free(s)'
      BY <2>2, <2>3 DEF Free
    <3>2. ToldOK(s)'
      BY <3>1 DEF ToldOK, Forgotten
    <3> QED BY <1>6, <1>7, <1>11, <1>13, <2>1, <2>3, <3>1, <3>2, StoryStays
  <2>4. CASE s # S
    <3>1. told'[s] = told[s] /\ NotHis(w, s)
      BY <1>1, <1>6, <2>2, <2>4 DEF Shape, NotHis
    <3> QED BY <1>2, <1>7, <1>8, <1>10, <1>11, <2>1, <2>4, <3>1, OtherStory
  <2> QED BY <2>3, <2>4
<1>17. RunsOK' /\ AppliedOK'
  BY <1>2, <1>6, <1>7, HarderMeans DEF IInv, RunsOK, AppliedOK
<1> QED BY <1>11, <1>15, <1>16, <1>17 DEF IInv, StoriesOK

\* The new run is the latest of its story.
LEMMA StartRunInv ==
  ASSUME IInv, OneInstance, NEW w \in Workers, StartRun(w) PROVE IInv'
<1>1. /\ worker[w].pc = "build" /\ worker[w] \in WorkerType /\ WorkerOK(worker[w]) /\ Shape
      /\ UNCHANGED <<issue, pending, processed, lock, bad, back, told, applied>>
  BY Of DEF StartRun
<1>2. PICK V, S : V = worker[w] /\ S = V.story
  OBVIOUS
<1>3. /\ HandOK(V) /\ TodoOK(V) /\ S \in Stories /\ S \notin processed
      /\ pending[S] = NoRecord /\ V.from = "poll" /\ V.then = "loop"
  BY <1>1, <1>2 DEF WorkerOK, HandOK, Busy
<1>4. PICK n, r, W :
        /\ n \in Nat /\ n = Len(runs) + 1
        /\ r = [story |-> S, stage |-> INTAKE, question |-> "none", no |-> 0, loops |-> 0]
        /\ W = [V EXCEPT !.pc = "drive", !.run = n]
  <2>1. Len(runs) + 1 \in Nat
    BY <1>1 DEF Shape
  <2> QED BY <2>1
<1>5. runs' = Append(runs, r) /\ worker' = [worker EXCEPT ![w] = W]
  BY <1>2, <1>4 DEF StartRun
<1>6. r \in RunType /\ r.story = S /\ r.stage = INTAKE /\ r.question = "none"
  BY <1>3, <1>4 DEF RunType, ALL_STAGES, NON_TERMINAL_STAGES
<1>7. /\ W \in WorkerType /\ W.pc = "drive" /\ W.todo = V.todo /\ W.from = "poll" /\ W.story = S
      /\ W.run = n /\ W.then = "loop"
  BY <1>1, <1>2, <1>3, <1>4 DEF WorkerType, Places, Busy
<1>8. /\ runs' \in Seq(RunType) /\ DOMAIN runs' = 1 .. n /\ DOMAIN runs = 1 .. (n - 1)
      /\ \A i \in DOMAIN runs : runs'[i] = runs[i]
      /\ runs'[n] = r
  BY <1>1, <1>4, <1>5, <1>6 DEF Shape
<1>9. Shape' /\ Harder
  BY <1>1, <1>5, <1>7, <1>8, NoFault DEF Shape
<1>10. RunsOK'
  <2>1. SUFFICES ASSUME NEW i \in DOMAIN runs', runs'[i].question = "pending"
                 PROVE  runs'[i].stage \in {IMPLEMENTATION, VERIFICATION}
    BY DEF RunsOK
  <2>2. i # n
    BY <1>6, <1>8, <2>1
  <2>3. i \in DOMAIN runs
    BY <1>4, <1>8, <2>1, <2>2
  <2> QED BY <1>8, <2>1, <2>3 DEF IInv, RunsOK
<1>11. AppliedOK'
  BY <1>1 DEF IInv, AppliedOK, Trusted
<1>12. WorkerOK(W)'
  <2>1. ~Resuming(W) /\ W.pc \in Busy /\ W.pc \notin Resting
    BY <1>7 DEF Resuming, Busy, Resting
  <2>2. Latest(S, n)'
    BY <1>4, <1>6, <1>8 DEF Latest
  <2>3. HandOK(W)'
    BY <1>1, <1>3, <1>7, <2>1, <2>2 DEF HandOK
  <2>4. PlaceOK(W)' /\ ReplyOK(W)'
    BY <1>7, <2>1 DEF PlaceOK, ReplyOK
  <2>5. ReportOK(W)'
    BY <1>6, <1>7, <1>8 DEF ReportOK, INTAKE, ABANDONED
  <2>6. TodoOK(W)'
    BY <1>1, <1>2, <1>3, <1>7 DEF TodoOK
  <2> QED BY <2>1, <2>3, <2>4, <2>5, <2>6 DEF WorkerOK
<1>13. Alone(w)
  BY <1>1, OneWorks DEF Resting
<1>14. WorkersOK'
  BY <1>5, <1>9, <1>12, <1>13, Assemble
<1>15. ASSUME NEW s \in Stories PROVE StoryOK(s)'
  <2>1. StoryOK(s) /\ CommentsGrow(s) /\ worker'[w].story = S
    BY <1>1, <1>5, <1>7, SameComments DEF IInv, StoriesOK, Shape
  <2>2. CASE s = S
    <3>1. ~Free(s)'
      BY <2>1, <2>2 DEF Free
    <3>2. DoneOK(s)'
      BY <1>1, <1>4, <1>8, <2>1 DEF StoryOK, DoneOK
    <3> QED BY <1>1, <1>3, <2>2, <3>1, <3>2 DEF StoryOK, FileOK, EndedOK, LiveOK, ToldOK, Forgotten
  <2>3. CASE s # S
    <3>1. SameRunsOf(s)
      <4>1. ASSUME NEW i \in DOMAIN runs', runs'[i].story = s
            PROVE  i \in DOMAIN runs /\ runs[i].story = s
        <5>1. i # n
          BY <1>6, <1>8, <2>3, <4>1
        <5>2. i \in DOMAIN runs
          BY <1>4, <1>8, <4>1, <5>1
        <5> QED BY <1>8, <4>1, <5>2
      <4>2. \A i \in DOMAIN runs : i \in DOMAIN runs' /\ runs'[i] = runs[i]
        BY <1>4, <1>8
      <4> QED BY <4>1, <4>2 DEF SameRunsOf
    <3>2. SameStory(s) /\ NotHis(w, s)
      BY <1>1, <1>2, <2>1, <2>3, <3>1 DEF SameStory, NotHis
    <3> QED BY <1>1, <1>5, <1>9, <3>2, OtherStory
  <2> QED BY <2>2, <2>3
<1> QED BY <1>9, <1>10, <1>11, <1>14, <1>15 DEF IInv, StoriesOK

-----------------------------------------------------------------------------
(* The steps that change the run in hand.                                  *)

\* The run in hand becomes r, and the worker goes on at pc.
Becomes(w, r, pc, exit) ==
  /\ worker[w].pc \in {"drive", "apply", "stop"} /\ Alone(w)
  /\ worker' = [worker EXCEPT ![w] = [worker[w] EXCEPT !.pc = pc, !.exit = exit]]
  /\ runs' = [runs EXCEPT ![worker[w].run] = r]
  /\ UNCHANGED <<issue, pending, processed, lock, bad, told>>
  /\ pc \in {"drive", "stop", "finish"} /\ exit \in {0, 1}
  /\ worker[w].pc = "drive" => pc = "drive"

\* What a step may make of a run r, given the record of its story: it goes no
\* further back than the gate of the record, and is not found at it again.
GoesOn(old, r, record) ==
  record # NoRecord /\ record.kind = "gate" =>
    /\ old.stage \in Past(record.stage) => r.stage \in Past(record.stage)
    /\ ~same_pause(r, record)

\* The other runs stay as they are.
LEMMA OneRunChanges ==
  ASSUME Shape, NEW i \in DOMAIN runs, NEW r \in RunType, r.story = runs[i].story,
         runs' = [runs EXCEPT ![i] = r]
  PROVE  /\ runs' \in Seq(RunType) /\ DOMAIN runs' = DOMAIN runs /\ runs'[i] = r
         /\ \A j \in DOMAIN runs : runs'[j].story = runs[j].story /\ (j # i => runs'[j] = runs[j])
         /\ \A s, j : Latest(s, j) => Latest(s, j)'
         /\ \A s : s # r.story => SameRunsOf(s)
<1>1. runs \in Seq(RunType)
  BY DEF Shape
<1>2. /\ runs' \in Seq(RunType) /\ DOMAIN runs' = DOMAIN runs /\ runs'[i] = r
      /\ \A j \in DOMAIN runs : j # i => runs'[j] = runs[j]
  BY <1>1
<1>3. \A j \in DOMAIN runs : runs'[j].story = runs[j].story
  BY <1>2
<1>4. \A s, j : Latest(s, j) => Latest(s, j)'
  BY <1>2, <1>3 DEF Latest
<1>5. \A s : s # r.story => SameRunsOf(s)
  BY <1>2, <1>3 DEF SameRunsOf
<1> QED BY <1>2, <1>3, <1>4, <1>5

\* What holds of the story in hand after such a step.
LEMMA OwnStory ==
  ASSUME IInv, NEW w \in Workers, NEW W, W = worker'[w], W.story = worker[w].story,
         NEW s \in Stories, s = worker[w].story, HandOK(worker[w]),
         worker[w].pc \notin {"build", "report", "mark"},
         NEW r \in RunType, r.story = s, ~over(runs[worker[w].run]),
         runs' = [runs EXCEPT ![worker[w].run] = r],
         UNCHANGED <<issue, pending, processed, bad>>,
         GoesOn(runs[worker[w].run], r, pending[s]),
         Resuming(W) => ~Trusted("checkpoint")
  PROVE  StoryOK(s)'
<1>1. PICK i : i = worker[w].run
  OBVIOUS
<1>2. Latest(s, i) /\ s \notin processed /\ Shape /\ StoryOK(s)
  BY <1>1 DEF HandOK, IInv, StoriesOK
<1>3. i \in DOMAIN runs /\ runs[i].story = s
  BY <1>2 DEF Latest
<1>4. /\ DOMAIN runs' = DOMAIN runs /\ runs'[i] = r /\ Latest(s, i)'
      /\ \A j \in DOMAIN runs : runs'[j].story = runs[j].story /\ (j # i => runs'[j] = runs[j])
  BY <1>1, <1>2, <1>3, OneRunChanges
<1>5. ~Free(s)' /\ (Waiting(s)' => Resuming(W))
  BY DEF Free, Waiting, Resuming
<1>6. EndedOK(s)' /\ LiveOK(s)' /\ ToldOK(s)'
  BY <1>2, <1>5 DEF EndedOK, LiveOK, ToldOK, Forgotten
<1>7. DoneOK(s)'
  <2>1. SUFFICES ASSUME bad["crash"] = 0, issue[s].status = "done"
                 PROVE  \E j \in DOMAIN runs' : runs'[j].story = s /\ runs'[j].stage = COMPLETED
    BY DEF DoneOK
  <2>2. PICK j \in DOMAIN runs : runs[j].story = s /\ runs[j].stage = COMPLETED
    BY <1>2, <2>1 DEF StoryOK, DoneOK
  <2>3. j # i
    BY <1>1, <2>2 DEF over, TERMINAL_STAGES
  <2> QED BY <1>4, <2>2, <2>3
<1>8. FileOK(s)'
  <2>1. SUFFICES ASSUME pending[s] # NoRecord PROVE RecordOK(s)' /\ PauseOK(s)'
    BY DEF FileOK
  <2>2. pending[s].run = i /\ RecordOK(s)
    BY <1>1, <1>2, <2>1 DEF HandOK, StoryOK, FileOK
  <2>3. RecordOK(s)'
    BY <1>1, <1>4, <2>1, <2>2 DEF RecordOK, GoesOn
  <2>4. pending[s].kind \in {"gate", "checkpoint"}
    BY <2>2 DEF RecordOK
  <2>5. ~(Waiting(s)' /\ Trusted("checkpoint")')
    BY <1>5 DEF Trusted
  <2>6. pending[s].kind = "gate" => ~same_pause(runs'[pending[s].run], pending[s])
    BY <1>4, <2>1, <2>2 DEF GoesOn
  <2>7. PauseOK(s)'
    BY <2>4, <2>5, <2>6 DEF PauseOK, same_pause, pause_kind
  <2> QED BY <2>3, <2>7
<1> QED BY <1>6, <1>7, <1>8 DEF StoryOK

\* A step that changes the run in hand.
LEMMA RunStep ==
  ASSUME IInv, NEW w \in Workers, NEW pc, NEW exit, NEW r \in RunType,
         NEW old, old = runs[worker[w].run], Becomes(w, r, pc, exit),
         r.story = old.story, ~over(old),
         r.question = "pending" => r.stage \in {IMPLEMENTATION, VERIFICATION},
         GoesOn(old, r, pending[worker[w].story]),
         Resuming(worker[w]) => ~Trusted("checkpoint"),
         pc \in {"drive", "stop"} => r.stage # ABANDONED,
         pc = "stop" => ~paused(r) /\ ~over(r),
         pc = "finish" => over(r) /\ exit = 1,
         AppliedOK'
  PROVE  IInv'
<1>1. PICK V, W : V = worker[w] /\ W = [V EXCEPT !.pc = pc, !.exit = exit]
  OBVIOUS
<1>2. /\ V.pc \in {"drive", "apply", "stop"}
      /\ pc \in {"drive", "stop", "finish"} /\ exit \in {0, 1}
      /\ worker' = [worker EXCEPT ![w] = W] /\ runs' = [runs EXCEPT ![V.run] = r] /\ Alone(w)
      /\ UNCHANGED <<issue, pending, processed, lock, bad, told>>
      /\ V.pc = "drive" => pc = "drive"
  BY <1>1 DEF Becomes
<1>3. V \in WorkerType /\ WorkerOK(V) /\ Shape
  BY <1>1, Of
<1>4. /\ W \in WorkerType /\ W.pc = pc /\ W.exit = exit /\ W.todo = V.todo /\ W.from = V.from
      /\ W.story = V.story /\ W.run = V.run /\ W.record = V.record /\ W.then = V.then
      /\ W.word = V.word /\ W.about = V.about
  BY <1>1, <1>2, <1>3 DEF WorkerType, Places, Busy
<1>5. V.pc \in Busy /\ HandOK(V) /\ TodoOK(V) /\ V.story \in Stories
  BY <1>2, <1>3 DEF WorkerOK, Busy, HandOK
<1>6. PICK s \in Stories : s = V.story
  BY <1>5
<1>7. Latest(s, V.run) /\ s \notin processed
  BY <1>2, <1>5, <1>6 DEF HandOK
<1>8. V.run \in DOMAIN runs /\ runs[V.run].story = s
  BY <1>7 DEF Latest
<1>9. /\ runs' \in Seq(RunType) /\ DOMAIN runs' = DOMAIN runs /\ runs'[V.run] = r
      /\ \A j \in DOMAIN runs : j # V.run => runs'[j] = runs[j]
      /\ Latest(s, V.run)'
      /\ \A t : t # s => SameRunsOf(t)
  BY <1>1, <1>2, <1>3, <1>7, <1>8, OneRunChanges
<1>10. Shape' /\ Harder
  BY <1>2, <1>3, <1>4, <1>9, NoFault DEF Shape
<1>11. RunsOK'
  BY <1>9 DEF IInv, RunsOK
<1>12. Resuming(W) => Resuming(V)
  BY <1>2, <1>4, <1>5 DEF Resuming, HandOK
<1>13. WorkerOK(W)'
  <2>1. TodoOK(W)'
    BY <1>2, <1>4, <1>5 DEF TodoOK
  <2>2. HandOK(W)'
    <3>1. Latest(W.story, W.run)'
      BY <1>4, <1>6, <1>9
    <3>2. W.pc \notin {"resume", "build", "pop", "mark"} /\ V.pc \notin {"build", "mark"}
      BY <1>2, <1>4
    <3>3. W.pc \notin {"resume", "drive"} => W.then = "loop"
      <4>1. V.then = "loop" \/ V.pc = "drive"
        BY <1>2, <1>5 DEF HandOK
      <4>2. CASE V.then = "loop"
        BY <1>4, <4>2
      <4>3. CASE V.pc = "drive"
        BY <1>2, <1>4, <4>3
      <4> QED BY <4>1, <4>2, <4>3
    <3> QED BY <1>2, <1>4, <1>5, <1>12, <3>1, <3>2, <3>3 DEF HandOK
  <2>3. PlaceOK(W)'
    BY <1>2, <1>4, <1>9 DEF PlaceOK
  <2>4. ReportOK(W)'
    BY <1>2, <1>4, <1>9 DEF ReportOK
  <2>5. ReplyOK(W)'
    <3>1. SUFFICES ASSUME Resuming(W), same_pause(r, W.record), Trusted(W.record.kind) PROVE FALSE
      BY <1>2, <1>4, <1>9 DEF ReplyOK, Trusted
    <3>2. W.record = pending[s] /\ pending[s] # NoRecord
      BY <1>2, <1>4, <1>5, <1>6, <1>12, <3>1 DEF HandOK
    <3>3. W.record.kind \in {"gate", "checkpoint"}
      BY <3>2 DEF IInv, StoriesOK, StoryOK, FileOK, RecordOK
    <3>4. W.record.kind # "gate"
      BY <1>1, <1>6, <3>1, <3>2 DEF GoesOn
    <3> QED BY <1>1, <1>12, <3>1, <3>3, <3>4
  <2> QED BY <1>2, <1>4, <2>1, <2>2, <2>3, <2>4, <2>5 DEF WorkerOK, Busy, Resting
<1>14. WorkersOK'
  BY <1>2, <1>10, <1>13, Assemble
<1>15. ASSUME NEW t \in Stories PROVE StoryOK(t)'
  <2>1. W = worker'[w] /\ W.story = s /\ CommentsGrow(t)
    BY <1>2, <1>3, <1>4, <1>6, SameComments DEF Shape
  <2>2. CASE t = s
    <3>1. /\ W.story = worker[w].story /\ s = worker[w].story /\ HandOK(worker[w])
          /\ worker[w].pc \notin {"build", "report", "mark"} /\ r.story = s /\ ~over(runs[worker[w].run])
          /\ runs' = [runs EXCEPT ![worker[w].run] = r]
          /\ UNCHANGED <<issue, pending, processed, bad>>
          /\ GoesOn(runs[worker[w].run], r, pending[s])
          /\ Resuming(W) => ~Trusted("checkpoint")
      BY <1>1, <1>2, <1>4, <1>5, <1>6, <1>8, <1>12
    <3> QED BY <2>1, <2>2, <3>1, OwnStory
  <2>3. CASE t # s
    <3>1. SameStory(t) /\ NotHis(w, t)
      BY <1>1, <1>2, <1>6, <1>9, <2>1, <2>3 DEF SameStory, NotHis
    <3> QED BY <1>2, <1>10, <3>1, OtherStory
  <2> QED BY <2>2, <2>3
<1> QED BY <1>10, <1>11, <1>14, <1>15 DEF IInv, StoriesOK

\* A run in hand, with its type.
LEMMA InHand ==
  ASSUME IInv, NEW w \in Workers, worker[w].pc \in Busy,
         worker[w].pc \notin {"build", "report"}
  PROVE  /\ worker[w].story \in Stories /\ worker[w].run \in DOMAIN runs
         /\ runs[worker[w].run] \in RunType /\ runs[worker[w].run].story = worker[w].story
         /\ HandOK(worker[w]) /\ PlaceOK(worker[w]) /\ ReportOK(worker[w]) /\ ReplyOK(worker[w])
BY Of DEF WorkerOK, HandOK, Latest, Shape

\* A run that is driven has moved on from the pause of its record, which takes
\* a failure when the record was just read.
LEMMA DrivenHasFailed ==
  ASSUME IInv, OneInstance, NEW w \in Workers, driving(w)
  PROVE  /\ Alone(w) /\ worker[w].pc = "drive" /\ worker[w].pc \in Busy
         /\ Resuming(worker[w]) => ~Trusted("checkpoint")
         /\ runs[worker[w].run].stage \notin GATES /\ runs[worker[w].run].question = "none"
         /\ ~over(runs[worker[w].run])
<1>1. worker[w].pc = "drive" /\ worker[w].pc \in Busy /\ worker[w].pc \notin Resting
  BY DEF driving, Busy, Resting
<1>2. Alone(w)
  BY <1>1, OneWorks
<1>3. /\ worker[w].story \in Stories /\ HandOK(worker[w])
      /\ runs[worker[w].run].question \in {"none", "pending"}
  BY <1>1, InHand DEF RunType
<1>4. /\ runs[worker[w].run].stage \notin GATES /\ runs[worker[w].run].question = "none"
      /\ ~paused(runs[worker[w].run]) /\ ~over(runs[worker[w].run])
  BY <1>3 DEF driving, Run, paused, pause_kind
<1>5. ASSUME Resuming(worker[w]), Trusted("checkpoint") PROVE FALSE
  <2>1. PICK s \in Stories : s = worker[w].story
    BY <1>3
  <2>2. pending[s] # NoRecord /\ pending[s].run = worker[w].run
    BY <1>1, <1>3, <1>5, <2>1 DEF HandOK
  <2>3. Waiting(s)
    BY <1>2, <1>5, <2>1, OthersFree, WorkerAssumption DEF Waiting
  <2>4. FileOK(s)
    BY DEF IInv, StoriesOK, StoryOK
  <2>5. same_pause(runs[worker[w].run], pending[s]) /\ pending[s].kind \in {"gate", "checkpoint"}
    BY <1>5, <2>2, <2>3, <2>4 DEF FileOK, PauseOK, RecordOK
  <2> QED BY <1>4, <2>5 DEF same_pause, paused
<1> QED BY <1>1, <1>2, <1>4, <1>5

\* Nothing in the worker's memory changes.
LEMMA StaysAtDrive ==
  ASSUME IInv, NEW w \in Workers, worker[w].pc = "drive", UNCHANGED worker
  PROVE  \E exit \in {0, 1} :
           worker' = [worker EXCEPT ![w] = [worker[w] EXCEPT !.pc = "drive", !.exit = exit]]
<1>1. worker[w] \in WorkerType /\ Shape
  BY Of
<1>2. worker[w].exit \in {0, 1}
  BY <1>1 DEF WorkerType
<1>3. [worker[w] EXCEPT !.pc = "drive", !.exit = worker[w].exit] = worker[w]
  BY <1>1 DEF WorkerType
<1>4. worker' = [worker EXCEPT ![w] = worker[w]]
  BY <1>1 DEF Shape
<1> QED BY <1>2, <1>3, <1>4

\* The drive loop enters the next stage, never a gate that was behind it.
LEMMA WorkInv ==
  ASSUME IInv, OneInstance, NEW w \in Workers, Work(w) PROVE IInv'
<1>1. driving(w) /\ UNCHANGED <<issue, pending, processed, worker, lock, bad, back, told, applied>>
  BY DEF Work
<1>2. /\ Alone(w) /\ worker[w].pc = "drive" /\ worker[w].pc \in Busy
      /\ Resuming(worker[w]) => ~Trusted("checkpoint")
      /\ runs[worker[w].run].stage \notin GATES /\ runs[worker[w].run].question = "none"
      /\ ~over(runs[worker[w].run])
  BY <1>1, DrivenHasFailed
<1>3. PICK old : old = runs[worker[w].run]
  OBVIOUS
<1>4. old \in RunType
  BY <1>2, <1>3, InHand
<1>5. PICK t \in ALL_STAGES :
        LET again == <<old.stage, t>> = <<VERIFICATION, IMPLEMENTATION>>
        IN  /\ <<old.stage, t>> \in LEGAL_TRANSITIONS
            /\ set_run(w, [old EXCEPT !.stage = t, !.no = IF t \in GATES THEN @ + 1 ELSE @,
                             !.loops = IF again THEN @ + 1 ELSE @])
  BY <1>3 DEF Work, Run
<1>6. PICK n, m :
        /\ n \in Nat /\ m \in Nat
        /\ n = (IF t \in GATES THEN old.no + 1 ELSE old.no)
        /\ m = (IF <<old.stage, t>> = <<VERIFICATION, IMPLEMENTATION>>
                  THEN old.loops + 1 ELSE old.loops)
  <2>1. old.no \in Nat /\ old.loops \in Nat
    BY <1>4 DEF RunType
  <2> QED BY <2>1
<1>7. PICK r : r = [old EXCEPT !.stage = t, !.no = n, !.loops = m]
  OBVIOUS
<1>8. /\ runs' = [runs EXCEPT ![worker[w].run] = r] /\ <<old.stage, t>> \in LEGAL_TRANSITIONS
  BY <1>5, <1>6, <1>7 DEF set_run
<1>9. r \in RunType /\ r.stage = t /\ r.story = old.story /\ r.question = "none"
  BY <1>2, <1>3, <1>4, <1>6, <1>7 DEF RunType
<1>10. PICK exit \in {0, 1} : Becomes(w, r, "drive", exit)
  BY <1>1, <1>2, <1>8, StaysAtDrive DEF Becomes
<1>11. GoesOn(old, r, pending[worker[w].story])
  <2>1. SUFFICES ASSUME NEW record, record = pending[worker[w].story],
                        record # NoRecord, record.kind = "gate"
                 PROVE  /\ old.stage \in Past(record.stage) /\ t \in Past(record.stage)
                        /\ t # record.stage
    BY <1>9 DEF GoesOn, same_pause
  <2>2. worker[w].story \in Stories /\ record.run = worker[w].run
    BY <1>2, <2>1, InHand DEF HandOK
  <2>3. RecordOK(worker[w].story)
    BY <2>1, <2>2 DEF IInv, StoriesOK, StoryOK, FileOK
  <2>4. record.stage \in GATES /\ old.stage \in Past(record.stage)
    BY <1>3, <2>1, <2>2, <2>3 DEF RecordOK
  <2> QED BY <1>2, <1>3, <1>8, <2>4, GatesStayPast
<1>12. r.stage # ABANDONED
  BY <1>8, <1>9 DEF LEGAL_TRANSITIONS, INTAKE, RESEARCH, PLAN_AUTHORING, PLAN_APPROVAL_GATE,
     IMPLEMENTATION, VERIFICATION, CHANGE_REVIEW_GATE, PACKAGING, RETROSPECTIVE, COMPLETED,
     ABANDONED
<1>13. AppliedOK'
  BY <1>1 DEF IInv, AppliedOK, Trusted
<1> QED BY <1>2, <1>3, <1>9, <1>10, <1>11, <1>12, <1>13, RunStep

\* A checkpoint opens a new pause.
LEMMA AskInv ==
  ASSUME IInv, OneInstance, NEW w \in Workers, Ask(w) PROVE IInv'
<1>1. /\ driving(w) /\ runs[worker[w].run].stage \in {IMPLEMENTATION, VERIFICATION}
      /\ UNCHANGED <<issue, pending, processed, worker, lock, bad, back, told, applied>>
  BY DEF Ask, Run
<1>2. /\ Alone(w) /\ worker[w].pc = "drive" /\ worker[w].pc \in Busy
      /\ Resuming(worker[w]) => ~Trusted("checkpoint")
      /\ ~over(runs[worker[w].run])
  BY <1>1, DrivenHasFailed
<1>3. PICK old : old = runs[worker[w].run]
  OBVIOUS
<1>4. old \in RunType
  BY <1>2, <1>3, InHand
<1>5. PICK n \in Nat : n = old.no + 1
  BY <1>4 DEF RunType
<1>6. PICK r : r = [old EXCEPT !.question = "pending", !.no = n]
  OBVIOUS
<1>7. runs' = [runs EXCEPT ![worker[w].run] = r]
  BY <1>3, <1>5, <1>6 DEF Ask, set_run, Run
<1>8. r \in RunType /\ r.stage = old.stage /\ r.story = old.story /\ r.question = "pending"
  BY <1>4, <1>6 DEF RunType
<1>9. PICK exit \in {0, 1} : Becomes(w, r, "drive", exit)
  BY <1>1, <1>2, <1>7, StaysAtDrive DEF Becomes
<1>10. GoesOn(old, r, pending[worker[w].story])
  BY <1>8 DEF GoesOn, same_pause, pause_kind
<1>11. r.stage # ABANDONED
  BY <1>1, <1>3, <1>8 DEF IMPLEMENTATION, VERIFICATION, ABANDONED
<1>12. AppliedOK'
  BY <1>1 DEF IInv, AppliedOK, Trusted
<1>13. r.stage \in {IMPLEMENTATION, VERIFICATION}
  BY <1>1, <1>3, <1>8
<1> QED BY <1>2, <1>3, <1>8, <1>9, <1>10, <1>11, <1>12, <1>13, RunStep

\* The second write of a stop abandons the run.
LEMMA StopInv ==
  ASSUME IInv, OneInstance, NEW w \in Workers, Stop(w) PROVE IInv'
<1>1. /\ worker[w].pc = "stop" /\ worker[w].pc \in Busy /\ worker[w].pc \notin Resting
      /\ UNCHANGED <<issue, pending, processed, lock, bad, back, told, applied>>
  BY DEF Stop, Busy, Resting
<1>2. Alone(w) /\ ~Resuming(worker[w])
  BY <1>1, OneWorks DEF Resuming
<1>3. PICK old, r : old = runs[worker[w].run] /\ r = [old EXCEPT !.stage = ABANDONED]
  OBVIOUS
<1>4. old \in RunType /\ ~over(old) /\ ~paused(old)
  BY <1>1, <1>3, InHand DEF PlaceOK
<1>5. r \in RunType /\ r.stage = ABANDONED /\ r.story = old.story /\ r.question = "none"
  BY <1>3, <1>4 DEF RunType, ALL_STAGES, TERMINAL_STAGES, paused, pause_kind
<1>6. Becomes(w, r, "finish", 1)
  BY <1>1, <1>2, <1>3 DEF Stop, Becomes, set_run, Run
<1>7. GoesOn(old, r, pending[worker[w].story])
  <2>1. r.stage \notin GATES
    BY <1>5 DEF GATES, PLAN_APPROVAL_GATE, CHANGE_REVIEW_GATE, ABANDONED
  <2> QED BY <1>5, <2>1 DEF GoesOn, same_pause, pause_kind, Past
<1>8. AppliedOK'
  BY <1>1 DEF IInv, AppliedOK, Trusted
<1>9. over(r)
  BY <1>5 DEF over, TERMINAL_STAGES
<1> QED BY <1>2, <1>3, <1>4, <1>5, <1>6, <1>7, <1>8, <1>9, RunStep

\* A decision applied to the run in hand is for the pause it was written for.
LEMMA AppliedInv ==
  ASSUME IInv, NEW w \in Workers, Apply(w)
  PROVE  AppliedOK'
<1>1. /\ worker[w].pc = "apply" /\ worker[w].pc \in Busy /\ UNCHANGED bad
      /\ applied' = IF worker[w].word = "auto" THEN applied
                    ELSE applied \cup {[kind |-> pause_kind(runs[worker[w].run]),
                                        to |-> Here(worker[w]), about |-> worker[w].about]}
  BY DEF Apply, Busy, Run, Here
<1>2. PlaceOK(worker[w]) /\ ReplyOK(worker[w])
  BY <1>1, InHand
<1>3. pause_kind(runs[worker[w].run]) \in {"gate", "checkpoint"}
  BY <1>1, <1>2 DEF PlaceOK, paused, pause_kind
<1>4. worker[w].word # "auto" /\ Trusted(pause_kind(runs[worker[w].run])) =>
        worker[w].about = Here(worker[w])
  BY <1>1, <1>2 DEF ReplyOK
<1>5. \A kind : Trusted(kind)' <=> Trusted(kind)
  BY <1>1 DEF Trusted
<1> QED BY <1>1, <1>3, <1>4, <1>5 DEF IInv, AppliedOK

\* The decision ends the pause it is applied to.
LEMMA ApplyInv ==
  ASSUME IInv, OneInstance, NEW w \in Workers, Apply(w) PROVE IInv'
<1>1. /\ worker[w].pc = "apply" /\ worker[w].pc \in Busy /\ worker[w].pc \notin Resting
      /\ UNCHANGED <<issue, pending, processed, lock, bad, back, told>>
  BY DEF Apply, Busy, Resting
<1>2. Alone(w) /\ ~Resuming(worker[w]) /\ worker[w] \in WorkerType
  BY <1>1, OneWorks, Of DEF Resuming
<1>3. PICK old : old = runs[worker[w].run]
  OBVIOUS
<1>4. /\ old \in RunType /\ paused(old) /\ worker[w].run \in DOMAIN runs
      /\ worker[w].story \in Stories /\ HandOK(worker[w])
  BY <1>1, <1>3, InHand DEF PlaceOK
<1>5. ~over(old) /\ old.stage # ABANDONED
  BY <1>3, <1>4, PausedNotOver DEF IInv, over, TERMINAL_STAGES
<1>6. old.question = "pending" => old.stage \in {IMPLEMENTATION, VERIFICATION}
  BY <1>3, <1>4 DEF IInv, RunsOK
<1>7. AppliedOK'
  BY AppliedInv
<1>8. PICK record : record = pending[worker[w].story]
  OBVIOUS
<1>9. record # NoRecord /\ record.kind = "gate" =>
        record.stage \in GATES /\ old.stage \in Past(record.stage)
  <2>1. SUFFICES ASSUME record # NoRecord, record.kind = "gate"
                 PROVE  record.stage \in GATES /\ old.stage \in Past(record.stage)
    OBVIOUS
  <2>2. record.run = worker[w].run
    BY <1>1, <1>4, <1>8, <2>1 DEF HandOK
  <2>3. RecordOK(worker[w].story)
    BY <1>4, <1>8, <2>1 DEF IInv, StoriesOK, StoryOK, FileOK
  <2> QED BY <1>3, <1>8, <2>1, <2>2, <2>3 DEF RecordOK
<1>10. worker[w].exit \in {0, 1}
  BY <1>2 DEF WorkerType
<1>11. \A pc : goto(w, pc) =>
         worker' = [worker EXCEPT ![w] = [worker[w] EXCEPT !.pc = pc, !.exit = worker[w].exit]]
  <2>1. \A pc : [worker[w] EXCEPT !.pc = pc, !.exit = worker[w].exit] = [worker[w] EXCEPT !.pc = pc]
    BY <1>2 DEF WorkerType
  <2> QED BY <2>1 DEF goto
<1>12. CASE pause_kind(old) = "checkpoint"
  <2>1. PICK r : r = [old EXCEPT !.question = "none"]
    OBVIOUS
  <2>2. r \in RunType /\ r.stage = old.stage /\ r.story = old.story /\ r.question = "none"
    BY <1>4, <2>1 DEF RunType
  <2>3. old.question = "pending"
    BY <1>12 DEF pause_kind
  <2>4. ~paused(r) /\ ~over(r) /\ pause_kind(r) # "gate"
    BY <1>5, <1>6, <2>2, <2>3 DEF paused, pause_kind, over, GATES, PLAN_APPROVAL_GATE,
       CHANGE_REVIEW_GATE, IMPLEMENTATION, VERIFICATION
  <2>5. PICK pc \in {"drive", "stop"} : goto(w, pc) /\ set_run(w, r)
    BY <1>3, <1>12, <2>1 DEF Apply, Run
  <2>6. Becomes(w, r, pc, worker[w].exit)
    BY <1>1, <1>2, <1>10, <1>11, <2>5 DEF Becomes, set_run
  <2>7. GoesOn(old, r, pending[worker[w].story])
    BY <2>2, <2>4 DEF GoesOn, same_pause
  <2> QED BY <1>2, <1>3, <1>5, <1>7, <2>2, <2>4, <2>5, <2>6, <2>7, RunStep
<1>13. CASE pause_kind(old) # "checkpoint" /\ worker[w].word = "no"
  <2>1. PICK r : r = [old EXCEPT !.stage = ABANDONED]
    OBVIOUS
  <2>2. old.question = "none" /\ pause_kind(old) = "gate"
    BY <1>4, <1>13 DEF pause_kind, paused, RunType
  <2>3. r \in RunType /\ r.stage = ABANDONED /\ r.story = old.story /\ r.question = "none"
    BY <1>4, <2>1, <2>2 DEF RunType, ALL_STAGES, TERMINAL_STAGES
  <2>4. over(r) /\ pause_kind(r) # "gate"
    BY <2>3 DEF over, pause_kind, TERMINAL_STAGES, GATES, PLAN_APPROVAL_GATE, CHANGE_REVIEW_GATE,
       ABANDONED
  <2>5. /\ worker' = [worker EXCEPT ![w] = [worker[w] EXCEPT !.pc = "finish", !.exit = 1]]
        /\ set_run(w, r)
    BY <1>3, <1>13, <2>1, <2>2 DEF Apply, Run
  <2>6. Becomes(w, r, "finish", 1)
    BY <1>1, <1>2, <2>5 DEF Becomes, set_run
  <2>7. GoesOn(old, r, pending[worker[w].story])
    BY <2>3, <2>4 DEF GoesOn, same_pause, Past
  <2> QED BY <1>2, <1>3, <1>5, <1>7, <2>3, <2>4, <2>6, <2>7, RunStep
<1>14. CASE pause_kind(old) # "checkpoint" /\ worker[w].word # "no"
  <2>1. PICK t : t = (IF old.stage = PLAN_APPROVAL_GATE THEN IMPLEMENTATION ELSE PACKAGING)
    OBVIOUS
  <2>2. PICK r : r = [old EXCEPT !.stage = t]
    OBVIOUS
  <2>3. old.question = "none" /\ pause_kind(old) = "gate" /\ old.stage \in GATES
    BY <1>4, <1>14 DEF pause_kind, paused, RunType
  <2>4. t \in {IMPLEMENTATION, PACKAGING} /\ t \in ALL_STAGES
    BY <2>1 DEF ALL_STAGES, NON_TERMINAL_STAGES
  <2>5. r \in RunType /\ r.stage = t /\ r.story = old.story /\ r.question = "none"
    BY <1>4, <2>2, <2>3, <2>4 DEF RunType
  <2>6. pause_kind(r) # "gate" /\ r.stage # ABANDONED
    BY <2>4, <2>5 DEF pause_kind, GATES, PLAN_APPROVAL_GATE, CHANGE_REVIEW_GATE, IMPLEMENTATION,
       PACKAGING, ABANDONED
  <2>7. goto(w, "drive") /\ set_run(w, r)
    BY <1>3, <1>14, <2>1, <2>2, <2>3 DEF Apply, Run
  <2>8. Becomes(w, r, "drive", worker[w].exit)
    BY <1>1, <1>2, <1>10, <1>11, <2>7 DEF Becomes, set_run
  <2>9. GoesOn(old, r, record)
    <3>1. SUFFICES ASSUME record # NoRecord, record.kind = "gate" PROVE t \in Past(record.stage)
      BY <2>5, <2>6 DEF GoesOn, same_pause
    <3>2. record.stage \in GATES /\ old.stage \in Past(record.stage)
      BY <1>9, <3>1
    <3> QED BY <2>1, <2>3, <3>2 DEF GATES, Past, PLAN_APPROVAL_GATE, CHANGE_REVIEW_GATE,
            IMPLEMENTATION, VERIFICATION, PACKAGING, RETROSPECTIVE, COMPLETED, ABANDONED
  <2> QED BY <1>2, <1>3, <1>5, <1>7, <1>8, <2>5, <2>6, <2>8, <2>9, RunStep
<1> QED BY <1>12, <1>13, <1>14

-----------------------------------------------------------------------------
(* The steps on the issue.                                                 *)

\* A comment is added to an issue.
Commented(s, c) == issue' = [issue EXCEPT ![s].comments = Append(@, c)]

\* What an added comment leaves of the issue.
LEMMA AddComment ==
  ASSUME Shape, NEW s \in Stories, NEW c \in CommentType, Commented(s, c)
  PROVE  /\ issue' \in [Stories -> IssueType]
         /\ \A v \in Stories :
                issue'[v].status = issue[v].status /\ (v # s => issue'[v] = issue[v])
         /\ Len(issue[s].comments) \in Nat /\ Len(issue'[s].comments) = Len(issue[s].comments) + 1
         /\ DOMAIN issue[s].comments = 1 .. Len(issue[s].comments)
         /\ DOMAIN issue'[s].comments = 1 .. (Len(issue[s].comments) + 1)
         /\ \A j \in DOMAIN issue[s].comments : issue'[s].comments[j] = issue[s].comments[j]
         /\ issue'[s].comments[Len(issue[s].comments) + 1] = c
<1>1. issue \in [Stories -> IssueType] /\ issue[s] \in IssueType
  BY DEF Shape
<1>2. PICK old, new, i :
        old = issue[s].comments /\ new = Append(old, c) /\ i = [issue[s] EXCEPT !.comments = new]
  OBVIOUS
<1>3. old \in Seq(CommentType)
  BY <1>1, <1>2 DEF IssueType
<1>4. /\ new \in Seq(CommentType) /\ Len(old) \in Nat /\ Len(new) = Len(old) + 1
      /\ DOMAIN old = 1 .. Len(old) /\ DOMAIN new = 1 .. (Len(old) + 1)
      /\ \A j \in DOMAIN old : new[j] = old[j]
      /\ new[Len(old) + 1] = c
  BY <1>2, <1>3
<1>5. i \in IssueType /\ i.comments = new /\ i.status = issue[s].status
  BY <1>1, <1>2, <1>4 DEF IssueType
<1>6. issue' = [issue EXCEPT ![s] = i]
  BY <1>2 DEF Commented
<1>7. issue'[s] = i /\ \A v \in Stories : v # s => issue'[v] = issue[v]
  BY <1>1, <1>6
<1>8. issue' \in [Stories -> IssueType]
  BY <1>1, <1>5, <1>6
<1>9. \A v \in Stories : issue'[v].status = issue[v].status
  BY <1>5, <1>7
<1> QED BY <1>2, <1>4, <1>5, <1>7, <1>8, <1>9

\* A comment about the same pause keeps what is pinned.
LEMMA PinStays ==
  ASSUME Shape, NEW s \in Stories, NEW c \in CommentType, Commented(s, c),
         NEW k, NEW i, NEW n, Pinned(s, k, i, n), c.about = [run |-> i, no |-> n]
  PROVE  Pinned(s, k, i, n)'
<1>1. PICK len : len = Len(issue[s].comments)
  OBVIOUS
<1>2. /\ len \in Nat /\ DOMAIN issue[s].comments = 1 .. len
      /\ DOMAIN issue'[s].comments = 1 .. (len + 1)
      /\ \A j \in 1 .. len : issue'[s].comments[j] = issue[s].comments[j]
      /\ issue'[s].comments[len + 1] = c
  BY <1>1, AddComment
<1>3. \A j \in 1 .. (len + 1) : j \in 1 .. len \/ j = len + 1
  BY <1>2
<1> QED BY <1>2, <1>3 DEF Pinned

\* The surroundings act: no worker does anything.
LEMMA OutsideStep ==
  ASSUME IInv, SameFiles, Shape', UNCHANGED <<worker, bad, told, applied>>,
         \A s \in Stories :
           /\ issue'[s].status = "done" => issue[s].status = "done"
           /\ issue'[s].status = "approval" => issue[s].status = "approval"
  PROVE  IInv'
<1>1. Harder /\ Shape
  BY NoFault DEF IInv
<1>2. RunsOK' /\ AppliedOK'
  BY DEF IInv, RunsOK, AppliedOK, Trusted, SameFiles
<1>3. WorkersOK'
  <2>1. SUFFICES ASSUME NEW w \in Workers, NEW W, W = worker'[w] PROVE WorkerOK(W)'
    BY DEF WorkersOK
  <2>2. W \in WorkerType /\ WorkerOK(W)
    BY <2>1 DEF IInv, Shape, WorkersOK
  <2> QED BY <1>1, <2>2, WorkerStays
<1>4. ASSUME NEW s \in Stories PROVE StoryOK(s)'
  <2>1. SameStory(s) /\ StoryOK(s) /\ processed' = processed
    BY DEF SameStory, SameFiles, SameRunsOf, IInv, StoriesOK
  <2>2. (Free(s)' => Free(s)) /\ (Waiting(s)' => Waiting(s))
    BY DEF Free, Waiting, Resuming
  <2> QED BY <1>1, <2>1, <2>2, StoryStays
<1> QED BY <1>2, <1>3, <1>4 DEF IInv, StoriesOK

\* A human moves the story back: its record and its end still keep it from a restart.
LEMMA MoveBackInv ==
  ASSUME IInv, NEW s \in Stories, MoveBack(s) PROVE IInv'
<1>1. /\ issue' = [issue EXCEPT ![s].status = "trigger"] /\ Shape
      /\ UNCHANGED <<runs, pending, processed, worker, lock, bad, told, applied>>
  BY DEF MoveBack, IInv
<1>2. /\ issue' \in [Stories -> IssueType] /\ issue'[s].status = "trigger"
      /\ \A v \in Stories :
             issue'[v].comments = issue[v].comments /\ (v # s => issue'[v] = issue[v])
  BY <1>1, StatusType
<1>3. Shape'
  BY <1>1, <1>2 DEF Shape
<1>4. SameFiles
  BY <1>1, <1>2, SameComments DEF SameFiles
<1> QED BY <1>1, <1>2, <1>3, <1>4, OutsideStep

\* A reply is about the last question, so it keeps what the records rely on.
LEMMA ReplyInv ==
  ASSUME IInv, NEW s \in Stories, NEW word \in {"yes", "no"}, Reply(s, word) PROVE IInv'
<1>1. /\ questions(s) # {} /\ Shape
      /\ UNCHANGED <<runs, pending, processed, worker, lock, bad, told, applied>>
  BY DEF Reply, IInv
<1>2. issue[s].comments \in Seq(CommentType)
  BY <1>1 DEF Shape, IssueType
<1>3. questions(s) \subseteq 1 .. Len(issue[s].comments) /\ Len(issue[s].comments) \in Nat
  BY <1>2 DEF questions
<1>4. PICK m : m = Max(questions(s))
  OBVIOUS
<1>5. m \in questions(s) /\ \A k \in questions(s) : k <= m
  BY <1>1, <1>3, <1>4, MaxOf
<1>6. m \in DOMAIN issue[s].comments /\ issue[s].comments[m] \in CommentType
  BY <1>2, <1>5 DEF questions
<1>7. PICK c : c = [word |-> word, about |-> issue[s].comments[m].about]
  OBVIOUS
<1>8. c \in CommentType /\ c.about = issue[s].comments[m].about
  BY <1>6, <1>7 DEF CommentType
<1>9. Commented(s, c)
  BY <1>4, <1>7 DEF Reply, Commented
<1>10. /\ issue' \in [Stories -> IssueType]
       /\ \A v \in Stories :
              issue'[v].status = issue[v].status /\ (v # s => issue'[v] = issue[v])
       /\ Len(issue'[s].comments) = Len(issue[s].comments) + 1
  BY <1>1, <1>8, <1>9, AddComment
<1>11. Shape'
  BY <1>1, <1>10 DEF Shape
<1>12. CommentsGrow(s)
  <2>1. ASSUME NEW k, NEW i, NEW n, Pinned(s, k, i, n) PROVE Pinned(s, k, i, n)'
    <3>1. k \in questions(s)
      BY <2>1 DEF Pinned, questions
    <3>2. m >= k
      BY <1>3, <1>5, <3>1
    <3>3. c.about = [run |-> i, no |-> n]
      BY <1>6, <1>8, <2>1, <3>2 DEF Pinned
    <3> QED BY <1>1, <1>8, <1>9, <2>1, <3>3, PinStays
  <2> QED BY <1>3, <1>10, <2>1 DEF CommentsGrow
<1>13. SameFiles
  BY <1>1, <1>10, <1>12, SameComments DEF SameFiles
<1> QED BY <1>1, <1>10, <1>11, <1>13, OutsideStep

\* The question is posted, or the post fails: what is left to show.
LEMMA PostStep ==
  ASSUME IInv, OneInstance, NEW w \in Workers, worker[w].pc = "post",
         issue' = issue \/ issue' = with_question(w), Harder,
         NEW n \in Nat, worker' = [worker EXCEPT ![w].pc = "save", ![w].seen = n],
         n <= Len(issue'[worker[w].story].comments),
         bad'["post"] = 0 => /\ issue' = with_question(w)
                             /\ n = Len(issue[worker[w].story].comments) + 1,
         UNCHANGED <<runs, pending, processed, lock, told, applied>>
  PROVE  IInv'
<1>1. /\ worker[w].pc \in Busy /\ worker[w].pc \notin Resting /\ worker[w] \in WorkerType /\ Shape
      /\ TodoOK(worker[w])
  BY Of DEF Busy, Resting, WorkerOK
<1>2. /\ worker[w].story \in Stories /\ worker[w].run \in DOMAIN runs
      /\ runs[worker[w].run] \in RunType /\ runs[worker[w].run].story = worker[w].story
      /\ HandOK(worker[w]) /\ PlaceOK(worker[w]) /\ ReportOK(worker[w])
  BY <1>1, InHand
<1>3. PICK V, S, W : /\ V = worker[w] /\ S = V.story
                     /\ W = [V EXCEPT !.pc = "save", !.seen = n]
  OBVIOUS
<1>4. worker' = [worker EXCEPT ![w] = W]
  BY <1>3
<1>5. /\ W \in WorkerType /\ W.pc = "save" /\ W.seen = n /\ W.todo = V.todo /\ W.from = V.from
      /\ W.story = S /\ W.run = V.run /\ W.then = "loop"
  BY <1>1, <1>2, <1>3 DEF WorkerType, Places, Busy, HandOK
<1>6. PICK here, c : here = [run |-> V.run, no |-> runs[V.run].no]
                     /\ c = [word |-> "question", about |-> here]
  OBVIOUS
<1>7. c \in CommentType /\ c.about = here /\ c.word = "question"
  <2>1. V.run \in Nat /\ runs[V.run].no \in Nat
    BY <1>1, <1>2, <1>3 DEF WorkerType, RunType
  <2> QED BY <1>6, <2>1 DEF CommentType, PauseId
<1>8. issue' = with_question(w) <=> Commented(S, c)
  BY <1>3, <1>6 DEF with_question, question_comment, Run, Commented
<1>9. /\ issue' \in [Stories -> IssueType]
      /\ \A v \in Stories :
             issue'[v].status = issue[v].status /\ (v # S => issue'[v] = issue[v])
      /\ Len(issue[S].comments) \in Nat /\ Len(issue[S].comments) <= Len(issue'[S].comments)
  <2>1. CASE issue' = issue
    BY <1>1, <1>2, <1>3, <2>1 DEF Shape, IssueType
  <2>2. CASE Commented(S, c)
    <3>1. /\ issue' \in [Stories -> IssueType] /\ Len(issue[S].comments) \in Nat
          /\ \A v \in Stories :
                 issue'[v].status = issue[v].status /\ (v # S => issue'[v] = issue[v])
          /\ Len(issue'[S].comments) = Len(issue[S].comments) + 1
      BY <1>1, <1>2, <1>3, <1>7, <2>2, AddComment
    <3> QED BY <3>1
  <2> QED BY <1>8, <2>1, <2>2
<1>10. Shape'
  BY <1>1, <1>4, <1>5, <1>9 DEF Shape, Harder
<1>11. RunsOK' /\ AppliedOK'
  BY <1>1, HarderMeans DEF IInv, RunsOK, AppliedOK
<1>12. Alone(w)
  BY <1>1, OneWorks
<1>13. ~Resuming(W) /\ W.pc \in Busy /\ W.pc \notin Resting
  BY <1>5 DEF Resuming, Busy, Resting
<1>14. ASSUME bad'["post"] = 0 PROVE Pinned(S, n, V.run, runs[V.run].no)'
  <2>1. Commented(S, c) /\ n = Len(issue[S].comments) + 1
    BY <1>3, <1>8, <1>14
  <2>2. DOMAIN issue'[S].comments = 1 .. n /\ issue'[S].comments[n] = c
    BY <1>1, <1>2, <1>3, <1>7, <2>1, AddComment
  <2>3. \A j \in 1 .. n : j >= n => j = n
    OBVIOUS
  <2>4. n \in 1 .. n
    BY <1>9, <2>1
  <2> QED BY <1>6, <1>7, <2>2, <2>3, <2>4 DEF Pinned
<1>15. WorkerOK(W)'
  <2>1. TodoOK(W)'
    BY <1>1, <1>3, <1>5 DEF TodoOK
  <2>2. HandOK(W)'
    <3>1. Latest(W.story, W.run)'
      BY <1>2, <1>3, <1>5 DEF HandOK, Latest
    <3> QED BY <1>2, <1>3, <1>5, <1>13, <3>1 DEF HandOK
  <2>3. PlaceOK(W)'
    BY <1>2, <1>3, <1>5 DEF PlaceOK
  <2>4. ReportOK(W)'
    BY <1>1, <1>2, <1>3, <1>5, HarderMeans DEF ReportOK
  <2>5. ReplyOK(W)'
    BY <1>5, <1>13, <1>14 DEF ReplyOK
  <2> QED BY <1>13, <2>1, <2>2, <2>3, <2>4, <2>5 DEF WorkerOK
<1>16. WorkersOK'
  BY <1>4, <1>10, <1>12, <1>15, Assemble
<1>17. ASSUME NEW s \in Stories PROVE StoryOK(s)'
  <2>1. StoryOK(s) /\ SameRunsOf(s) /\ W = worker'[w]
    BY <1>1, <1>4 DEF IInv, StoriesOK, SameRunsOf, Shape
  <2>2. CASE s # S
    <3>1. CommentsGrow(s)
      BY <1>1, <1>9, <2>2, SameComments
    <3>2. SameStory(s) /\ NotHis(w, s)
      BY <1>3, <1>5, <1>9, <2>1, <2>2, <3>1 DEF SameStory, NotHis
    <3> QED BY <1>4, <1>9, <1>10, <3>2, OtherStory
  <2>3. CASE s = S
    <3>1. ~Free(s)' /\ ~Waiting(s)'
      BY <1>5, <1>13, <2>1, <2>3 DEF Free, Waiting, Resuming
    <3>2. EndedOK(s)' /\ LiveOK(s)' /\ ToldOK(s)'
      BY <1>2, <1>3, <2>3, <3>1 DEF EndedOK, LiveOK, ToldOK, Forgotten, HandOK
    <3>3. DoneOK(s)'
      BY <1>1, <1>9, <2>1, HarderMeans DEF StoryOK, DoneOK
    <3>4. FileOK(s)'
      <4>1. SUFFICES ASSUME pending[s] # NoRecord PROVE RecordOK(s)' /\ PauseOK(s)'
        BY DEF FileOK
      <4>2. RecordOK(s) /\ PauseOK(s) /\ pending[s].run = V.run /\ pending[s].seen \in Nat
        BY <1>1, <1>2, <1>3, <2>1, <2>3, <4>1 DEF StoryOK, FileOK, HandOK, Shape, RecordType
      <4>3. pending[s].seen <= Len(issue'[s].comments)
        <5>1. Len(issue'[s].comments) \in Nat
          BY <1>10 DEF Shape, IssueType
        <5> QED BY <1>9, <2>3, <4>2, <5>1 DEF RecordOK
      <4>4. RecordOK(s)'
        BY <4>2, <4>3 DEF RecordOK, Latest
      <4>5. ASSUME same_pause(runs[V.run], pending[s]), Trusted(pending[s].kind)',
                   pending[s].kind = "gate"
            PROVE  Pinned(s, pending[s].seen, V.run, runs[V.run].no)'
        <5>1. Pinned(s, pending[s].seen, V.run, runs[V.run].no)
          BY <1>1, <4>2, <4>5, HarderMeans DEF PauseOK
        <5>2. Commented(s, c)
          BY <1>8, <2>3, <4>5 DEF Trusted
        <5> QED BY <1>1, <1>6, <1>7, <5>1, <5>2, PinStays
      <4>6. PauseOK(s)'
        BY <3>1, <4>2, <4>5 DEF PauseOK, same_pause, pause_kind, Trusted
      <4> QED BY <4>4, <4>6
    <3> QED BY <3>2, <3>3, <3>4 DEF StoryOK
  <2> QED BY <2>2, <2>3
<1> QED BY <1>10, <1>11, <1>16, <1>17 DEF IInv, StoriesOK

\* The posted question pins down what later comments are about.
LEMMA PostQuestionInv ==
  ASSUME IInv, OneInstance, NEW w \in Workers, PostQuestion(w) PROVE IInv'
<1>1. /\ worker[w].pc = "post" /\ worker[w].pc \in Busy /\ worker[w].pc # "build" /\ Shape
      /\ issue' = with_question(w)
      /\ UNCHANGED <<runs, pending, processed, lock, bad, told, applied>>
  BY DEF PostQuestion, Busy, IInv
<1>2. PICK S \in Stories : S = worker[w].story
  BY <1>1, InHand
<1>3. PICK n : n = Len(issue[S].comments) + 1
  OBVIOUS
<1>4. n \in Nat /\ n = Len(issue'[S].comments)
  <2>1. question_comment(w) \in CommentType
    BY <1>1, InHand, Of DEF question_comment, CommentType, PauseId, WorkerType, RunType, Run
  <2>2. PICK c \in CommentType : c = question_comment(w)
    BY <2>1
  <2>3. Commented(S, c)
    BY <1>1, <1>2, <2>2 DEF with_question, Commented
  <2> QED BY <1>1, <1>3, <2>3, AddComment
<1>5. worker' = [worker EXCEPT ![w].pc = "save", ![w].seen = n]
  BY <1>2, <1>3 DEF PostQuestion
<1>6. n <= Len(issue'[S].comments)
  BY <1>4
<1> QED BY <1>1, <1>2, <1>3, <1>4, <1>5, <1>6, NoFault, PostStep

\* A question that was not posted excuses all that depends on it.
LEMMA PostFailsInv ==
  ASSUME IInv, OneInstance, NEW w \in Workers, PostFails(w) PROVE IInv'
<1>1. "post" \in FaultKinds
  BY DEF FaultKinds
<1>2. Harder /\ bad'["post"] > 0 /\ Shape
  BY <1>1, FaultIsHarder DEF PostFails, IInv
<1>3. /\ worker[w].pc = "post" /\ worker[w].pc \in Busy /\ worker[w].pc # "build"
      /\ issue' = issue \/ issue' = with_question(w)
      /\ worker' = [worker EXCEPT ![w].pc = "save", ![w].seen = 0]
      /\ UNCHANGED <<runs, pending, processed, lock, told, applied>>
  BY DEF PostFails, Busy
<1>4. PICK S \in Stories : S = worker[w].story
  BY <1>3, InHand
<1>5. Len(issue[S].comments) \in Nat
  BY <1>2 DEF Shape, IssueType
<1>6. 0 <= Len(issue'[S].comments)
  <2>1. PICK c : c = question_comment(w)
    OBVIOUS
  <2>2. c \in CommentType
    BY <1>3, <2>1, InHand, Of DEF question_comment, CommentType, PauseId, WorkerType, RunType, Run
  <2>3. CASE issue' = with_question(w)
    <3>1. Commented(S, c)
      BY <1>4, <2>1, <2>3 DEF with_question, Commented
    <3>2. Len(issue'[S].comments) = Len(issue[S].comments) + 1
      BY <1>2, <2>2, <3>1, AddComment
    <3> QED BY <1>5, <3>2
  <2> QED BY <1>3, <1>5, <2>3
<1>7. ~(bad'["post"] = 0)
  BY <1>2
<1> QED BY <1>2, <1>3, <1>4, <1>6, <1>7, PostStep

-----------------------------------------------------------------------------
(* The steps on the files.                                                 *)

\* The stories other than the one in hand, when a file is written.
LEMMA OthersOfFiles ==
  ASSUME IInv, Shape', NEW w \in Workers, NEW W, worker' = [worker EXCEPT ![w] = W],
         NEW S, S = worker[w].story, W.story \in {S, NoStory},
         runs' = runs, bad' = bad,
         NEW s \in Stories, s # S, pending'[s] = pending[s], s \in processed' <=> s \in processed,
         issue'[s] = issue[s], told'[s] = told[s]
  PROVE  StoryOK(s)'
<1>1. Harder /\ Shape
  BY NoFault DEF IInv
<1>2. CommentsGrow(s)
  BY <1>1, SameComments
<1>3. SameStory(s)
  BY <1>2 DEF SameStory, SameRunsOf
<1>4. NotHis(w, s)
  BY <1>1, WorkerAssumption DEF NotHis, Shape
<1> QED BY <1>1, <1>3, <1>4, OtherStory

\* The record names the pause the run is at, and its question.
LEMMA SavePendingInv ==
  ASSUME IInv, OneInstance, NEW w \in Workers, SavePending(w) PROVE IInv'
<1>1. /\ worker[w].pc = "save" /\ worker[w].pc \in Busy /\ worker[w].pc \notin Resting
      /\ worker[w] \in WorkerType /\ Shape /\ done_with(w)
      /\ UNCHANGED <<issue, runs, processed, lock, bad, back, told, applied>>
  BY Of DEF SavePending, Busy, Resting
<1>2. PICK V, S, r : V = worker[w] /\ S = V.story /\ r = runs[V.run]
  OBVIOUS
<1>3. /\ S \in Stories /\ V.run \in DOMAIN runs /\ r \in RunType /\ r.story = S
      /\ HandOK(V) /\ PlaceOK(V) /\ ReportOK(V) /\ ReplyOK(V)
  BY <1>1, <1>2, InHand
<1>4. PICK record :
        record = [run |-> V.run, kind |-> pause_kind(r), stage |-> r.stage, seen |-> V.seen]
  OBVIOUS
<1>5. /\ record.run = V.run /\ record.kind = pause_kind(r) /\ record.stage = r.stage
      /\ record.seen = V.seen
  BY <1>4
<1>6. paused(r) /\ pause_kind(r) \in {"gate", "checkpoint"}
  BY <1>1, <1>2, <1>3 DEF PlaceOK, paused, pause_kind
<1>7. record \in RecordType /\ record # NoRecord
  <2>1. V.run \in Nat /\ V.seen \in Nat /\ r.stage \in ALL_STAGES
    BY <1>1, <1>2, <1>3 DEF WorkerType, RunType
  <2>2. record \in RecordType
    BY <1>4, <1>6, <2>1 DEF RecordType
  <2>3. NoRecord.kind = "none"
    BY DEF NoRecord
  <2> QED BY <1>5, <1>6, <2>2, <2>3
<1>8. pending' = [pending EXCEPT ![S] = record]
  BY <1>2, <1>4 DEF SavePending, Run
<1>9. pending'[S] = record /\ \A s \in Stories : s # S => pending'[s] = pending[s]
  BY <1>1, <1>3, <1>8 DEF Shape
<1>10. PICK W \in WorkerType :
         worker' = [worker EXCEPT ![w] = W] /\ W.story = NoStory /\ WorkerOK(W)'
  BY <1>1, <1>2, <1>9, DoneWith
<1>11. Shape' /\ RunsOK' /\ AppliedOK'
  <2>1. pending' \in [Stories -> RecordType]
    BY <1>1, <1>7, <1>8 DEF Shape
  <2>2. Shape'
    BY <1>1, <1>10, <2>1 DEF Shape
  <2> QED BY <1>1, <2>2 DEF IInv, RunsOK, AppliedOK, Trusted
<1>12. Alone(w)
  BY <1>1, OneWorks
<1>13. WorkersOK'
  BY <1>10, <1>11, <1>12, Assemble
<1>14. StoryOK(S)'
  <2>1. StoryOK(S) /\ S \notin processed
    BY <1>3, <1>2 DEF IInv, StoriesOK, HandOK
  <2>2. RecordOK(S)'
    <3>1. Latest(S, record.run)'
      BY <1>1, <1>2, <1>3, <1>5 DEF HandOK, Latest
    <3>2. record.seen <= Len(issue[S].comments)
      BY <1>1, <1>2, <1>3, <1>5 DEF PlaceOK
    <3>3. record.kind = "gate" => record.stage \in GATES /\ r.stage \in Past(record.stage)
      BY <1>5 DEF pause_kind, Past
    <3> QED BY <1>1, <1>2, <1>5, <1>6, <1>9, <3>1, <3>2, <3>3 DEF RecordOK
  <2>3. PauseOK(S)'
    <3>1. same_pause(r, record)
      BY <1>5 DEF same_pause
    <3>2. Trusted(record.kind)' => Pinned(S, record.seen, record.run, r.no)
      BY <1>1, <1>2, <1>3, <1>5 DEF ReplyOK, Trusted
    <3>3. Pinned(S, record.seen, record.run, r.no) => Pinned(S, record.seen, record.run, r.no)'
      BY <1>1 DEF Pinned
    <3>4. runs'[record.run] = r
      BY <1>1, <1>2, <1>5
    <3> QED BY <1>9, <3>1, <3>2, <3>3, <3>4 DEF PauseOK, same_pause, pause_kind, Trusted
  <2>4. FileOK(S)'
    BY <2>2, <2>3 DEF FileOK
  <2>5. EndedOK(S)' /\ DoneOK(S)'
    BY <1>1, <2>1 DEF EndedOK, DoneOK, StoryOK
  <2>6. LiveOK(S)'
    BY <1>1, <1>2, <1>3, <1>5, <1>9 DEF LiveOK, ReportOK
  <2>7. ToldOK(S)'
    BY <1>7, <1>9 DEF ToldOK, Forgotten
  <2> QED BY <2>4, <2>5, <2>6, <2>7 DEF StoryOK
<1>15. ASSUME NEW s \in Stories, s # S PROVE StoryOK(s)'
  BY <1>1, <1>2, <1>9, <1>10, <1>11, <1>15, OthersOfFiles
<1> QED BY <1>11, <1>13, <1>14, <1>15 DEF IInv, StoriesOK

\* The record of a run that is over is removed before its story is marked.
LEMMA PopPendingInv ==
  ASSUME IInv, OneInstance, NEW w \in Workers, PopPending(w) PROVE IInv'
<1>1. /\ worker[w].pc = "pop" /\ worker[w].pc \in Busy /\ worker[w].pc \notin Resting
      /\ worker[w] \in WorkerType /\ Shape /\ goto(w, "mark") /\ TodoOK(worker[w])
      /\ UNCHANGED <<issue, runs, processed, lock, bad, back, told, applied>>
  BY Of DEF PopPending, Busy, Resting, WorkerOK
<1>2. PICK V, S, W : V = worker[w] /\ S = V.story /\ W = [V EXCEPT !.pc = "mark"]
  OBVIOUS
<1>3. S \in Stories /\ HandOK(V) /\ PlaceOK(V)
  BY <1>1, <1>2, InHand
<1>4. pending' = [pending EXCEPT ![S] = NoRecord] /\ worker' = [worker EXCEPT ![w] = W]
  BY <1>1, <1>2 DEF PopPending, goto
<1>5. pending'[S] = NoRecord /\ \A s \in Stories : s # S => pending'[s] = pending[s]
  BY <1>1, <1>3, <1>4 DEF Shape
<1>6. /\ W \in WorkerType /\ W.pc = "mark" /\ W.todo = V.todo /\ W.from = V.from /\ W.story = S
      /\ W.run = V.run /\ W.then = "loop"
  BY <1>1, <1>2, <1>3 DEF WorkerType, Places, Busy, HandOK
<1>7. Shape' /\ RunsOK' /\ AppliedOK'
  <2>1. pending' \in [Stories -> RecordType]
    BY <1>1, <1>4, OffType DEF Shape
  <2>2. Shape'
    BY <1>1, <1>4, <1>6, <2>1 DEF Shape
  <2> QED BY <1>1, <2>2 DEF IInv, RunsOK, AppliedOK, Trusted
<1>8. WorkerOK(W)'
  <2>1. ~Resuming(W) /\ W.pc \in Busy /\ W.pc \notin Resting
    BY <1>6 DEF Resuming, Busy, Resting
  <2>2. Latest(W.story, W.run)'
    BY <1>1, <1>2, <1>3, <1>6 DEF HandOK, Latest
  <2>3. HandOK(W)'
    BY <1>1, <1>2, <1>3, <1>5, <1>6, <2>1, <2>2 DEF HandOK
  <2>4. PlaceOK(W)' /\ ReportOK(W)' /\ ReplyOK(W)'
    BY <1>1, <1>2, <1>3, <1>6, <2>1 DEF PlaceOK, ReportOK, ReplyOK, Unbroken
  <2>5. TodoOK(W)'
    BY <1>1, <1>2, <1>5, <1>6 DEF TodoOK
  <2> QED BY <2>1, <2>3, <2>4, <2>5 DEF WorkerOK
<1>9. Alone(w)
  BY <1>1, OneWorks
<1>10. WorkersOK'
  BY <1>4, <1>7, <1>8, <1>9, Assemble
<1>11. StoryOK(S)'
  <2>1. StoryOK(S) /\ S \notin processed
    BY <1>2, <1>3 DEF IInv, StoriesOK, HandOK
  <2>2. ~Free(S)'
    <3>1. worker'[w].story = S
      BY <1>1, <1>4, <1>6 DEF Shape
    <3> QED BY <3>1 DEF Free
  <2> QED BY <1>1, <1>5, <2>1, <2>2 DEF StoryOK, FileOK, EndedOK, DoneOK, LiveOK, ToldOK, Forgotten
<1>12. ASSUME NEW s \in Stories, s # S PROVE StoryOK(s)'
  <2>1. /\ S = worker[w].story /\ W.story \in {S, NoStory} /\ runs' = runs /\ bad' = bad
        /\ pending'[s] = pending[s] /\ (s \in processed' <=> s \in processed)
        /\ issue'[s] = issue[s] /\ told'[s] = told[s]
    BY <1>1, <1>2, <1>5, <1>6, <1>12
  <2> QED BY <1>4, <1>7, <1>12, <2>1, OthersOfFiles
<1> QED BY <1>7, <1>10, <1>11, <1>12 DEF IInv, StoriesOK

\* A story is marked when its latest run is over and no record is left.
LEMMA MarkProcessedInv ==
  ASSUME IInv, OneInstance, NEW w \in Workers, MarkProcessed(w) PROVE IInv'
<1>1. /\ worker[w].pc = "mark" /\ worker[w].pc \in Busy /\ worker[w].pc \notin Resting
      /\ worker[w] \in WorkerType /\ Shape /\ done_with(w)
      /\ UNCHANGED <<issue, runs, pending, lock, bad, back, told, applied>>
  BY Of DEF MarkProcessed, Busy, Resting
<1>2. PICK V, S : V = worker[w] /\ S = V.story
  OBVIOUS
<1>3. S \in Stories /\ HandOK(V) /\ PlaceOK(V)
  BY <1>1, <1>2, InHand
<1>4. processed' = processed \cup {S}
  BY <1>2 DEF MarkProcessed
<1>5. PICK W \in WorkerType :
        worker' = [worker EXCEPT ![w] = W] /\ W.story = NoStory /\ WorkerOK(W)'
  BY <1>1, DoneWith
<1>6. Shape' /\ RunsOK' /\ AppliedOK'
  <2>1. Shape'
    BY <1>1, <1>3, <1>4, <1>5 DEF Shape
  <2> QED BY <1>1, <2>1 DEF IInv, RunsOK, AppliedOK, Trusted
<1>7. Alone(w)
  BY <1>1, OneWorks
<1>8. WorkersOK'
  BY <1>5, <1>6, <1>7, Assemble
<1>9. StoryOK(S)'
  <2>1. StoryOK(S) /\ pending[S] = NoRecord
    BY <1>1, <1>2, <1>3 DEF IInv, StoriesOK, HandOK
  <2>2. Latest(S, V.run)' /\ V.run \in DOMAIN runs /\ over(runs[V.run])
    BY <1>1, <1>2, <1>3 DEF HandOK, PlaceOK, Latest
  <2>3. EndedOK(S)'
    BY <1>1, <2>1, <2>2 DEF EndedOK
  <2>4. ToldOK(S)'
    BY <1>1, <1>2, <1>3 DEF PlaceOK, ToldOK, Forgotten, Unbroken
  <2> QED BY <1>1, <1>4, <2>1, <2>3, <2>4 DEF StoryOK, FileOK, DoneOK, LiveOK
<1>10. ASSUME NEW s \in Stories, s # S PROVE StoryOK(s)'
  BY <1>1, <1>2, <1>4, <1>5, <1>6, <1>10, OthersOfFiles
<1> QED BY <1>6, <1>8, <1>9, <1>10 DEF IInv, StoriesOK

\* The issue is moved to done only after a completed run, unless there was a kill.
LEMMA FinishIssueInv ==
  ASSUME IInv, OneInstance, NEW w \in Workers, FinishIssue(w) PROVE IInv'
<1>1. /\ worker[w].pc = "finish" /\ worker[w].pc \in Busy /\ worker[w].pc \notin Resting
      /\ worker[w] \in WorkerType /\ Shape /\ TodoOK(worker[w])
      /\ UNCHANGED <<runs, pending, processed, lock, back, applied>>
  BY Of DEF FinishIssue, Busy, Resting, WorkerOK
<1>2. PICK V, S, pc : V = worker[w] /\ S = V.story /\ pc = after_finish(w)
  OBVIOUS
<1>3. S \in Stories /\ HandOK(V) /\ PlaceOK(V) /\ ReportOK(V)
  BY <1>1, <1>2, InHand
<1>4. PICK W : W = [V EXCEPT !.pc = pc]
  OBVIOUS
<1>5. worker' = [worker EXCEPT ![w] = W]
  BY <1>2, <1>4 DEF FinishIssue, goto
<1>6. pc \in {"pop", "mark"} /\ (pc = "pop" <=> V.from = "check")
  BY <1>2 DEF after_finish
<1>7. /\ W \in WorkerType /\ W.pc = pc /\ W.todo = V.todo /\ W.from = V.from /\ W.story = S
      /\ W.run = V.run /\ W.then = "loop"
  BY <1>1, <1>2, <1>3, <1>4, <1>6 DEF WorkerType, Places, Busy, HandOK
<1>8. Harder
  <2>1. "jira" \in FaultKinds /\ "post" \in FaultKinds
    BY DEF FaultKinds
  <2> QED BY <1>1, <2>1, FaultIsHarder, NoFault DEF FinishIssue
<1>9. \/ issue' = issue
      \/ issue' = [issue EXCEPT ![S].status = "done"] /\ V.exit = 0
  BY <1>2 DEF FinishIssue
<1>10. /\ issue' \in [Stories -> IssueType]
       /\ \A v \in Stories :
              issue'[v].comments = issue[v].comments /\ (v # S => issue'[v] = issue[v])
       /\ issue'[S].status = issue[S].status \/ (issue'[S].status = "done" /\ V.exit = 0)
  <2>1. CASE issue' = issue
    BY <1>1, <2>1 DEF Shape
  <2>2. CASE issue' = [issue EXCEPT ![S].status = "done"] /\ V.exit = 0
    BY <1>1, <1>3, <2>2, StatusType
  <2> QED BY <1>9, <2>1, <2>2
<1>11. /\ DOMAIN told' = Stories /\ \A s \in Stories : s # S => told'[s] = told[s]
       /\ \A s \in Stories : told[s] \subseteq told'[s]
       /\ Unbroken' => told'[S] # {}
  <2>1. CASE \E word : told' = [told EXCEPT ![S] = @ \cup {word}]
    BY <1>1, <1>3, <2>1 DEF Shape
  <2>2. CASE told' = told /\ Fault("post")
    <3>1. "post" \in FaultKinds
      BY DEF FaultKinds
    <3>2. bad'["post"] > 0
      BY <1>1, <2>2, <3>1, FaultIsHarder
    <3> QED BY <1>1, <2>2, <3>2 DEF Shape, Unbroken
  <2> QED BY <1>2, <2>1, <2>2 DEF FinishIssue
<1>12. Shape'
  BY <1>1, <1>5, <1>7, <1>8, <1>10, <1>11 DEF Shape, Harder
<1>13. SameFiles
  BY <1>1, <1>10, <1>11, SameComments DEF SameFiles
<1>14. RunsOK' /\ AppliedOK'
  BY <1>1, <1>8, HarderMeans DEF IInv, RunsOK, AppliedOK
<1>15. ~Resuming(W) /\ W.pc \in Busy /\ W.pc \notin Resting
  BY <1>6, <1>7 DEF Resuming, Busy, Resting
<1>16. WorkerOK(W)'
  <2>1. Latest(W.story, W.run)'
    BY <1>1, <1>2, <1>3, <1>7 DEF HandOK, Latest
  <2>2. HandOK(W)'
    BY <1>1, <1>2, <1>3, <1>6, <1>7, <1>15, <2>1 DEF HandOK
  <2>3. PlaceOK(W)' /\ ReportOK(W)' /\ ReplyOK(W)'
    BY <1>1, <1>2, <1>3, <1>6, <1>7, <1>11, <1>15 DEF PlaceOK, ReportOK, ReplyOK
  <2>4. TodoOK(W)'
    BY <1>1, <1>2, <1>7 DEF TodoOK
  <2> QED BY <1>15, <2>2, <2>3, <2>4 DEF WorkerOK
<1>17. WorkersOK'
  BY <1>5, <1>8, <1>12, <1>13, <1>16, Assemble
<1>18. ASSUME NEW s \in Stories PROVE StoryOK(s)'
  <2>1. StoryOK(s) /\ CommentsGrow(s) /\ worker'[w] = W /\ SameRunsOf(s)
    BY <1>1, <1>5, <1>13 DEF IInv, StoriesOK, SameFiles, Shape, SameRunsOf
  <2>2. CASE s # S
    <3>1. SameStory(s) /\ NotHis(w, s)
      BY <1>1, <1>2, <1>7, <1>10, <2>1, <2>2 DEF SameStory, NotHis
    <3> QED BY <1>1, <1>5, <1>8, <1>10, <1>11, <1>12, <2>2, <3>1, OtherStory
  <2>3. CASE s = S
    <3>1. ~Free(s)' /\ ~Waiting(s)'
      BY <1>7, <1>15, <2>1, <2>3 DEF Free, Waiting, Resuming
    <3>2. EndedOK(s)' /\ LiveOK(s)' /\ ToldOK(s)'
      BY <1>1, <1>2, <1>3, <2>3, <3>1 DEF EndedOK, LiveOK, ToldOK, Forgotten, HandOK
    <3>3. FileOK(s)'
      <4>1. SUFFICES ASSUME pending[s] # NoRecord PROVE RecordOK(s)' /\ PauseOK(s)'
        BY <1>1 DEF FileOK
      <4>2. RecordOK(s) /\ PauseOK(s)
        BY <2>1, <4>1 DEF StoryOK, FileOK
      <4>3. RecordOK(s)'
        BY <1>1, <1>10, <4>2 DEF RecordOK, Latest
      <4>4. \A kind : Trusted(kind)' => Trusted(kind)
        BY <1>1, <1>8, HarderMeans
      <4>5. \A k, i, n : Pinned(s, k, i, n) => Pinned(s, k, i, n)'
        BY <2>1 DEF CommentsGrow
      <4>6. PauseOK(s)'
        BY <1>1, <3>1, <4>2, <4>4, <4>5 DEF PauseOK, same_pause, pause_kind, Trusted
      <4> QED BY <4>3, <4>6
    <3>4. DoneOK(s)'
      <4>1. SUFFICES ASSUME bad'["crash"] = 0, issue'[s].status = "done"
                     PROVE  \E i \in DOMAIN runs : runs[i].story = s /\ runs[i].stage = COMPLETED
        BY <1>1 DEF DoneOK
      <4>2. bad["crash"] = 0
        BY <1>1, <1>8, <4>1, HarderMeans
      <4>3. CASE issue[s].status = "done"
        BY <2>1, <4>2, <4>3 DEF StoryOK, DoneOK
      <4>4. CASE V.exit = 0
        <5>1. runs[V.run].stage = COMPLETED
          BY <1>1, <1>2, <1>3, <4>2, <4>4 DEF ReportOK
        <5>2. Latest(S, V.run)
          BY <1>1, <1>2, <1>3 DEF HandOK
        <5> QED BY <2>3, <5>1, <5>2 DEF Latest
      <4> QED BY <1>10, <2>3, <4>1, <4>3, <4>4
    <3> QED BY <3>2, <3>3, <3>4 DEF StoryOK
  <2> QED BY <2>2, <2>3
<1> QED BY <1>12, <1>14, <1>17, <1>18 DEF IInv, StoriesOK

-----------------------------------------------------------------------------
(* The theorems.                                                           *)

\* Every step keeps the invariant, while one instance of the worker runs.
LEMMA StepInv ==
  ASSUME IInv, OneInstance, [Next]_vars
  PROVE  IInv'
<1>1. ASSUME NEW w \in Workers, WorkerStep(w) PROVE IInv'
  BY <1>1, ReturnFromAcquireInv, BeginTickInv, ReadRepliesInv, ListCommentsFailsInv, EndRepliesInv,
     ResumeInv, PickupInv, NothingNewInv, StartRunInv, EndTickInv, WorkInv, AskInv, MatchInv,
     LoopInv, ApplyInv, StopInv, RaiseInv, ReportErrorInv, PostQuestionInv, PostFailsInv, SavePendingInv,
     FinishIssueInv, PopPendingInv, MarkProcessedInv
  DEF WorkerStep
<1>2. ASSUME NEW w \in Workers, AcquireLock(w) \/ Exit(w) \/ Crash(w) PROVE IInv'
  BY <1>2, AcquireLockInv, ExitInv, CrashInv
<1>3. ASSUME NEW s \in Stories, MoveBack(s) \/ \E word \in {"yes", "no"} : Reply(s, word)
      PROVE  IInv'
  BY <1>3, MoveBackInv, ReplyInv
<1>4. CASE UNCHANGED vars
  <2>1. Shape' /\ SameFiles
    BY <1>4, SameComments DEF vars, IInv, Shape, SameFiles
  <2> QED BY <1>4, <2>1, OutsideStep DEF vars
<1> QED BY <1>1, <1>2, <1>3, <1>4 DEF Next

\* The inductive invariant holds while one instance of the worker runs.
THEOREM WorkerInvariant == Spec /\ []OneInstance => []IInv
<1>1. Init => IInv
  BY InitInv
<1>2. IInv /\ OneInstance /\ [Next]_vars => IInv'
  BY StepInv
<1> QED BY <1>1, <1>2, PTL DEF Spec

\* The invariant says that the files and the issues agree with the runs.
LEMMA AgreeFromInv == IInv => FilesMatchRuns
<1> SUFFICES ASSUME IInv PROVE FilesMatchRuns
  OBVIOUS
<1>1. Shape /\ \A s \in Stories : StoryOK(s)
  BY DEF IInv, StoriesOK
<1>2. TypeOK
  <2>1. ASSUME NEW s \in Stories
        PROVE  /\ issue[s].status \in {"trigger", "approval", "done"}
               /\ \A i \in DOMAIN issue[s].comments : issue[s].comments[i] \in CommentType
    <3>1. issue[s] \in IssueType
      BY <1>1 DEF Shape
    <3>2. issue[s].comments \in Seq(CommentType)
      BY <3>1 DEF IssueType
    <3> QED BY <3>1, <3>2 DEF IssueType
  <2>2. \A i \in DOMAIN runs : runs[i] \in RunType
    BY <1>1 DEF Shape
  <2>3. ASSUME NEW s \in Stories, pending[s] # NoRecord
        PROVE  pending[s].run \in DOMAIN runs /\ pending[s].seen <= Len(issue[s].comments)
    BY <1>1, <2>3 DEF StoryOK, FileOK, RecordOK, Latest
  <2>4. pending \in [Stories -> RecordType] /\ processed \subseteq Stories
        /\ lock \in Workers \cup {NoWorker}
    BY <1>1 DEF Shape
  <2> QED BY <2>1, <2>2, <2>3, <2>4 DEF TypeOK, CommentType, RunType
<1>3. PendingIsLatestRun
  BY <1>1, LatestIsMax DEF PendingIsLatestRun, StoryOK, FileOK, RecordOK
<1>4. ProcessedIsOver
  <2>1. SUFFICES ASSUME NEW s \in processed
                 PROVE  pending[s] = NoRecord /\ over(runs[Max(runs_of(s))])
    BY DEF ProcessedIsOver
  <2>2. s \in Stories
    BY <1>1 DEF Shape
  <2>3. PICK i \in DOMAIN runs : Latest(s, i) /\ over(runs[i])
    BY <1>1, <2>2 DEF StoryOK, EndedOK
  <2>4. Max(runs_of(s)) = i
    BY <1>1, <2>3, LatestIsMax
  <2> QED BY <1>1, <2>2, <2>3, <2>4 DEF StoryOK, EndedOK
<1>5. DoneUnlessKilled
  BY <1>1 DEF DoneUnlessKilled, DoneMeansCompleted, StoryOK, DoneOK, runs_of
<1>6. NoStoryForgotten
  BY <1>1 DEF NoStoryForgotten, StoryOK, ToldOK, Forgotten, Free, Unbroken
<1> QED BY <1>2, <1>3, <1>4, <1>5, <1>6 DEF FilesMatchRuns

\* jira_pending_decisions.json, jira_processed.json and the status of the issue
\* agree with the runs across any number of kills, exceptions and failed calls,
\* as long as no two instances run against the same data directory.
THEOREM FilesAgree == Spec /\ []OneInstance => []FilesMatchRuns
BY WorkerInvariant, AgreeFromInv, PTL

\* The invariant says that a reply decides the question it was written for.
LEMMA RepliesFromInv == IInv => RepliesDecideTheirQuestion
<1> SUFFICES ASSUME IInv PROVE RepliesDecideTheirQuestion
  OBVIOUS
<1>1. AppliedOK
  BY DEF IInv
<1>2. GateRepliesExact
  BY <1>1 DEF GateRepliesExact, applied_exactly, AppliedOK, Trusted
<1>3. ReplyExactWithoutFailures
  BY <1>1 DEF ReplyExactWithoutFailures, ReplyAnswersItsQuestion, applied_exactly, AppliedOK,
     Trusted
<1> QED BY <1>2, <1>3 DEF RepliesDecideTheirQuestion

\* resume_paused_run_async applies a reply at a gate only to that gate of that
\* run, whatever was killed or raised in between, and at a checkpoint while
\* nothing failed, as long as no two instances run.
THEOREM RepliesExact == Spec /\ []OneInstance => []RepliesDecideTheirQuestion
BY WorkerInvariant, RepliesFromInv, PTL

\* With a single worker nothing has to be assumed of the lock.
THEOREM OneWorkerIsEnough ==
  ASSUME \A v, w \in Workers : v = w
  PROVE  Spec => [](FilesMatchRuns /\ RepliesDecideTheirQuestion)
<1>1. OneInstance
  BY DEF OneInstance
<1> QED BY <1>1, FilesAgree, RepliesExact, PTL
=============================================================================
