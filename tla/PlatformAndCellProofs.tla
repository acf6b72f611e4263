----------------------- MODULE PlatformAndCellProofs -----------------------
(***************************************************************************)
(* Theorems about a tenant's cell and about the releases of the platform   *)
(* it runs.  TenantCell, for any number of nodes, warnings, writes, polls  *)
(* and changes: a question outlives a warning, the drain keeps to the      *)
(* window, an eligible change is clean and retries are bounded, and the    *)
(* board is true.  PlatformRelease, for any number of managers, versions,  *)
(* operations, kills and tofu failures: a rollback deploys what ran        *)
(* before, the history ends with what is deployed, and nothing passes its  *)
(* gate.                                                                   *)
(***************************************************************************)
EXTENDS TenantCell, PlatformRelease, SequenceTheorems, TLAPS

Stages == {IMPLEMENTATION, VERIFICATION, CHANGE_REVIEW_GATE}

Pointers == [kind : {"none", "pending", "resolved", "interrupt"}, at : Nat, nth : Nat]

\* What a request thread holds, and the board's observation.
Reads == {NoRead} \cup [version : Nat \ {0}, stage : Stages, pointer : Pointers]

Observations ==
  [version : Nat, stage : Stages \cup {"none"}, pointer : Pointers, count : Nat,
   badge : {"none", "bounced"}, since : Nat, order : {"kept", "overtaken"}]

Processes ==
  [pc : {"down", "ready", "reread", "write"}, runner : Runners \cup {"none"}, version : Nat,
   to : Stages \cup {"none", "ask"}, verdict : {"none", "eligible", "retry", "escalated"},
   sound : BOOLEAN]

-----------------------------------------------------------------------------
(* The inductive invariant, one conjunct per group of variables.           *)

\* A pointer is not newer than its row, and was written; a return is not
\* newer than the row either.
RowOK ==
  /\ row \in [version : Nat, stage : Stages, pointer : Pointers]
  /\ row.version \in 1..MaxRowVersion /\ row.pointer.at <= row.version
  /\ row.pointer.kind # "none" => row.pointer.nth > 0
  /\ returned \in [failed : Nat, review : Nat]
  /\ returned.failed <= row.version /\ returned.review <= row.version

\* What a process was told of its last attempt, its failures being n.
ToldRightly(o, n) ==
  /\ o.verdict = "eligible" => o.sound = TRUE /\ o.runner # "bare"
  /\ o.verdict = "retry" => n <= MaxAttempts
  /\ o.verdict = "escalated" => n > MaxAttempts

\* The process runs on a node.
OrchOK ==
  /\ orch \in Processes
  /\ orch.pc # "down" => orch.runner \in Runners /\ node.st \in {"serving", "warned"}
  /\ orch.pc \in {"reread", "write"} => orch.to # "none"
  /\ ToldRightly(orch, failures)

\* The first failures of a process use up its budget, one retry each.
BudgetOK ==
  /\ pipeline \in [used : Nat, attempts : Nat] /\ failures \in Nat /\ requested \in 0..MaxNodes
  /\ pipeline.used <= pipeline.attempts
  /\ pipeline.used = IF failures <= MaxAttempts THEN failures ELSE MaxAttempts

NodeOK ==
  /\ node \in [st : {"none", "booting", "serving", "warned"}, polls : Nat, inFlight : Nat]
  /\ clock \in Nat

\* The events sent so far, by the step the watcher is at, and its drain.
WatcherOK ==
  /\ watcher \in [pc : {"idle", "cordon", "stop", "drain", "draining", "flush", "checkpoint",
                        "over"},
                  version : Nat, until : Nat, began : Nat, flushed : BOOLEAN, landed : BOOLEAN,
                  result : {"none", "succeeded", "failed", "raised"}]
  /\ watcher.pc \in {"cordon", "stop", "drain", "draining", "flush"} => sink = <<>>
  /\ watcher.pc = "checkpoint" => sink = <<"observability_flush">>
  /\ watcher.pc = "over" /\ watcher.result # "raised" =>
       sink = <<"observability_flush", "checkpoint_write">>
  /\ DrainFitsWindow
  /\ \A q \in lost : q[1] <= q[2]

\* With the returns ret, the run came back to implementation after version v.
CameBack(ret, v) == ret.failed > v \/ ret.review > v

\* Of two reads of the row, the later one saw the run in implementation and
\* the earlier one not only if it came back; and it saw no fewer pointers.
Follows(ret, a, b) ==
  a.version > 0 /\ a.version <= b.version =>
    /\ a.stage # IMPLEMENTATION /\ b.stage = IMPLEMENTATION => CameBack(ret, a.version)
    /\ a.pointer.nth <= b.pointer.nth
    /\ a.pointer.nth = b.pointer.nth => a.pointer = b.pointer

\* a was read from the row, which now is r.
ReadOf(a, r, ret) ==
  /\ a.version <= r.version /\ Follows(ret, a, r)
  /\ a.version = r.version => a.stage = r.stage /\ a.pointer = r.pointer
  /\ a.pointer.kind # "none" => a.pointer.nth > 0

\* What is true of an observation whose reads came in their order.
Kept(o, ret) ==
  /\ o.since <= o.version /\ o.count <= o.pointer.nth
  /\ o.badge = "bounced" => CameBack(ret, o.since)

SeenOK ==
  /\ seenBy \in Observations /\ ReadOf(seenBy, row, returned)
  /\ seenBy.version = 0 => seenBy = Unseen
  /\ seenBy.badge = "bounced" => seenBy.stage = IMPLEMENTATION
  /\ seenBy.order = "kept" => Kept(seenBy, returned)

FetchedOK ==
  /\ fetched \in [Pollers -> Reads]
  /\ \A p \in Pollers : ReadOf(fetched[p], row, returned) /\ Follows(returned, seenBy, fetched[p])
  /\ \A p, q \in Pollers : Follows(returned, fetched[p], fetched[q])

BoardOK == SeenOK /\ FetchedOK

IInv == RowOK /\ OrchOK /\ BudgetOK /\ NodeOK /\ WatcherOK /\ BoardOK

-----------------------------------------------------------------------------
(* The verification: what its layers let through.                          *)

\* pytest on some targets, when it runs.
LEMMA Pytest ==
  ASSUME NEW c, c.pytest = "runs", NEW T, T # {}
  PROVE  /\ RunPytest(c, T).cases = T
         /\ RunPytest(c, T).failing = T \cap (c.broken \cup c.flaky)
  BY DEF RunPytest

\* Without targets pytest's exit code is 5, and nothing was run.
LEMMA PytestOnNothing ==
  ASSUME NEW c, c.pytest = "runs"
  PROVE  RunPytest(c, {}).code = 5 /\ RunPytest(c, {}).cases = {}
  BY DEF RunPytest

\* A test that is broken fails again when it is run alone.
LEMMA BrokenIsGenuine ==
  ASSUME NEW c, IsChange(c), c.pytest = "runs", NEW F, NEW t \in F, t \in c.broken
  PROVE  t \in RerunFailures(c, F)
  <1> DEFINE d == [c EXCEPT !.flaky = {}]
  <1>1. d.pytest = "runs" /\ d.broken = c.broken
    BY DEF IsChange
  <1> HIDE DEF d
  <1>2. RunPytest(d, {t}).failing = {t} \cap (d.broken \cup d.flaky)
    BY <1>1, Pytest
  <1>3. RunPytest(d, {t}).failing # {}
    BY <1>1, <1>2
  <1>. QED BY <1>3 DEF RerunFailures, d

\* Layer 1 passes a change only if its broken tests are known.
LEMMA ExistingTestsSound ==
  ASSUME NEW c, IsChange(c), c.pytest = "runs", NEW T, NEW known,
         ExistingTestSuite(c, T, known) # "fail"
  PROVE  T # {} /\ T \cap c.broken \subseteq known
  <1>1. T # {}
    BY PytestOnNothing DEF ExistingTestSuite
  <1>2. RunPytest(c, T).failing = T \cap (c.broken \cup c.flaky)
    BY <1>1, Pytest
  <1>3. ASSUME NEW t \in T, t \in c.broken PROVE t \in known
    <2>1. t \in RunPytest(c, T).failing
      BY <1>2, <1>3
    <2>2. t \in RerunFailures(c, RunPytest(c, T).failing)
      BY <1>3, <2>1, BrokenIsGenuine
    <2>. QED BY <2>1, <2>2 DEF ExistingTestSuite
  <1>. QED BY <1>1, <1>3

\* Layer 2 passes a change only if every criterion has tests, all there and passing.
LEMMA AcceptanceSound ==
  ASSUME NEW c, IsChange(c), c.pytest = "runs", AcceptanceCriteriaMapping(c) # "fail"
  PROVE  /\ \A k \in DOMAIN c.mapped :
              c.mapped[k] # {} /\ c.mapped[k] \subseteq Tests \ (c.broken \cup c.flaky)
         /\ \A k \in c.boundary : c.mapped[k] \cap Integration # {}
  <1> DEFINE ids == UNION {c.mapped[k] : k \in DOMAIN c.mapped}
             run == RunPytest(c, ids \cap Tests)
  <1>1. /\ \A k \in DOMAIN c.mapped : c.mapped[k] # {}
        /\ ids \ run.cases = {} /\ run.failing = {}
        /\ \A k \in c.boundary : c.mapped[k] \cap Integration # {}
    BY Zenon DEF AcceptanceCriteriaMapping
  <1>2. ASSUME NEW k \in DOMAIN c.mapped, NEW t \in c.mapped[k]
        PROVE  t \in Tests \ (c.broken \cup c.flaky)
    <2>1. t \in ids /\ t \in run.cases
      BY <1>1, <1>2
    <2> HIDE DEF ids
    <2>2. ids \cap Tests # {}
      BY <2>1, PytestOnNothing
    <2>3. run.cases = ids \cap Tests /\ run.failing = (ids \cap Tests) \cap (c.broken \cup c.flaky)
      BY <2>2, Pytest
    <2>. QED BY <1>1, <2>1, <2>3
  <1>. QED BY <1>1, <1>2

\* The security layer passes low and medium findings only.
LEMMA SecuritySound ==
  ASSUME NEW c, IsChange(c), SecurityScan(c) # "fail"
  PROVE  c.severities \subseteq {"low", "medium"}
  <1>1. \A s \in c.severities : ~(Severity[s] >= Severity["high"])
    BY DEF SecurityScan
  <1>2. Severity["high"] = 2 /\ Severity["critical"] = 3
    BY DEF Severity
  <1>3. "high" \notin c.severities /\ "critical" \notin c.severities
    BY <1>1, <1>2
  <1>. QED BY <1>3 DEF IsChange

\* Whatever a report lets through is clean if the tools ran: no broken test
\* but the ones known to its runner, nothing a layer of the runner should
\* have found, and no layer left out (existing_tests.py, report.py:21-44 and
\* the other layers).
THEOREM EligibleIsClean ==
  ASSUME NEW c, IsChange(c), NEW runner \in {"two", "seven", "bare"}, ToolsRan(c),
         Eligible(LayerResults(runner, c))
  PROVE  Clean(runner, c) /\ runner # "bare"
  <1> DEFINE Blocking == {"fail", "checkpoint", "error"}
  <1>1. runner # "bare" /\ LayersOf(runner) = LayerNames
    BY DEF Eligible, LayerResults, LayersOf, LayerNames
  <1>2. \A l \in LayerNames : LayerResult(runner, c, l) \notin Blocking
    BY <1>1 DEF Eligible, LayerResults
  <1>3. /\ ExistingTestSuite(c, PytestTargets(c), KnownTo(runner)) \notin Blocking
        /\ StaticAnalysis(c) \notin Blocking
    <2>1. /\ LayerResult(runner, c, "existing_test_suite")
               = ExistingTestSuite(c, PytestTargets(c), KnownTo(runner))
          /\ LayerResult(runner, c, "static_analysis") = StaticAnalysis(c)
      BY DEF LayerResult
    <2>. QED BY <1>2, <2>1 DEF LayerNames
  <1>4. /\ PytestTargets(c) # {} /\ PytestTargets(c) \cap c.broken \subseteq KnownTo(runner)
    BY <1>3, ExistingTestsSound DEF ToolsRan
  <1>8. "findings" \notin {c.ruff, c.mypy}
    BY <1>3 DEF StaticAnalysis, RuffFinds, MypyFinds
  <1>9. ASSUME runner = "seven"
        PROVE  /\ AcceptanceCriteriaMapping(c) # "fail" /\ SecurityScan(c) # "fail"
               /\ IsolatedReview(c) # "fail" /\ RegressionCheck(c) # "fail"
               /\ CompletionCheck(c) # "checkpoint" /\ CompletionCheck(c) # "error"
    <2>1. /\ LayerResult(runner, c, "acceptance_criteria_mapping") = AcceptanceCriteriaMapping(c)
          /\ LayerResult(runner, c, "security_scan") = SecurityScan(c)
          /\ LayerResult(runner, c, "isolated_context_review") = IsolatedReview(c)
          /\ LayerResult(runner, c, "behavioral_regression_check") = RegressionCheck(c)
          /\ LayerResult(runner, c, "cross_codebase_completion_check") = CompletionCheck(c)
      BY <1>9 DEF LayerResult
    <2>. QED BY <1>2, <2>1 DEF LayerNames
  <1>5. ASSUME runner = "seven"
        PROVE  /\ \A k \in DOMAIN c.mapped :
                    c.mapped[k] # {} /\ c.mapped[k] \subseteq Tests \ (c.broken \cup c.flaky)
               /\ \A k \in c.boundary : c.mapped[k] \cap Integration # {}
               /\ c.severities \subseteq {"low", "medium"}
    BY <1>9, <1>5, AcceptanceSound, SecuritySound DEF ToolsRan
  <1>6. ASSUME runner = "seven"
        PROVE  /\ c.markers \subseteq {"SUBTLE:"}
               /\ c.tier \in {"high", "cross-cutting"} => c.markers = {}
    <2>1. c.markers \cap ReviewerMarkers(c.tier) = {}
      BY <1>9, <1>6 DEF IsolatedReview
    <2>2. "BUG:" \notin c.markers /\ "SECURITY-ISSUE:" \notin c.markers
      BY <2>1 DEF ReviewerMarkers
    <2>3. c.tier \in {"high", "cross-cutting"} => "SUBTLE:" \notin c.markers
      BY <2>1 DEF ReviewerMarkers
    <2>. QED BY <2>2, <2>3 DEF IsChange
  <1>7. ASSUME runner = "seven"
        PROVE  /\ c.baseline # <<>> => ~IsRegression(c.baseline, c.current)
               /\ c.index = "ok" => c.unopened = {}
    BY <1>9, <1>7 DEF RegressionCheck, CompletionCheck
  <1>. QED BY <1>1, <1>4, <1>5, <1>6, <1>7, <1>8 DEF Clean

-----------------------------------------------------------------------------
(* The steps.                                                              *)

\* The retry budgets of the three sizes.
LEMMA Attempts == MaxAttempts \in {2, 3, 4}
  <1>1. CASE StorySize = "S"
    BY <1>1 DEF MaxAttempts, RetryAttempts
  <1>2. CASE StorySize = "M"
    BY <1>2 DEF MaxAttempts, RetryAttempts
  <1>3. CASE StorySize = "L"
    BY <1>3 DEF MaxAttempts, RetryAttempts
  <1>. QED BY <1>1, <1>2, <1>3, VerificationAssumption

\* The three stages are different.
LEMMA StagesDiffer ==
  /\ IMPLEMENTATION \in Stages /\ VERIFICATION \in Stages /\ CHANGE_REVIEW_GATE \in Stages
  /\ "none" \notin Stages /\ "ask" \notin Stages
  /\ IMPLEMENTATION # VERIFICATION /\ IMPLEMENTATION # CHANGE_REVIEW_GATE
  /\ VERIFICATION # CHANGE_REVIEW_GATE
  BY DEF Stages, IMPLEMENTATION, VERIFICATION, CHANGE_REVIEW_GATE

\* The initial state.
LEMMA InitIInv == CellInit => IInv
  <1> SUFFICES ASSUME CellInit PROVE IInv
    OBVIOUS
  <1>1. NoPointer \in Pointers /\ NoPointer.kind = "none" /\ NoPointer.at = 0 /\ NoPointer.nth = 0
    BY DEF NoPointer, Pointers
  <1>2. RowOK
    BY <1>1, StagesDiffer, TenantCellAssumption DEF CellInit, RowOK
  <1>3. OrchOK
    BY DEF CellInit, OrchOK, Down, Processes, ToldRightly
  <1>4. NodeOK
    BY DEF CellInit, NodeOK, NoNode
  <1>5. BudgetOK
    BY Attempts, TenantCellAssumption DEF CellInit, BudgetOK, NewPipeline
  <1>6. WatcherOK
    BY DEF CellInit, WatcherOK, Calm, DrainFitsWindow
  <1>7. row.version = 1 /\ row.pointer = NoPointer
    BY DEF CellInit
  <1>8. SeenOK
    <2>1. seenBy = Unseen /\ Unseen \in Observations
      BY <1>1 DEF CellInit, Unseen, Observations
    <2>2. /\ Unseen.version = 0 /\ Unseen.pointer = NoPointer /\ Unseen.badge = "none"
          /\ Unseen.since = 0 /\ Unseen.count = 0
      BY DEF Unseen
    <2>. QED BY <1>1, <1>7, <2>1, <2>2 DEF SeenOK, ReadOf, Follows, Kept
  <1>9. FetchedOK
    <2>1. fetched = [p \in Pollers |-> NoRead] /\ seenBy.version = 0
      BY DEF CellInit, Unseen
    <2>2. NoRead.version = 0 /\ NoRead.pointer = NoPointer
      BY DEF NoRead
    <2>3. fetched \in [Pollers -> Reads] /\ \A p \in Pollers : fetched[p] = NoRead
      BY <2>1 DEF Reads
    <2>. QED BY <1>1, <1>7, <2>1, <2>2, <2>3 DEF FetchedOK, ReadOf, Follows
  <1>. QED BY <1>2, <1>3, <1>4, <1>5, <1>6, <1>8, <1>9 DEF IInv, BoardOK

\* The conjuncts that a step leaves alone.
LEMMA Frames ==
  ASSUME IInv
  PROVE  /\ UNCHANGED registry => RowOK'
         /\ UNCHANGED <<orch, failures, node>> => OrchOK'
         /\ UNCHANGED <<pipeline, failures, requested>> => BudgetOK'
         /\ UNCHANGED <<cell, clock>> => NodeOK'
         /\ UNCHANGED warning => WatcherOK'
         /\ UNCHANGED <<registry, board>> => BoardOK'
  <1>1. UNCHANGED registry => RowOK'
    BY DEF IInv, RowOK, registry
  <1>2. UNCHANGED <<orch, failures, node>> => OrchOK'
    BY DEF IInv, OrchOK
  <1>3. UNCHANGED <<pipeline, failures, requested>> => BudgetOK'
    BY DEF IInv, BudgetOK
  <1>4. UNCHANGED <<cell, clock>> => NodeOK'
    BY DEF IInv, NodeOK, cell
  <1>5. UNCHANGED warning => WatcherOK'
    BY DEF IInv, WatcherOK, warning, DrainFitsWindow
  <1>6. UNCHANGED <<registry, board>> => BoardOK'
    BY DEF IInv, BoardOK, SeenOK, FetchedOK, registry, board
  <1>. QED BY <1>1, <1>2, <1>3, <1>4, <1>5, <1>6

\* From row r to row s by one write, with the returns ret and then new.
Wrote(r, s, ret, new) ==
  /\ r.version \in Nat /\ s.version = r.version + 1 /\ r.pointer \in Pointers
  /\ new \in [failed : Nat, review : Nat]
  /\ s.pointer = r.pointer \/ s.pointer.nth = r.pointer.nth + 1
  /\ r.stage # IMPLEMENTATION /\ s.stage = IMPLEMENTATION => CameBack(new, r.version)
  /\ \A v \in Nat : CameBack(ret, v) => CameBack(new, v)

\* A read stays a read of the row when the row is written.
LEMMA ReadStays ==
  ASSUME NEW r, NEW s, NEW ret, NEW new, Wrote(r, s, ret, new),
         NEW a, a.version \in Nat, a.pointer \in Pointers, ReadOf(a, r, ret)
  PROVE  ReadOf(a, s, new)
  <1>1. PICK x \in Nat, y \in Nat : x = a.version /\ y = r.version
    BY DEF Wrote
  <1>2. PICK i \in Nat, j \in Nat : i = a.pointer.nth /\ j = r.pointer.nth
    BY DEF Wrote, Pointers
  <1>3. x <= y /\ s.version = y + 1
    BY <1>1 DEF ReadOf, Wrote
  <1>4. CASE x = 0
    BY <1>1, <1>3, <1>4 DEF ReadOf, Follows
  <1>5. CASE x > 0
    <2>1. /\ a.stage # IMPLEMENTATION /\ r.stage = IMPLEMENTATION => CameBack(ret, x)
          /\ i <= j
          /\ i = j => a.pointer = r.pointer
      BY <1>1, <1>2, <1>3, <1>5 DEF ReadOf, Follows
    <2>2. /\ i <= s.pointer.nth
          /\ i = s.pointer.nth => a.pointer = s.pointer
      BY <1>2, <2>1 DEF Wrote
    <2>3. a.stage # IMPLEMENTATION /\ s.stage = IMPLEMENTATION => CameBack(new, x)
      <3>1. CASE r.stage = IMPLEMENTATION
        BY <2>1, <3>1 DEF Wrote
      <3>2. CASE r.stage # IMPLEMENTATION
        <4>1. s.stage = IMPLEMENTATION => CameBack(new, y)
          BY <1>1, <3>2 DEF Wrote
        <4>2. new.failed \in Nat /\ new.review \in Nat
          BY DEF Wrote
        <4>. QED BY <1>3, <4>1, <4>2 DEF CameBack
      <3>. QED BY <3>1, <3>2
    <2>. QED BY <1>1, <1>2, <1>3, <1>5, <2>2, <2>3 DEF ReadOf, Follows
  <1>. QED BY <1>4, <1>5

\* A write of the row leaves the board's state true of it.
LEMMA BoardStays ==
  ASSUME IInv, UNCHANGED board, Wrote(row, row', returned, returned')
  PROVE  BoardOK'
  <1>1. /\ seenBy' = seenBy /\ fetched' = fetched
        /\ seenBy.version \in Nat /\ seenBy.pointer \in Pointers /\ seenBy.since \in Nat
    BY DEF board, IInv, BoardOK, SeenOK, Observations
  <1>2. NoRead.version = 0 /\ NoRead.pointer \in Pointers
    BY DEF NoRead, NoPointer, Pointers
  <1>3. \A p \in Pollers : fetched[p].version \in Nat /\ fetched[p].pointer \in Pointers
    BY <1>2 DEF IInv, BoardOK, FetchedOK, Reads
  <1>4. ReadOf(seenBy, row', returned')
    BY <1>1, ReadStays DEF IInv, BoardOK, SeenOK
  <1>5. \A p \in Pollers : ReadOf(fetched[p], row', returned')
    BY <1>3, ReadStays DEF IInv, BoardOK, FetchedOK
  <1>6. \A v \in Nat : CameBack(returned, v) => CameBack(returned', v)
    BY DEF Wrote
  <1>7. SeenOK'
    BY <1>1, <1>4, <1>6 DEF IInv, BoardOK, SeenOK, Kept
  <1>8. FetchedOK'
    BY <1>1, <1>3, <1>5, <1>6 DEF IInv, BoardOK, FetchedOK, Follows
  <1>. QED BY <1>7, <1>8 DEF BoardOK

\* A write of the pointer: one more write, newer than all before.
LEMMA PointerWritten ==
  ASSUME IInv, NEW kind \in {"pending", "resolved", "interrupt"}, WritePointer(kind),
         row.version < MaxRowVersion, UNCHANGED board
  PROVE  RowOK' /\ BoardOK'
  <1>1. /\ row \in [version : Nat, stage : Stages, pointer : Pointers]
        /\ row.version \in 1..MaxRowVersion /\ row.pointer.nth \in Nat
    BY DEF IInv, RowOK, Pointers
  <1>2. PICK n \in Nat, k \in Nat : n = row.version + 1 /\ k = row.pointer.nth + 1
    BY <1>1
  <1> DEFINE p == [kind |-> kind, at |-> n, nth |-> k]
  <1>3. row' = [row EXCEPT !.version = n, !.pointer = p] /\ returned' = returned
    BY <1>1, <1>2 DEF WritePointer
  <1>4. p \in Pointers /\ p.kind = kind /\ p.at = n /\ p.nth = k
    BY <1>2 DEF Pointers
  <1> HIDE DEF p
  <1>5. /\ row' \in [version : Nat, stage : Stages, pointer : Pointers]
        /\ row'.version = n /\ row'.stage = row.stage /\ row'.pointer = p
    BY <1>1, <1>3, <1>4
  <1>6. RowOK'
    <2>1. /\ returned \in [failed : Nat, review : Nat]
          /\ returned.failed <= row.version /\ returned.review <= row.version
      BY DEF IInv, RowOK
    <2>2. returned.failed <= n /\ returned.review <= n
      BY <1>1, <1>2, <2>1
    <2>. QED BY <1>1, <1>2, <1>3, <1>4, <1>5, <2>1, <2>2, TenantCellAssumption DEF RowOK
  <1>7. Wrote(row, row', returned, returned')
    BY <1>1, <1>2, <1>3, <1>4, <1>5 DEF Wrote, IInv, RowOK
  <1>. QED BY <1>6, <1>7, BoardStays

\* A write of the stage: a way back to implementation is remembered.
LEMMA StageWritten ==
  ASSUME IInv, NEW s \in Stages, WriteStage(s), row.version < MaxRowVersion, UNCHANGED board
  PROVE  RowOK' /\ BoardOK'
  <1>1. /\ row \in [version : Nat, stage : Stages, pointer : Pointers]
        /\ row.version \in 1..MaxRowVersion /\ returned \in [failed : Nat, review : Nat]
        /\ returned.failed <= row.version /\ returned.review <= row.version
    BY DEF IInv, RowOK
  <1>2. PICK n \in Nat : n = row.version + 1
    BY <1>1
  <1>3. row' = [row EXCEPT !.version = n, !.stage = s]
    BY <1>1, <1>2 DEF WriteStage
  <1>4. /\ row' \in [version : Nat, stage : Stages, pointer : Pointers]
        /\ row'.version = n /\ row'.stage = s /\ row'.pointer = row.pointer
    BY <1>1, <1>3
  <1>5. /\ returned' \in {returned, [returned EXCEPT !.failed = n], [returned EXCEPT !.review = n]}
        /\ s = IMPLEMENTATION /\ row.stage # IMPLEMENTATION => returned' # returned
    <2>1. /\ [returned EXCEPT !.failed = n].failed = n /\ [returned EXCEPT !.review = n].review = n
          /\ returned.failed < n /\ returned.review < n
      BY <1>1, <1>2
    <2>2. row.stage \in {IMPLEMENTATION, VERIFICATION, CHANGE_REVIEW_GATE}
      BY <1>1 DEF Stages
    <2>3. CASE s # IMPLEMENTATION \/ row.stage = IMPLEMENTATION
      BY <2>3, StagesDiffer DEF WriteStage
    <2>4. CASE s = IMPLEMENTATION /\ row.stage = VERIFICATION
      <3>1. returned' = [returned EXCEPT !.failed = n]
        BY <1>2, <2>4 DEF WriteStage
      <3>. QED BY <1>1, <2>1, <3>1
    <2>5. CASE s = IMPLEMENTATION /\ row.stage = CHANGE_REVIEW_GATE
      <3>1. returned' = [returned EXCEPT !.review = n]
        BY <1>2, <2>5, StagesDiffer DEF WriteStage
      <3>. QED BY <1>1, <2>1, <3>1
    <2>. QED BY <2>2, <2>3, <2>4, <2>5
  <1>6. PICK x \in Nat, y \in Nat :
          /\ returned'.failed = x /\ returned'.review = y
          /\ returned' \in [failed : Nat, review : Nat]
          /\ returned.failed <= x /\ returned.review <= y /\ x <= n /\ y <= n
          /\ returned' # returned => x = n \/ y = n
    <2>1. CASE returned' = returned
      BY <1>1, <1>2, <2>1
    <2>2. CASE returned' = [returned EXCEPT !.failed = n]
      BY <1>1, <1>2, <2>2
    <2>3. CASE returned' = [returned EXCEPT !.review = n]
      BY <1>1, <1>2, <2>3
    <2>. QED BY <1>5, <2>1, <2>2, <2>3
  <1>7. RowOK'
    <2>1. row.pointer.at <= row.version /\ row.pointer.at \in Nat
          /\ (row.pointer.kind # "none" => row.pointer.nth > 0)
      BY <1>1 DEF RowOK, IInv, Pointers
    <2>2. n \in 1..MaxRowVersion /\ row.pointer.at <= n
      BY <1>1, <1>2, <2>1, TenantCellAssumption
    <2>. QED BY <1>4, <1>6, <2>1, <2>2 DEF RowOK
  <1>8. Wrote(row, row', returned, returned')
    <2>1. \A v \in Nat : CameBack(returned, v) => CameBack(returned', v)
      BY <1>1, <1>6 DEF CameBack
    <2>2. row.stage # IMPLEMENTATION /\ s = IMPLEMENTATION => CameBack(returned', row.version)
      BY <1>1, <1>2, <1>5, <1>6 DEF CameBack
    <2>. QED BY <1>1, <1>2, <1>4, <1>6, <2>1, <2>2 DEF Wrote
  <1>. QED BY <1>7, <1>8, BoardStays

\* A node is requested.
LEMMA RequestNodeStep == ASSUME IInv, RequestNode PROVE IInv'
  <1>1. RowOK' /\ WatcherOK' /\ BoardOK'
    BY Frames DEF RequestNode
  <1>2. /\ node'.st = "booting" /\ node' \in [st : {"none", "booting", "serving", "warned"},
                                              polls : Nat, inFlight : Nat]
        /\ node.st = "none" /\ UNCHANGED <<orch, pipeline, failures, clock>>
    BY DEF RequestNode, NoNode, process
  <1>3. NodeOK'
    BY <1>2 DEF IInv, NodeOK
  <1>4. OrchOK'
    BY <1>2 DEF IInv, OrchOK
  <1>5. BudgetOK'
    <2>1. requested' \in 0..MaxNodes
      BY TenantCellAssumption DEF IInv, BudgetOK, RequestNode
    <2>. QED BY <1>2, <2>1 DEF IInv, BudgetOK
  <1>. QED BY <1>1, <1>3, <1>4, <1>5 DEF IInv

\* A fresh pipeline has its whole budget.
LEMMA NewBudget ==
  ASSUME pipeline' = NewPipeline, failures' = 0, requested' \in 0..MaxNodes PROVE BudgetOK'
  BY Attempts DEF BudgetOK, NewPipeline

\* A poll of a node that boots: it serves, with a fresh pipeline; or it is
\* polled again; or it is given up.
LEMMA PollHealthStep == ASSUME IInv, NEW healthy \in BOOLEAN, PollHealth(healthy) PROVE IInv'
  <1>1. RowOK' /\ WatcherOK' /\ BoardOK'
    BY Frames DEF PollHealth
  <1>2. /\ node \in [st : {"none", "booting", "serving", "warned"}, polls : Nat, inFlight : Nat]
        /\ node.st = "booting" /\ UNCHANGED <<requested, clock>> /\ clock \in Nat
        /\ requested \in 0..MaxNodes
    BY DEF PollHealth, IInv, NodeOK, BudgetOK
  <1>4. CASE healthy
    <2>1. PICK runner \in Runners : orch' = Ready(runner)
      BY <1>4 DEF PollHealth
    <2>2. /\ node'.st = "serving" /\ node' \in [st : {"none", "booting", "serving", "warned"},
                                                polls : Nat, inFlight : Nat]
          /\ pipeline' = NewPipeline /\ failures' = 0
      BY <1>2, <1>4 DEF PollHealth
    <2>3. OrchOK'
      BY <2>1, <2>2 DEF OrchOK, Ready, Down, Processes, ToldRightly
    <2>4. BudgetOK'
      BY <1>2, <2>2, NewBudget
    <2>5. NodeOK'
      BY <1>2, <2>2 DEF NodeOK
    <2>. QED BY <1>1, <2>3, <2>4, <2>5 DEF IInv
  <1>5. CASE ~healthy
    <2>1. /\ UNCHANGED <<orch, pipeline, failures>>
          /\ node' = IF node.polls + 1 = MaxPolls THEN NoNode ELSE [node EXCEPT !.polls = @ + 1]
      BY <1>5 DEF PollHealth, process
    <2>2. PICK k \in Nat : k = node.polls + 1
      BY <1>2
    <2>3. node' = NoNode \/ node' = [node EXCEPT !.polls = k]
      BY <1>2, <2>1, <2>2
    <2>4. /\ node' \in [st : {"none", "booting", "serving", "warned"}, polls : Nat,
                        inFlight : Nat]
          /\ node'.st \in {"none", "booting"}
      BY <1>2, <2>3 DEF NoNode
    <2>5. OrchOK'
      BY <1>2, <2>1, <2>4 DEF IInv, OrchOK
    <2>6. BudgetOK'
      BY <1>2, <2>1, Frames
    <2>7. NodeOK'
      BY <1>2, <2>4 DEF NodeOK
    <2>. QED BY <1>1, <2>5, <2>6, <2>7 DEF IInv
  <1>. QED BY <1>4, <1>5

\* What a process is to write next: a question or a stage.
LEMMA OutcomeOK ==
  ASSUME IInv, NEW o \in Processes, NEW to \in Stages \cup {"ask"}, o.runner \in Runners,
         ToldRightly(o, failures'), node.st \in {"serving", "warned"},
         orch' = Outcome(o, to), UNCHANGED node
  PROVE  OrchOK'
  <1>1. row.version \in Nat
    BY DEF IInv, RowOK
  <1>2. /\ orch' \in Processes /\ orch'.runner = o.runner /\ orch'.to = to
        /\ orch'.verdict = o.verdict /\ orch'.sound = o.sound
    BY <1>1 DEF Outcome, Processes
  <1>3. ToldRightly(orch, failures)'
    BY <1>2 DEF ToldRightly
  <1>. QED BY <1>2, <1>3, StagesDiffer DEF OrchOK

\* A batch of the implementation.
LEMMA ImplementStep == ASSUME IInv, Implement PROVE IInv'
  <1>1. RowOK' /\ BudgetOK' /\ NodeOK' /\ WatcherOK' /\ BoardOK'
    BY Frames DEF Implement, cell
  <1>2. PICK to \in {VERIFICATION, "ask"} : orch' = Outcome(orch, to)
    BY DEF Implement
  <1>3. OrchOK'
    BY <1>2, OutcomeOK, StagesDiffer DEF Implement, cell, IInv, OrchOK
  <1>. QED BY <1>1, <1>3 DEF IInv

\* The row is read again after the step.
LEMMA RereadStep == ASSUME IInv, Reread PROVE IInv'
  <1>1. RowOK' /\ BudgetOK' /\ NodeOK' /\ WatcherOK' /\ BoardOK'
    BY Frames DEF Reread, cell
  <1>2. row.version \in Nat /\ orch' = [orch EXCEPT !.pc = "write", !.version = row.version]
        /\ orch.pc = "reread" /\ UNCHANGED <<node, failures>>
    BY DEF IInv, RowOK, Reread, cell
  <1>3. /\ orch' \in Processes /\ orch'.runner = orch.runner /\ orch'.to = orch.to
        /\ orch'.verdict = orch.verdict /\ orch'.sound = orch.sound
    BY <1>2 DEF IInv, OrchOK, Processes
  <1>4. ToldRightly(orch, failures)'
    BY <1>2, <1>3 DEF IInv, OrchOK, ToldRightly
  <1>5. orch.to # "none" /\ orch.runner \in Runners /\ node.st \in {"serving", "warned"}
    BY <1>2 DEF IInv, OrchOK
  <1>6. OrchOK'
    BY <1>2, <1>3, <1>4, <1>5 DEF OrchOK
  <1>. QED BY <1>1, <1>6 DEF IInv

\* What one attempt makes of the pipeline and of its count n of failures: a
\* failure is a retry as long as the budget lasts, and escalated from then.
LEMMA AttemptUsesBudget ==
  ASSUME NEW p \in [used : Nat, attempts : Nat], p.used <= p.attempts, NEW n \in Nat,
         p.used = IF n <= MaxAttempts THEN n ELSE MaxAttempts,
         NEW results, NEW report, report = SubmitAttempt(p, results),
         NEW m \in Nat, m = IF report.eligible THEN n ELSE n + 1
  PROVE  /\ report.pipeline \in [used : Nat, attempts : Nat]
         /\ report.pipeline.used <= report.pipeline.attempts
         /\ report.pipeline.used = IF m <= MaxAttempts THEN m ELSE MaxAttempts
         /\ Verdict(report) \in {"eligible", "retry", "escalated"}
         /\ Verdict(report) = "eligible" => Eligible(results)
         /\ Verdict(report) = "retry" => m <= MaxAttempts
         /\ Verdict(report) = "escalated" => m > MaxAttempts
  <1> DEFINE eligible == Eligible(results)
             escalated == ~eligible /\ Exhausted(p)
  <1>1. /\ report.eligible = eligible /\ report.escalated = escalated
        /\ report.pipeline = [attempts |-> p.attempts + 1,
                              used |-> IF eligible \/ escalated THEN p.used ELSE p.used + 1]
    BY DEF SubmitAttempt
  <1>2. MaxAttempts \in Nat
    BY Attempts
  <1>3. Exhausted(p) <=> n >= MaxAttempts
    BY <1>2 DEF Exhausted
  <1>4. CASE eligible
    <2>1. report.eligible /\ Verdict(report) = "eligible"
      BY <1>1, <1>4 DEF Verdict
    <2>2. report.pipeline = [attempts |-> p.attempts + 1, used |-> p.used] /\ m = n
      BY <1>1, <1>4, <2>1
    <2>. QED BY <1>2, <1>4, <2>1, <2>2
  <1>5. CASE ~eligible /\ Exhausted(p)
    <2>1. ~report.eligible /\ report.escalated /\ Verdict(report) = "escalated"
      BY <1>1, <1>5 DEF Verdict
    <2>2. report.pipeline = [attempts |-> p.attempts + 1, used |-> p.used] /\ m = n + 1
      BY <1>1, <1>5, <2>1
    <2> HIDE DEF eligible, escalated
    <2>. QED BY <1>2, <1>3, <1>5, <2>1, <2>2
  <1>6. CASE ~eligible /\ ~Exhausted(p)
    <2>1. ~report.eligible /\ ~report.escalated /\ Verdict(report) = "retry"
      BY <1>1, <1>6 DEF Verdict
    <2>2. report.pipeline = [attempts |-> p.attempts + 1, used |-> p.used + 1] /\ m = n + 1
      BY <1>1, <1>6, <2>1
    <2> HIDE DEF eligible, escalated
    <2>. QED BY <1>2, <1>3, <1>6, <2>1, <2>2
  <1>. QED BY <1>4, <1>5, <1>6

\* A verification: sound when it is eligible, and a retry within the budget.
LEMMA VerifyStep ==
  ASSUME IInv, orch.pc # "down", NEW o \in Outcomes[orch.runner], Verify(o)
  PROVE  IInv'
  <1>1. RowOK' /\ NodeOK' /\ WatcherOK' /\ BoardOK'
    BY Frames DEF Verify
  <1>2. /\ orch.runner \in Runners /\ node.st \in {"serving", "warned"} /\ UNCHANGED cell
        /\ orch \in Processes
    BY DEF IInv, OrchOK, Verify
  <1>3. PICK c \in Changes :
          o = [layers |-> LayerResults(orch.runner, c),
               sound |-> ToolsRan(c) => Clean(orch.runner, c)]
    BY <1>2 DEF Outcomes
  <1>4. o.layers = LayerResults(orch.runner, c) /\ o.sound = (ToolsRan(c) => Clean(orch.runner, c))
    BY <1>3
  <1>5. o.sound \in BOOLEAN
    BY <1>4, Zenon
  <1>6. Eligible(o.layers) => o.sound = TRUE /\ orch.runner # "bare"
    <2>1. orch.runner \in {"two", "seven", "bare"} /\ IsChange(c)
      BY <1>2, TenantCellAssumption
    <2>2. Eligible(o.layers) => (ToolsRan(c) => Clean(orch.runner, c))
      BY <1>4, <2>1, EligibleIsClean, Zenon
    <2>3. Eligible(o.layers) => orch.runner # "bare"
      BY <1>4 DEF Eligible, LayerResults, LayersOf, LayerNames
    <2>. QED BY <1>4, <2>2, <2>3, Zenon
  <1>7. PICK report : report = SubmitAttempt(pipeline, o.layers)
    OBVIOUS
  <1>8. /\ pipeline' = report.pipeline
        /\ failures' = IF report.eligible THEN failures ELSE failures + 1
    BY <1>7 DEF Verify
  <1>9. /\ pipeline \in [used : Nat, attempts : Nat] /\ pipeline.used <= pipeline.attempts
        /\ failures \in Nat /\ requested \in 0..MaxNodes
        /\ pipeline.used = IF failures <= MaxAttempts THEN failures ELSE MaxAttempts
    BY DEF IInv, BudgetOK
  <1>10. PICK m \in Nat : m = failures' /\ m = IF report.eligible THEN failures ELSE failures + 1
    BY <1>8, <1>9
  <1>11. /\ report.pipeline \in [used : Nat, attempts : Nat]
         /\ report.pipeline.used <= report.pipeline.attempts
         /\ report.pipeline.used = IF m <= MaxAttempts THEN m ELSE MaxAttempts
         /\ Verdict(report) \in {"eligible", "retry", "escalated"}
         /\ Verdict(report) = "eligible" => Eligible(o.layers)
         /\ Verdict(report) = "retry" => m <= MaxAttempts
         /\ Verdict(report) = "escalated" => m > MaxAttempts
    BY <1>7, <1>9, <1>10, AttemptUsesBudget
  <1>12. PICK to \in Stages \cup {"ask"} :
           orch' = Outcome([orch EXCEPT !.verdict = Verdict(report), !.sound = o.sound], to)
    BY <1>7, StagesDiffer DEF Verify
  <1>13. BudgetOK'
    <2>1. requested' = requested
      BY <1>2 DEF cell
    <2>. QED BY <1>8, <1>9, <1>10, <1>11, <2>1 DEF BudgetOK
  <1>14. OrchOK'
    <2> DEFINE p == [orch EXCEPT !.verdict = Verdict(report), !.sound = o.sound]
    <2>1. /\ p \in Processes /\ p.runner = orch.runner
          /\ p.verdict = Verdict(report) /\ p.sound = o.sound
      BY <1>2, <1>5, <1>11 DEF Processes
    <2> HIDE DEF p
    <2>2. ToldRightly(p, failures')
      BY <1>6, <1>10, <1>11, <2>1 DEF ToldRightly
    <2>3. node' = node /\ p.runner \in Runners /\ orch' = Outcome(p, to)
      BY <1>2, <1>12, <2>1 DEF cell, p
    <2>. QED BY <1>2, <2>1, <2>2, <2>3, OutcomeOK
  <1>. QED BY <1>1, <1>13, <1>14 DEF IInv

\* The process after its write: ready for the next step.
LEMMA ReadyOK ==
  ASSUME IInv, orch.pc # "down", orch' = Ready(orch.runner), UNCHANGED node
  PROVE  OrchOK'
  BY DEF IInv, OrchOK, Ready, Down, Processes, ToldRightly

\* The process writes what it decided, or its version does not fit.
LEMMA WriteStep == ASSUME IInv, Write PROVE IInv'
  <1>1. /\ BudgetOK' /\ NodeOK' /\ WatcherOK' /\ UNCHANGED board
    BY Frames DEF Write, cell, warning
  <1>2. OrchOK'
    BY ReadyOK DEF Write, cell
  <1>3. orch.to \in Stages \cup {"ask"} /\ row.version < MaxRowVersion
    BY DEF Write, IInv, OrchOK, Processes
  <1>4. RowOK' /\ BoardOK'
    <2>1. CASE UNCHANGED registry
      BY <1>1, <2>1, Frames DEF registry
    <2>2. CASE WritePointer("pending")
      BY <1>1, <1>3, <2>2, PointerWritten
    <2>3. CASE orch.to # "ask" /\ WriteStage(orch.to)
      BY <1>1, <1>3, <2>3, StageWritten
    <2>. QED BY <2>1, <2>2, <2>3 DEF Write
  <1>. QED BY <1>1, <1>2, <1>4 DEF IInv

\* A person answers a question.
LEMMA AnswerStep == ASSUME IInv, AnswerQuestion PROVE IInv'
  <1>1. /\ OrchOK' /\ BudgetOK' /\ NodeOK' /\ WatcherOK'
    BY Frames DEF AnswerQuestion, process, cell, warning
  <1>2. RowOK' /\ BoardOK'
    BY PointerWritten DEF AnswerQuestion
  <1>. QED BY <1>1, <1>2 DEF IInv

\* A person requests changes.
LEMMA RequestChangesStep == ASSUME IInv, RequestChanges PROVE IInv'
  <1>1. /\ OrchOK' /\ BudgetOK' /\ NodeOK' /\ WatcherOK'
    BY Frames DEF RequestChanges, process, cell, warning
  <1>2. RowOK' /\ BoardOK'
    BY StageWritten, StagesDiffer DEF RequestChanges
  <1>. QED BY <1>1, <1>2 DEF IInv

\* The watcher's record, and its next step.
WatcherRecords ==
  [pc : {"idle", "cordon", "stop", "drain", "draining", "flush", "checkpoint", "over"},
   version : Nat, until : Nat, began : Nat, flushed : BOOLEAN, landed : BOOLEAN,
   result : {"none", "succeeded", "failed", "raised"}]

\* A step of the watcher that touches only its own record and the events.
LEMMA OwnStep ==
  ASSUME IInv, UNCHANGED <<registry, process, cell, clock, board>>
  PROVE  /\ RowOK' /\ OrchOK' /\ BudgetOK' /\ NodeOK' /\ BoardOK'
  BY Frames DEF process, cell

\* The warning: a new sequence, with no event yet.
LEMMA WarnStep == ASSUME IInv, NEW n \in InFlight, Warn(n) PROVE IInv'
  <1>1. RowOK' /\ BoardOK'
    BY Frames DEF Warn
  <1>2. /\ node' = [node EXCEPT !.st = "warned", !.polls = 0, !.inFlight = n] /\ n \in Nat
        /\ node.st = "serving" /\ UNCHANGED <<orch, pipeline, failures, requested>> /\ clock' = 0
    BY TenantCellAssumption DEF Warn, process
  <1>3. /\ node' \in [st : {"none", "booting", "serving", "warned"}, polls : Nat, inFlight : Nat]
        /\ node'.st = "warned"
    BY <1>2 DEF IInv, NodeOK
  <1>4. OrchOK'
    BY <1>2, <1>3 DEF IInv, OrchOK
  <1>5. BudgetOK'
    BY <1>2, <1>3 DEF IInv, BudgetOK
  <1>6. NodeOK'
    BY <1>2, <1>3 DEF NodeOK
  <1>7. WatcherOK'
    <2>1. row.version \in Nat /\ sink' = <<>> /\ lost' = lost
      BY DEF IInv, RowOK, Warn
    <2>2. watcher' \in WatcherRecords /\ watcher'.pc = "cordon"
      BY <2>1 DEF Warn, Calm, WatcherRecords
    <2>3. \A q \in lost : q[1] <= q[2]
      BY DEF IInv, WatcherOK
    <2>. QED BY <2>1, <2>2, <2>3 DEF WatcherOK, WatcherRecords, DrainFitsWindow
  <1>. QED BY <1>1, <1>4, <1>5, <1>6, <1>7 DEF IInv

\* Cordon, and the refusal of further requests.
LEMMA CordonOrStopStep == ASSUME IInv, CordonOrStop PROVE IInv'
  <1>1. /\ RowOK' /\ OrchOK' /\ BudgetOK' /\ NodeOK' /\ BoardOK'
    BY OwnStep DEF CordonOrStop
  <1>2. watcher \in WatcherRecords /\ sink = <<>> /\ \A q \in lost : q[1] <= q[2]
    BY DEF IInv, WatcherOK, CordonOrStop, WatcherRecords
  <1>3. watcher' \in WatcherRecords /\ watcher'.pc \in {"stop", "drain"}
    BY <1>2 DEF CordonOrStop, WatcherRecords
  <1>4. sink' = sink /\ lost' = lost
    BY DEF CordonOrStop
  <1>5. WatcherOK'
    BY <1>2, <1>3, <1>4 DEF WatcherOK, WatcherRecords, DrainFitsWindow
  <1>. QED BY <1>1, <1>5 DEF IInv

\* The drain begins with what is left of the window.
LEMMA StartDrainStep == ASSUME IInv, StartDrain PROVE IInv'
  <1>1. /\ RowOK' /\ OrchOK' /\ BudgetOK' /\ NodeOK' /\ BoardOK'
    BY OwnStep DEF StartDrain
  <1>2. watcher \in WatcherRecords /\ sink = <<>> /\ \A q \in lost : q[1] <= q[2]
    BY DEF IInv, WatcherOK, StartDrain, WatcherRecords
  <1>3. clock \in Nat /\ node.inFlight \in Nat /\ WarningWindow \in Nat
    BY TenantCellAssumption DEF IInv, NodeOK
  <1> DEFINE budget == RemainingBeforeDrain
  <1>4. budget \in Nat /\ clock + budget = IF clock > WarningWindow THEN clock ELSE WarningWindow
    BY <1>3 DEF RemainingBeforeDrain
  <1> HIDE DEF budget
  <1>5. PICK u \in Nat : u = clock + IF node.inFlight <= budget THEN node.inFlight ELSE budget
    BY <1>3, <1>4
  <1>6. u <= IF clock > WarningWindow THEN clock ELSE WarningWindow
    BY <1>3, <1>4, <1>5
  <1>7. watcher' = [watcher EXCEPT !.pc = "draining", !.began = clock, !.until = u]
    BY <1>5 DEF StartDrain, budget
  <1>8. /\ watcher' \in WatcherRecords /\ watcher'.pc = "draining"
        /\ watcher'.began = clock /\ watcher'.until = u
    BY <1>2, <1>3, <1>7 DEF WatcherRecords
  <1>9. sink' = sink /\ lost' = lost
    BY DEF StartDrain
  <1>10. DrainFitsWindow'
    BY <1>6, <1>8 DEF DrainFitsWindow
  <1>11. WatcherOK'
    BY <1>2, <1>8, <1>9, <1>10 DEF WatcherOK, WatcherRecords
  <1>. QED BY <1>1, <1>11 DEF IInv

\* The drain ends: nothing is in flight.
LEMMA EndDrainStep == ASSUME IInv, EndDrain PROVE IInv'
  <1>1. RowOK' /\ BoardOK'
    BY Frames DEF EndDrain
  <1>2. /\ node' = [node EXCEPT !.inFlight = 0]
        /\ UNCHANGED <<orch, pipeline, failures, requested, clock, sink, lost>>
    BY DEF EndDrain, process
  <1>3. /\ node' \in [st : {"none", "booting", "serving", "warned"}, polls : Nat, inFlight : Nat]
        /\ node'.st = node.st
    BY <1>2 DEF IInv, NodeOK
  <1>4. OrchOK'
    BY <1>2, <1>3 DEF IInv, OrchOK
  <1>5. BudgetOK'
    BY <1>2, <1>3 DEF IInv, BudgetOK
  <1>6. NodeOK'
    BY <1>2, <1>3 DEF IInv, NodeOK
  <1>7. WatcherOK'
    <2>1. /\ watcher \in WatcherRecords /\ sink = <<>> /\ \A q \in lost : q[1] <= q[2]
          /\ watcher.until <= (IF watcher.began > WarningWindow THEN watcher.began ELSE WarningWindow)
      BY DEF IInv, WatcherOK, EndDrain, WatcherRecords, DrainFitsWindow
    <2>2. /\ watcher' \in WatcherRecords /\ watcher'.pc = "flush"
          /\ watcher'.until = watcher.until /\ watcher'.began = watcher.began
      BY <2>1 DEF EndDrain, WatcherRecords
    <2>3. DrainFitsWindow'
      BY <2>1, <2>2 DEF DrainFitsWindow
    <2>. QED BY <1>2, <2>1, <2>2, <2>3 DEF WatcherOK, WatcherRecords
  <1>. QED BY <1>1, <1>4, <1>5, <1>6, <1>7 DEF IInv

\* The flush sends the first event.
LEMMA FlushStep == ASSUME IInv, NEW ok \in BOOLEAN, FlushObservability(ok) PROVE IInv'
  <1>1. /\ RowOK' /\ OrchOK' /\ BudgetOK' /\ NodeOK' /\ BoardOK'
    BY OwnStep DEF FlushObservability
  <1>2. /\ watcher \in WatcherRecords /\ sink = <<>> /\ \A q \in lost : q[1] <= q[2]
        /\ watcher.until <= (IF watcher.began > WarningWindow THEN watcher.began ELSE WarningWindow)
    BY DEF IInv, WatcherOK, FlushObservability, WatcherRecords, DrainFitsWindow
  <1>3. /\ watcher' \in WatcherRecords /\ watcher'.pc = "checkpoint"
        /\ watcher'.until = watcher.until /\ watcher'.began = watcher.began
    BY <1>2 DEF FlushObservability, WatcherRecords
  <1>4. sink' = <<"observability_flush">> /\ lost' = lost
    BY <1>2 DEF FlushObservability
  <1>5. DrainFitsWindow'
    BY <1>2, <1>3 DEF DrainFitsWindow
  <1>6. WatcherOK'
    BY <1>2, <1>3, <1>4, <1>5 DEF WatcherOK, WatcherRecords
  <1>. QED BY <1>1, <1>6 DEF IInv

\* The checkpoint: it lands only on the row of the warning, so that a
\* question it replaces is not newer than the warning.
LEMMA WriteCheckpointStep == ASSUME IInv, WriteCheckpoint PROVE IInv'
  <1>1. OrchOK' /\ BudgetOK' /\ NodeOK' /\ UNCHANGED board
    BY Frames DEF WriteCheckpoint, process, cell
  <1>2. RowOK' /\ BoardOK'
    <2>1. CASE WritePointer("interrupt")
      BY <1>1, <2>1, PointerWritten DEF WriteCheckpoint
    <2>2. CASE UNCHANGED registry
      BY <1>1, <2>2, Frames
    <2>. QED BY <2>1, <2>2 DEF WriteCheckpoint
  <1>3. /\ watcher \in WatcherRecords /\ sink = <<"observability_flush">>
        /\ \A q \in lost : q[1] <= q[2]
    BY DEF IInv, WatcherOK, WriteCheckpoint, WatcherRecords
  <1>4. sink' = <<"observability_flush", "checkpoint_write">>
    <2>1. sink' = Append(<<"observability_flush">>, "checkpoint_write")
      BY <1>3 DEF WriteCheckpoint
    <2> DEFINE Events == {"observability_flush", "checkpoint_write"}
               one == <<"observability_flush">>
               both == <<"observability_flush", "checkpoint_write">>
    <2>2. /\ one \in Seq(Events) /\ Len(one) = 1 /\ one[1] = "observability_flush"
          /\ both \in Seq(Events) /\ Len(both) = 2
          /\ both[1] = "observability_flush" /\ both[2] = "checkpoint_write"
      OBVIOUS
    <2> HIDE DEF one, both, Events
    <2>3. /\ sink' \in Seq(Events) /\ Len(sink') = 2
          /\ sink'[1] = "observability_flush" /\ sink'[2] = "checkpoint_write"
      BY <2>1, <2>2 DEF one, Events
    <2>4. \A i \in 1..Len(both) : sink'[i] = both[i]
      BY <2>2, <2>3
    <2>5. sink' = both
      BY <2>2, <2>3, <2>4, SeqEqual
    <2>. QED BY <2>5 DEF both
  <1>5. PICK b \in BOOLEAN, r \in {"succeeded", "failed"} :
          watcher' = [watcher EXCEPT !.pc = "over", !.landed = b, !.result = r]
    BY DEF WriteCheckpoint, Fits
  <1>6. watcher' \in WatcherRecords /\ watcher'.pc = "over"
    BY <1>3, <1>5 DEF WatcherRecords
  <1>7. \/ lost' = lost
        \/ Fits(watcher.version) /\ lost' = lost \cup {<<row.pointer.at, watcher.version>>}
    BY DEF WriteCheckpoint
  <1>8. \A q \in lost' : q[1] <= q[2]
    <2>1. Fits(watcher.version) => row.pointer.at <= watcher.version
      BY DEF IInv, RowOK, Fits
    <2>. QED BY <1>3, <1>7, <2>1
  <1>9. WatcherOK'
    BY <1>4, <1>6, <1>8 DEF WatcherOK, WatcherRecords, DrainFitsWindow
  <1>. QED BY <1>1, <1>2, <1>9 DEF IInv

\* A step of the client raises.
LEMMA StepRaisesStep == ASSUME IInv, StepRaises PROVE IInv'
  <1>1. /\ RowOK' /\ OrchOK' /\ BudgetOK' /\ NodeOK' /\ BoardOK'
    BY OwnStep DEF StepRaises
  <1>2. watcher \in WatcherRecords /\ \A q \in lost : q[1] <= q[2]
    BY DEF IInv, WatcherOK, WatcherRecords
  <1>3. watcher' \in WatcherRecords /\ watcher'.pc = "over" /\ watcher'.result = "raised"
    BY <1>2 DEF StepRaises, WatcherRecords
  <1>4. sink' = sink /\ lost' = lost
    BY DEF StepRaises
  <1>5. WatcherOK'
    BY <1>2, <1>3, <1>4 DEF WatcherOK, WatcherRecords, DrainFitsWindow
  <1>. QED BY <1>1, <1>5 DEF IInv

\* Time passes.
LEMMA TickStep == ASSUME IInv, PassTime PROVE IInv'
  <1>1. /\ RowOK' /\ OrchOK' /\ BudgetOK' /\ WatcherOK' /\ BoardOK'
    BY Frames DEF PassTime, process, cell
  <1>2. NodeOK'
    BY DEF IInv, NodeOK, PassTime, cell
  <1>. QED BY <1>1, <1>2 DEF IInv

\* The node goes, and the process and the watcher on it.
LEMMA ReclaimStep == ASSUME IInv, Reclaim PROVE IInv'
  <1>1. RowOK' /\ BoardOK'
    BY Frames DEF Reclaim
  <1>2. /\ node' = NoNode /\ orch' = Down /\ pipeline' = NewPipeline /\ failures' = 0
        /\ clock' = 0 /\ watcher' = Calm /\ UNCHANGED <<requested, lost>>
    BY DEF Reclaim
  <1>3. OrchOK'
    BY <1>2 DEF OrchOK, Down, Processes, ToldRightly
  <1>4. NodeOK'
    BY <1>2 DEF NodeOK, NoNode
  <1>5. BudgetOK'
    BY <1>2, NewBudget DEF IInv, BudgetOK
  <1>6. WatcherOK'
    BY <1>2 DEF IInv, WatcherOK, Calm, DrainFitsWindow
  <1>. QED BY <1>1, <1>3, <1>4, <1>5, <1>6 DEF IInv

\* A request thread reads the row.
LEMMA FetchRunsStep == ASSUME IInv, NEW p \in Pollers, NEW scope, FetchRuns(p, scope) PROVE IInv'
  <1>1. /\ RowOK' /\ OrchOK' /\ BudgetOK' /\ NodeOK' /\ WatcherOK'
        /\ UNCHANGED <<row, returned, seenBy>>
    BY Frames DEF FetchRuns, process, cell, registry
  <1>2. fetched' = [fetched EXCEPT ![p] = row] /\ fetched \in [Pollers -> Reads]
    BY DEF FetchRuns, IInv, BoardOK, FetchedOK
  <1>3. /\ row \in [version : Nat \ {0}, stage : Stages, pointer : Pointers]
        /\ row.version \in Nat \ {0} /\ row.pointer.nth \in Nat
        /\ row.pointer.kind # "none" => row.pointer.nth > 0
    BY TenantCellAssumption DEF IInv, RowOK, Pointers
  <1>4. /\ fetched' \in [Pollers -> Reads] /\ fetched'[p] = row
        /\ \A q \in Pollers : q # p => fetched'[q] = fetched[q]
    BY <1>2, <1>3 DEF Reads
  <1>5. ReadOf(row, row, returned)
    BY <1>3 DEF ReadOf, Follows
  <1>6. Follows(returned, seenBy, row) /\ Follows(returned, row, row)
    BY <1>5 DEF IInv, BoardOK, SeenOK, ReadOf
  <1>7. \A q \in Pollers : Follows(returned, fetched[q], row) /\ Follows(returned, row, fetched[q])
    <2> SUFFICES ASSUME NEW q \in Pollers
                 PROVE  Follows(returned, fetched[q], row) /\ Follows(returned, row, fetched[q])
      OBVIOUS
    <2>1. ReadOf(fetched[q], row, returned)
      BY DEF IInv, BoardOK, FetchedOK
    <2>2. fetched[q].version \in Nat
      BY <1>2 DEF Reads, NoRead
    <2>3. Follows(returned, row, fetched[q])
      BY <1>3, <2>1, <2>2 DEF ReadOf, Follows
    <2>. QED BY <2>1, <2>3 DEF ReadOf
  <1>8. FetchedOK'
    <2>1. \A q \in Pollers : /\ ReadOf(fetched'[q], row, returned)
                            /\ Follows(returned, seenBy, fetched'[q])
      BY <1>4, <1>5, <1>6 DEF IInv, BoardOK, FetchedOK
    <2>2. \A q, t \in Pollers : Follows(returned, fetched'[q], fetched'[t])
      BY <1>4, <1>6, <1>7 DEF IInv, BoardOK, FetchedOK
    <2>. QED BY <1>1, <1>4, <2>1, <2>2 DEF FetchedOK
  <1>9. SeenOK'
    BY <1>1 DEF IInv, BoardOK, SeenOK
  <1>. QED BY <1>1, <1>8, <1>9 DEF IInv, BoardOK

\* What a read that overtook none makes of an observation in order: the badge
\* only for a run that came back, a pointer that is new counted once.
LEMMA ObservedInOrder ==
  ASSUME NEW o \in Observations, NEW ret, Kept(o, ret), o.version > 0,
         o.badge = "bounced" => o.stage = IMPLEMENTATION,
         NEW a \in Reads, a.version >= o.version, Follows(ret, o, a),
         ret \in [failed : Nat, review : Nat]
  PROVE  /\ o.since <= a.version
         /\ (IF IsNew(a.pointer, o) THEN o.count + 1 ELSE o.count) <= a.pointer.nth
         /\ Bounced(o, a) => CameBack(ret, o.since)
  <1>1. /\ o.version \in Nat /\ o.since \in Nat /\ o.count \in Nat /\ o.pointer.nth \in Nat
        /\ o.since <= o.version /\ o.count <= o.pointer.nth
    BY DEF Observations, Pointers, Kept
  <1>2. a.version \in Nat /\ a.pointer.nth \in Nat
    BY DEF Reads, NoRead, NoPointer, Pointers
  <1>3. /\ o.stage # IMPLEMENTATION /\ a.stage = IMPLEMENTATION => CameBack(ret, o.version)
        /\ o.pointer.nth <= a.pointer.nth
        /\ o.pointer.nth = a.pointer.nth => o.pointer = a.pointer
    BY <1>1, <1>2 DEF Follows
  <1>4. CameBack(ret, o.version) => CameBack(ret, o.since)
    BY <1>1 DEF CameBack
  <1>5. Bounced(o, a) => CameBack(ret, o.since)
    <2>1. CASE o.badge = "bounced"
      BY <2>1 DEF Kept
    <2>2. CASE o.badge # "bounced"
      <3>1. Bounced(o, a) => a.stage = IMPLEMENTATION /\ o.stage = VERIFICATION
        BY <2>2 DEF Bounced
      <3>. QED BY <1>3, <1>4, <3>1, StagesDiffer
    <2>. QED BY <2>1, <2>2
  <1>6. (IF IsNew(a.pointer, o) THEN o.count + 1 ELSE o.count) <= a.pointer.nth
    <2>1. IsNew(a.pointer, o) => o.pointer.nth < a.pointer.nth
      BY <1>1, <1>2, <1>3 DEF IsNew
    <2>. QED BY <1>1, <1>2, <1>3, <2>1
  <1>. QED BY <1>1, <1>2, <1>5, <1>6

\* The observation of what a request thread has read.
LEMMA ObserveStep == ASSUME IInv, NEW p \in Pollers, Observe(p) PROVE IInv'
  <1>1. /\ RowOK' /\ OrchOK' /\ BudgetOK' /\ NodeOK' /\ WatcherOK' /\ UNCHANGED <<row, returned>>
    BY Frames DEF Observe, process, cell, registry
  <1>2. PICK a : a = fetched[p]
    OBVIOUS
  <1>3. /\ fetched \in [Pollers -> Reads] /\ a # NoRead /\ a \in Reads
        /\ a \in [version : Nat \ {0}, stage : Stages, pointer : Pointers]
        /\ ReadOf(a, row, returned) /\ Follows(returned, seenBy, a)
        /\ fetched' = [fetched EXCEPT ![p] = NoRead]
    BY <1>2 DEF IInv, BoardOK, FetchedOK, Observe, Reads
  <1>4. /\ seenBy \in Observations /\ (seenBy.version = 0 => seenBy = Unseen)
        /\ seenBy.badge = "bounced" => seenBy.stage = IMPLEMENTATION
        /\ seenBy.order = "kept" => Kept(seenBy, returned)
        /\ returned \in [failed : Nat, review : Nat]
    BY DEF IInv, BoardOK, SeenOK, RowOK
  <1> DEFINE first == seenBy.version = 0
  <1>5. PICK k \in Nat : k = IF IsNew(a.pointer, seenBy) THEN seenBy.count + 1 ELSE seenBy.count
    BY <1>4 DEF Observations
  <1>6. PICK b \in {"none", "bounced"} :
          b = IF ~first /\ Bounced(seenBy, a) THEN "bounced" ELSE "none"
    OBVIOUS
  <1>7. PICK v \in Nat : v = IF first THEN a.version ELSE seenBy.since
    BY <1>3, <1>4 DEF Observations
  <1>8. PICK r \in {"kept", "overtaken"} :
          r = IF a.version < seenBy.version THEN "overtaken" ELSE seenBy.order
    BY <1>4 DEF Observations
  <1>9. seenBy' = [version |-> a.version, stage |-> a.stage, pointer |-> a.pointer, count |-> k,
                   badge |-> b, since |-> v, order |-> r]
    BY <1>2, <1>5, <1>6, <1>7, <1>8 DEF Observe
  <1>10. /\ seenBy' \in Observations /\ seenBy'.version = a.version /\ seenBy'.version # 0
         /\ seenBy'.stage = a.stage /\ seenBy'.pointer = a.pointer /\ seenBy'.count = k
         /\ seenBy'.badge = b /\ seenBy'.since = v /\ seenBy'.order = r
    BY <1>3, <1>9 DEF Observations
  <1>11. ReadOf(seenBy', row', returned')
    BY <1>1, <1>3, <1>10 DEF ReadOf, Follows
  <1>12. b = "bounced" => a.stage = IMPLEMENTATION
    BY <1>4, <1>6 DEF Bounced
  <1>13. r = "kept" => v <= a.version /\ k <= a.pointer.nth
                       /\ (b = "bounced" => CameBack(returned, v))
    <2> SUFFICES ASSUME r = "kept"
                 PROVE  /\ v <= a.version /\ k <= a.pointer.nth
                        /\ b = "bounced" => CameBack(returned, v)
      OBVIOUS
    <2>1. ~(a.version < seenBy.version) /\ seenBy.order = "kept" /\ Kept(seenBy, returned)
      BY <1>4, <1>8
    <2>2. a.version \in Nat /\ seenBy.version \in Nat /\ a.version >= seenBy.version
      BY <1>3, <1>4, <2>1 DEF Observations
    <2>3. CASE first
      <3>1. seenBy.count = 0 /\ seenBy = Unseen
        BY <1>4, <2>3 DEF Unseen
      <3>2. k <= a.pointer.nth
        <4>1. a.pointer.kind # "none" => a.pointer.nth > 0
          BY <1>3 DEF ReadOf
        <4>2. a.pointer.nth \in Nat
          BY <1>3 DEF Pointers
        <4>. QED BY <1>5, <3>1, <4>1, <4>2 DEF IsNew
      <3>3. b = "none" /\ v = a.version
        BY <1>6, <1>7, <2>3
      <3>. QED BY <2>2, <3>2, <3>3
    <2>4. CASE ~first
      <3>1. seenBy.version > 0
        BY <2>2, <2>4
      <3>2. /\ seenBy.since <= a.version
            /\ (IF IsNew(a.pointer, seenBy) THEN seenBy.count + 1 ELSE seenBy.count)
                 <= a.pointer.nth
            /\ Bounced(seenBy, a) => CameBack(returned, seenBy.since)
        BY <1>3, <1>4, <2>1, <2>2, <3>1, ObservedInOrder
      <3>. QED BY <1>5, <1>6, <1>7, <2>4, <3>2
    <2>. QED BY <2>3, <2>4
  <1>14. SeenOK'
    BY <1>1, <1>10, <1>11, <1>12, <1>13 DEF SeenOK, Kept
  <1>15. /\ fetched' \in [Pollers -> Reads] /\ fetched'[p] = NoRead
         /\ \A q \in Pollers : q # p => fetched'[q] = fetched[q]
    BY <1>3 DEF Reads
  <1>16. /\ NoRead.version = 0 /\ NoRead.pointer.kind = "none"
         /\ row.version \in Nat /\ row.version > 0
    BY TenantCellAssumption DEF NoRead, NoPointer, IInv, RowOK
  <1>17. \A q \in Pollers : /\ ReadOf(fetched'[q], row, returned)
                            /\ Follows(returned, a, fetched'[q])
    <2> SUFFICES ASSUME NEW q \in Pollers
                 PROVE  ReadOf(fetched'[q], row, returned) /\ Follows(returned, a, fetched'[q])
      OBVIOUS
    <2>1. CASE q = p
      BY <1>3, <1>15, <1>16, <2>1 DEF ReadOf, Follows
    <2>2. CASE q # p
      BY <1>2, <1>15, <2>2 DEF IInv, BoardOK, FetchedOK
    <2>. QED BY <2>1, <2>2
  <1>18. \A q \in Pollers : Follows(returned, seenBy', fetched'[q])
    BY <1>10, <1>17 DEF Follows
  <1>19. \A q, t \in Pollers : Follows(returned, fetched'[q], fetched'[t])
    <2> SUFFICES ASSUME NEW q \in Pollers, NEW t \in Pollers
                 PROVE  Follows(returned, fetched'[q], fetched'[t])
      OBVIOUS
    <2>1. CASE q = p
      BY <1>15, <1>16, <2>1 DEF Follows
    <2>2. CASE q # p /\ t = p
      <3>1. fetched[q].version \in Nat
        BY <1>3 DEF Reads, NoRead
      <3>. QED BY <1>15, <1>16, <2>2, <3>1 DEF Follows
    <2>3. CASE q # p /\ t # p
      BY <1>15, <2>3 DEF IInv, BoardOK, FetchedOK
    <2>. QED BY <2>1, <2>2, <2>3
  <1>20. FetchedOK'
    BY <1>1, <1>15, <1>17, <1>18, <1>19 DEF FetchedOK
  <1>. QED BY <1>1, <1>14, <1>20 DEF IInv, BoardOK

\* The dashboard is restarted: nothing is known of the run.
LEMMA ForgetStep == ASSUME IInv, Forget PROVE IInv'
  <1>1. /\ RowOK' /\ OrchOK' /\ BudgetOK' /\ NodeOK' /\ WatcherOK' /\ UNCHANGED <<row, returned>>
    BY Frames DEF Forget, process, cell, registry
  <1>2. NoPointer \in Pointers /\ NoPointer.kind = "none" /\ NoPointer.nth = 0
        /\ row.version \in Nat /\ row.version > 0
    BY TenantCellAssumption DEF NoPointer, Pointers, IInv, RowOK
  <1>3. SeenOK'
    <2>1. seenBy' = Unseen /\ Unseen \in Observations
      BY <1>2 DEF Forget, Unseen, Observations
    <2>2. /\ Unseen.version = 0 /\ Unseen.pointer = NoPointer /\ Unseen.badge = "none"
          /\ Unseen.since = 0 /\ Unseen.count = 0
      BY DEF Unseen
    <2>. QED BY <1>1, <1>2, <2>1, <2>2 DEF SeenOK, ReadOf, Follows, Kept
  <1>4. FetchedOK'
    <2>1. fetched' = [p \in Pollers |-> NoRead] /\ seenBy'.version = 0
      BY DEF Forget, Unseen
    <2>2. NoRead.version = 0 /\ NoRead.pointer = NoPointer
      BY DEF NoRead
    <2>3. fetched' \in [Pollers -> Reads] /\ \A p \in Pollers : fetched'[p] = NoRead
      BY <2>1 DEF Reads
    <2>. QED BY <1>1, <1>2, <2>1, <2>2, <2>3 DEF FetchedOK, ReadOf, Follows
  <1>. QED BY <1>1, <1>3, <1>4 DEF IInv, BoardOK

\* Every step keeps the invariant.
LEMMA NextIInv == IInv /\ [CellNext]_cellVars => IInv'
  <1> SUFFICES ASSUME IInv, [CellNext]_cellVars PROVE IInv'
    OBVIOUS
  <1>1. CASE RequestNode
    BY <1>1, RequestNodeStep
  <1>2. CASE \E healthy \in BOOLEAN : PollHealth(healthy)
    BY <1>2, PollHealthStep
  <1>3. CASE Implement
    BY <1>3, ImplementStep
  <1>4. CASE orch.pc # "down" /\ \E o \in Outcomes[orch.runner] : Verify(o)
    BY <1>4, VerifyStep
  <1>5. CASE Reread
    BY <1>5, RereadStep
  <1>6. CASE Write
    BY <1>6, WriteStep
  <1>7. CASE AnswerQuestion
    BY <1>7, AnswerStep
  <1>8. CASE RequestChanges
    BY <1>8, RequestChangesStep
  <1>9. CASE \E n \in InFlight : Warn(n)
    BY <1>9, WarnStep
  <1>10. CASE CordonOrStop
    BY <1>10, CordonOrStopStep
  <1>11. CASE StartDrain
    BY <1>11, StartDrainStep
  <1>12. CASE EndDrain
    BY <1>12, EndDrainStep
  <1>13. CASE \E ok \in BOOLEAN : FlushObservability(ok)
    BY <1>13, FlushStep
  <1>14. CASE WriteCheckpoint
    BY <1>14, WriteCheckpointStep
  <1>15. CASE StepRaises
    BY <1>15, StepRaisesStep
  <1>16. CASE PassTime
    BY <1>16, TickStep
  <1>17. CASE Reclaim
    BY <1>17, ReclaimStep
  <1>18. CASE \E p \in Pollers : (\E scope \in Scopes : FetchRuns(p, scope)) \/ Observe(p)
    BY <1>18, FetchRunsStep, ObserveStep
  <1>19. CASE Forget
    BY <1>19, ForgetStep
  <1>20. CASE UNCHANGED cellVars
    BY <1>20, Frames DEF cellVars, registry, cell, warning, board, IInv
  <1>. QED
    BY <1>1, <1>2, <1>3, <1>4, <1>5, <1>6, <1>7, <1>8, <1>9, <1>10, <1>11, <1>12, <1>13, <1>14,
       <1>15, <1>16, <1>17, <1>18, <1>19, <1>20, Zenon DEF CellNext

-----------------------------------------------------------------------------
(* The theorems.                                                           *)

\* The invariant holds: a pointer is never newer than its row, a process's
\* first failures use up its retry budget, the events are those of the
\* watcher's step, and whatever two request threads of the dashboard have
\* read, the later read shows what happened since the earlier one.
THEOREM CellInvariant == CellSpec => []IInv
  <1>. QED BY InitIInv, NextIInv, PTL DEF CellSpec

\* For every window and every order of warnings, questions and answers, a
\* question asked while the watcher runs is not replaced by its checkpoint,
\* and a sequence that ends has flushed before it wrote
\* (interruption_watcher.py:190-215).
THEOREM QuestionsOutlive == CellSpec => []QuestionsOutliveRaces
  <1>1. IInv => QuestionsOutliveRaces
    <2> SUFFICES ASSUME IInv PROVE QuestionsOutliveRaces
      OBVIOUS
    <2>1. pipeline.used \in 0..4
      BY Attempts DEF IInv, BudgetOK
    <2>2. CellTypeOK
      BY <2>1 DEF IInv, RowOK, OrchOK, BudgetOK, NodeOK, WatcherOK, Stages, Processes,
               CellTypeOK
    <2>. QED BY <2>2 DEF IInv, WatcherOK, QuestionsOutliveRaces
  <1>. QED BY <1>1, CellInvariant, PTL

\* For every window and every number of requests in flight, the drain ends
\* inside the window (interruption_watcher.py:161-165).
THEOREM DrainInWindow == CellSpec => []DrainFitsWindow
  <1>1. IInv => DrainFitsWindow
    BY DEF IInv, WatcherOK
  <1>. QED BY <1>1, CellInvariant, PTL

\* For every set of changes, every budget and every number of nodes: what is
\* reported eligible has no layer left out and, if the tools ran, is clean;
\* a process is told to retry for its first failures, as many as the budget
\* has, and that the attempt is escalated for all that follow, although the
\* drive loop goes on (report.py:21-44, pipeline.py:45-58).
THEOREM SoundVerdicts == CellSpec => []VerdictsAreSound
  <1>1. IInv => VerdictsAreSound
    <2> SUFFICES ASSUME IInv PROVE VerdictsAreSound
      OBVIOUS
    <2>1. /\ pipeline.used \in Nat /\ pipeline.used <= pipeline.attempts /\ failures \in Nat
          /\ pipeline.used = IF failures <= MaxAttempts THEN failures ELSE MaxAttempts
      BY DEF IInv, BudgetOK
    <2>2. pipeline.used <= MaxAttempts
      BY <2>1, Attempts
    <2>3. ToldRightly(orch, failures)
      BY DEF IInv, OrchOK
    <2>4. orch.verdict = "eligible" => orch.sound
      BY <2>3, Zenon DEF ToldRightly
    <2>. QED BY <2>1, <2>2, <2>3, <2>4 DEF VerdictsAreSound, ToldRightly
  <1>. QED BY <1>1, CellInvariant, PTL

\* For any number of request threads and every order of their reads and
\* observations, restarts and writes: the badge is shown on runs in
\* development, and as long as no read was overtaken by a later one, only on
\* one that came back since the watching began; and the count is not above
\* what was written (poll_state.py:101-134, dashboard_service.py:152-165).
THEOREM TrueBoard == CellSpec => []BoardIsTrue
  <1>1. IInv => BoardIsTrue
    <2> SUFFICES ASSUME IInv PROVE BoardIsTrue
      OBVIOUS
    <2>1. ASSUME seenBy.order = "kept" PROVE seenBy.count <= row.pointer.nth
      <3>1. /\ seenBy.count \in Nat /\ seenBy.pointer.nth \in Nat /\ row.pointer.nth \in Nat
            /\ seenBy.version \in Nat
        BY DEF IInv, BoardOK, SeenOK, RowOK, Observations, Pointers
      <3>2. seenBy.count <= seenBy.pointer.nth
        BY <2>1 DEF IInv, BoardOK, SeenOK, Kept
      <3>3. CASE seenBy.version = 0
        BY <3>1, <3>3 DEF IInv, BoardOK, SeenOK, Unseen
      <3>4. CASE seenBy.version > 0
        <4>1. seenBy.pointer.nth <= row.pointer.nth
          BY <3>4 DEF IInv, BoardOK, SeenOK, ReadOf, Follows
        <4>. QED BY <3>1, <3>2, <4>1
      <3>. QED BY <3>1, <3>3, <3>4
    <2>. QED BY <2>1 DEF IInv, BoardOK, SeenOK, Kept, CameBack, BoardIsTrue
  <1>. QED BY <1>1, CellInvariant, PTL

-----------------------------------------------------------------------------
(* The releases of the platform (PlatformRelease).                         *)

Contents == {"good", "bad"}

MgrType ==
  [pc : {"down", "ready", "apply", "append", "completed", "pin"},
   hist : Seq(Versions), pins : SUBSET (ModuleVersions \X Contents),
   v : Versions \cup ModuleVersions \cup {NoVersion}, from : Versions \cup {NoVersion},
   id : Nat, seen : Contents \cup {"none"}]

AppliedType == [v : Versions, from : Versions \cup {NoVersion}, id : Nat]

Shape ==
  /\ mgr \in [Managers -> MgrType]
  /\ historyFile \in Seq(Versions) \cup {<<"torn">>}
  /\ pinsFile = {"torn"} \/ pinsFile \in SUBSET (ModuleVersions \X Contents)
  /\ deployed \in Versions \cup {NoVersion} /\ applied \in Seq(AppliedType)
  /\ dir \in Contents /\ cells \subseteq ModuleVersions
  /\ disturbed \in BOOLEAN /\ releaseOps \in Nat

-----------------------------------------------------------------------------
(* The inductive invariant.  What it says of a manager is said with the    *)
(* deployments, the audit log, the validated versions and the number of    *)
(* operations as parameters, since only these grow under other managers.   *)

WasDeployed(A) == {A[i].v : i \in DOMAIN A}

Ran(hist, A) == \A k \in DOMAIN hist : hist[k] \in WasDeployed(A)

\* V: the contents that were validated, or pinned after an edit (Pinnable).
PinsOK(pins, V) == \A p \in pins : p \in V

\* Operation n was announced, and not with a failing report.
Announced(U, n) ==
  /\ \E e \in U : e[2] = n /\ e[1] \in {"release_started", "rollback_started"}
  /\ <<"release_ci_failed", n>> \notin U

MgrOK(r, A, U, V, n) ==
  /\ Ran(r.hist, A) /\ PinsOK(r.pins, V)
  /\ r.pc \in {"down", "ready"} => r.from = NoVersion
  /\ r.pc \in {"apply", "append"} => r.v \in Versions /\ r.id \in 1..n /\ Announced(U, r.id)
  /\ r.pc = "apply" /\ r.from # NoVersion => r.v \in WasDeployed(A)
  /\ r.pc = "append" => r.v \in WasDeployed(A)
  /\ r.pc = "pin" => <<r.v, r.seen>> \in V /\ r.v \in ModuleVersions

Pinnable == validated \cup moved

FilesOK ==
  /\ historyFile # <<"torn">> => Ran(historyFile, applied)
  /\ pinsFile # {"torn"} => PinsOK(pinsFile, Pinnable)

\* A deployment was announced; one by a rollback was there before.
AppliedOK(A, U, n) ==
  \A i \in DOMAIN A :
    /\ A[i].id \in 1..n /\ Announced(U, A[i].id)
    /\ A[i].from # NoVersion => \E j \in 1..(i - 1) : A[j].v = A[i].v

\* Numbers of operations to come are not in the log.
AuditOK == \A n \in Nat : <<"release_ci_failed", n>> \in audit => n <= releaseOps

Ends(hist, v) == IF hist = <<>> THEN v = NoVersion ELSE Last(hist) = v

\* Without disturbance at most one manager is between an apply and its record,
\* and the record it will make is of what is deployed.
AgreeOK ==
  ~disturbed =>
    /\ \A m, n \in Managers : mgr[m].pc = "append" /\ mgr[n].pc = "append" => m = n
    /\ \A m \in Managers : mgr[m].pc = "append" => deployed = mgr[m].v
    /\ (\A m \in Managers : mgr[m].pc # "append") => Ends(historyFile, deployed)

WasValidated(v) == \E p \in validated : p[1] = v

CellsOK ==
  /\ \A v \in cells : WasValidated(v)
  /\ \A p \in moved : WasValidated(p[1])
  /\ \A s \in splits :
       s.router \in Routers /\ s.to = {i \in Identifiers : Route(i, s.router)}

ReleaseInv ==
  /\ Shape
  /\ \A m \in Managers : MgrOK(mgr[m], applied, audit, Pinnable, releaseOps)
  /\ FilesOK /\ AppliedOK(applied, audit, releaseOps) /\ AuditOK /\ AgreeOK /\ CellsOK

-----------------------------------------------------------------------------
(* Lemmas.                                                                 *)

\* What holds of a manager holds while deployments, announcements and validated
\* versions are only added.
LEMMA MgrStays ==
  ASSUME NEW A, NEW B, NEW U, NEW W, NEW V, NEW X, NEW n \in Nat, NEW k \in Nat,
         WasDeployed(A) \subseteq WasDeployed(B), V \subseteq X, n <= k,
         \A i \in 1..n : Announced(U, i) => Announced(W, i),
         NEW r \in MgrType, MgrOK(r, A, U, V, n)
  PROVE  MgrOK(r, B, W, X, k)
  <1>1. Ran(r.hist, B) /\ PinsOK(r.pins, X)
    BY DEF MgrOK, Ran, PinsOK
  <1>2. ASSUME r.pc \in {"apply", "append"}
        PROVE  r.v \in Versions /\ r.id \in 1..k /\ Announced(W, r.id)
    <2>1. r.v \in Versions /\ r.id \in 1..n /\ Announced(U, r.id)
      BY <1>2 DEF MgrOK
    <2>. QED BY <2>1
  <1>. QED BY <1>1, <1>2 DEF MgrOK

\* The initial state.
LEMMA InitReleaseInv == ReleaseInit => ReleaseInv
  <1> SUFFICES ASSUME ReleaseInit PROVE ReleaseInv
    OBVIOUS
  <1>1. NotRunning \in MgrType
    BY DEF NotRunning, MgrType
  <1>2. Shape
    <2>1. mgr \in [Managers -> MgrType]
      BY <1>1 DEF ReleaseInit
    <2>2. historyFile \in Seq(Versions) /\ applied \in Seq(AppliedType)
      BY DEF ReleaseInit
    <2>3. disturbed \in BOOLEAN
      BY DEF ReleaseInit
    <2>4. /\ deployed \in Versions \cup {NoVersion} /\ releaseOps \in Nat
          /\ pinsFile \in SUBSET (ModuleVersions \X Contents)
          /\ dir \in Contents /\ cells \subseteq ModuleVersions
      BY DEF ReleaseInit, Contents
    <2>. QED BY <2>1, <2>2, <2>3, <2>4 DEF Shape
  <1>3. \A m \in Managers : MgrOK(mgr[m], applied, audit, Pinnable, releaseOps)
    BY DEF ReleaseInit, NotRunning, MgrOK, Ran, PinsOK
  <1>4. FilesOK /\ AppliedOK(applied, audit, releaseOps) /\ AuditOK /\ CellsOK
    BY DEF ReleaseInit, FilesOK, AppliedOK, AuditOK, CellsOK, Ran, PinsOK
  <1>5. AgreeOK
    BY DEF ReleaseInit, AgreeOK, NotRunning, Ends
  <1>. QED BY <1>2, <1>3, <1>4, <1>5 DEF ReleaseInv

\* A step that changes the record of one manager, to r.
Sets(m, r) == r \in MgrType /\ mgr' = [mgr EXCEPT ![m] = r]

\* A step of one manager: the other managers keep what they rely on.
LEMMA OneMoves ==
  ASSUME ReleaseInv, NEW m \in Managers, NEW r, Sets(m, r), releaseOps' \in Nat, releaseOps <= releaseOps',
         WasDeployed(applied) \subseteq WasDeployed(applied'), Pinnable \subseteq Pinnable',
         \A i \in 1..releaseOps : Announced(audit, i) => Announced(audit', i),
         MgrOK(r, applied', audit', Pinnable', releaseOps')
  PROVE  /\ mgr' \in [Managers -> MgrType]
         /\ mgr'[m] = r /\ \A x \in Managers : x # m => mgr'[x] = mgr[x]
         /\ \A x \in Managers : MgrOK(mgr'[x], applied', audit', Pinnable', releaseOps')
  <1>1. mgr \in [Managers -> MgrType] /\ releaseOps \in Nat
    BY DEF ReleaseInv, Shape
  <1>2. /\ mgr' \in [Managers -> MgrType]
        /\ mgr'[m] = r /\ \A x \in Managers : x # m => mgr'[x] = mgr[x]
    BY <1>1 DEF Sets
  <1>3. ASSUME NEW x \in Managers, x # m
        PROVE  MgrOK(mgr'[x], applied', audit', Pinnable', releaseOps')
    <2>1. mgr[x] \in MgrType /\ MgrOK(mgr[x], applied, audit, Pinnable, releaseOps)
      BY <1>1 DEF ReleaseInv
    <2>2. MgrOK(mgr[x], applied', audit', Pinnable', releaseOps')
      BY <1>1, <2>1, MgrStays
    <2>. QED BY <2>2, <1>2, <1>3
  <1>. QED BY <1>2, <1>3

\* What a manager does before and after the window between an apply and its record.
LEMMA AgreeStays ==
  ASSUME ReleaseInv, NEW m \in Managers, NEW r, Sets(m, r),
         mgr[m].pc # "append", r.pc # "append",
         UNCHANGED <<historyFile, deployed, disturbed>>
  PROVE  AgreeOK'
  <1>1. /\ mgr'[m] = r /\ \A x \in Managers : x # m => mgr'[x] = mgr[x]
    BY DEF ReleaseInv, Shape, Sets
  <1>2. AgreeOK
    BY DEF ReleaseInv
  <1>3. ASSUME ~disturbed' PROVE ~disturbed
    BY <1>3
  <1>4. \A x \in Managers : mgr'[x].pc = "append" <=> mgr[x].pc = "append"
    BY <1>1
  <1>5. \A x \in Managers : mgr[x].pc = "append" => mgr'[x] = mgr[x]
    BY <1>1
  <1>. QED BY <1>2, <1>3, <1>4, <1>5 DEF AgreeOK

\* Deployments stay announced.
LEMMA AppliedStays ==
  ASSUME ReleaseInv, applied' = applied, releaseOps' \in Nat, releaseOps <= releaseOps',
         \A i \in 1..releaseOps : Announced(audit, i) => Announced(audit', i)
  PROVE  AppliedOK(applied', audit', releaseOps')
  BY DEF ReleaseInv, Shape, AppliedOK

\* New entries of the audit log leave the announcements alone.
LEMMA LogGrows ==
  ASSUME ReleaseInv, NEW S, audit' = audit \cup S, releaseOps' \in {releaseOps, releaseOps + 1},
         \A i \in Nat : <<"release_ci_failed", i>> \in S => i = releaseOps + 1 /\ releaseOps' = releaseOps + 1
  PROVE  /\ releaseOps' \in Nat /\ releaseOps <= releaseOps' /\ AuditOK'
         /\ \A i \in 1..releaseOps : Announced(audit, i) => Announced(audit', i)
  <1>1. releaseOps \in Nat /\ AuditOK
    BY DEF ReleaseInv, Shape
  <1>2. releaseOps' \in Nat /\ releaseOps <= releaseOps'
    BY <1>1
  <1>3. AuditOK'
    BY <1>1, <1>2 DEF AuditOK
  <1>4. ASSUME NEW i \in 1..releaseOps, Announced(audit, i) PROVE Announced(audit', i)
    <2>1. i \in Nat /\ i # releaseOps + 1
      BY <1>1
    <2>2. <<"release_ci_failed", i>> \notin audit'
      BY <2>1, <1>4 DEF Announced
    <2>. QED BY <2>2, <1>4 DEF Announced
  <1>. QED BY <1>2, <1>3, <1>4

\* A step outside the window that deploys nothing and writes no file.
LEMMA QuietStep ==
  ASSUME ReleaseInv, NEW m \in Managers, NEW r, Sets(m, r),
         mgr[m].pc # "append", r.pc # "append",
         UNCHANGED <<historyFile, pinsFile, deployed, applied, disturbed, dir>>,
         releaseOps' \in Nat, releaseOps <= releaseOps', AuditOK', Pinnable \subseteq Pinnable',
         \A i \in 1..releaseOps : Announced(audit, i) => Announced(audit', i),
         MgrOK(r, applied', audit', Pinnable', releaseOps'),
         cells' \subseteq ModuleVersions, CellsOK'
  PROVE  ReleaseInv'
  <1>1. /\ mgr' \in [Managers -> MgrType]
        /\ \A x \in Managers : MgrOK(mgr'[x], applied', audit', Pinnable', releaseOps')
    BY OneMoves
  <1>2. Shape'
    BY <1>1 DEF ReleaseInv, Shape
  <1>3. FilesOK'
    BY DEF ReleaseInv, FilesOK, PinsOK
  <1>4. AgreeOK'
    BY AgreeStays
  <1>5. AppliedOK(applied', audit', releaseOps')
    BY AppliedStays
  <1>. QED BY <1>1, <1>2, <1>3, <1>4, <1>5 DEF ReleaseInv

\* A manager reads the two files.
LEMMA StartStep ==
  ASSUME ReleaseInv, NEW m \in Managers, Start(m)
  PROVE  ReleaseInv'
  <1> DEFINE r == [NotRunning EXCEPT !.pc = "ready", !.hist = historyFile, !.pins = pinsFile]
  <1>1. /\ historyFile \in Seq(Versions) /\ pinsFile \in SUBSET (ModuleVersions \X Contents)
        /\ Ran(historyFile, applied) /\ PinsOK(pinsFile, Pinnable)
    BY DEF Start, ReleaseInv, Shape, FilesOK
  <1>2. /\ r \in MgrType /\ r.pc = "ready" /\ r.hist = historyFile /\ r.pins = pinsFile
        /\ r.from = NoVersion
    BY <1>1 DEF NotRunning, MgrType
  <1>3. Sets(m, r)
    BY <1>2 DEF Sets, Start, SetMgr
  <1> HIDE DEF r
  <1>4. MgrOK(r, applied, audit, Pinnable, releaseOps)
    BY <1>1, <1>2 DEF MgrOK
  <1>5. /\ UNCHANGED <<historyFile, pinsFile, deployed, applied, disturbed, dir, audit,
                       validated, moved, releaseOps, cells, splits>>
        /\ Pinnable' = Pinnable
        /\ mgr[m].pc = "down"
    BY DEF Start, files, modules, Pinnable
  <1>6. AuditOK' /\ CellsOK' /\ releaseOps \in Nat /\ cells \subseteq ModuleVersions
    BY <1>5 DEF ReleaseInv, Shape, AuditOK, CellsOK, WasValidated
  <1>. QED BY <1>2, <1>3, <1>4, <1>5, <1>6, QuietStep

\* The record of a manager after an operation.
LEMMA FinishedFacts ==
  ASSUME NEW r \in MgrType
  PROVE  /\ Finished(r) \in MgrType /\ Finished(r).pc = "ready"
         /\ Finished(r).from = NoVersion /\ Finished(r).hist = r.hist
         /\ Finished(r).pins = r.pins
  BY DEF Finished, MgrType

\* Reports whose services all passed, and none.
LEMMA ReportsPass ==
  ASSUME NEW report, ~Blocked(report)
  PROVE  "failed" \notin report
  BY DEF Blocked, AllPassed

\* A release is announced and, unless its report blocks it, begun.
LEMMA StartReleaseStep ==
  ASSUME ReleaseInv, NEW m \in Managers, NEW v \in Versions, NEW c \in Checkouts,
         StartRelease(m, v, c)
  PROVE  ReleaseInv'
  <1>0. PICK k \in Nat : k = releaseOps + 1
    BY DEF ReleaseInv, Shape
  <1> DEFINE report == RunPlatformCi(c)
             S == {<<"release_started", releaseOps + 1>>}
                    \cup (IF "failed" \in report THEN {<<"release_ci_failed", releaseOps + 1>>} ELSE {})
             q == [mgr[m] EXCEPT !.pc = "apply", !.v = v, !.id = k]
             r == IF Blocked(report) THEN mgr[m] ELSE q
  <1>1. /\ mgr \in [Managers -> MgrType] /\ mgr[m] \in MgrType /\ releaseOps \in Nat /\ AuditOK
        /\ MgrOK(mgr[m], applied, audit, Pinnable, releaseOps)
    BY DEF ReleaseInv, Shape
  <1>2. /\ mgr[m].pc = "ready" /\ releaseOps' = releaseOps + 1 /\ audit' = audit \cup S
        /\ mgr' = [mgr EXCEPT ![m] = r]
        /\ UNCHANGED <<historyFile, pinsFile, deployed, applied, disturbed, dir, validated,
                       moved, cells, splits>>
        /\ Pinnable' = Pinnable
    BY <1>0, Zenon DEF StartRelease, Begin, SetMgr, files, modules, Pinnable
  <1>3. /\ q \in MgrType /\ q.pc = "apply" /\ q.v = v /\ q.id = k
        /\ q.hist = mgr[m].hist /\ q.pins = mgr[m].pins /\ q.from = mgr[m].from
    BY <1>1 DEF MgrType
  <1>4. \A i \in Nat : <<"release_ci_failed", i>> \in S => i = releaseOps + 1
    OBVIOUS
  <1>5. /\ releaseOps' \in Nat /\ releaseOps <= releaseOps' /\ AuditOK'
        /\ \A i \in 1..releaseOps : Announced(audit, i) => Announced(audit', i)
    BY <1>1, <1>2, <1>4, LogGrows
  <1>6. ~Blocked(report) => Announced(audit', releaseOps + 1)
    <2> SUFFICES ASSUME ~Blocked(report) PROVE Announced(audit', releaseOps + 1)
      OBVIOUS
    <2>1. S = {<<"release_started", releaseOps + 1>>}
      BY ReportsPass
    <2>2. releaseOps + 1 \in Nat /\ ~(releaseOps + 1 <= releaseOps)
      BY <1>1
    <2>3. <<"release_ci_failed", releaseOps + 1>> \notin audit
      BY <1>1, <2>2 DEF AuditOK
    <2>4. <<"release_started", releaseOps + 1>> \in audit'
      BY <1>2, <2>1
    <2>5. <<"release_ci_failed", releaseOps + 1>> \notin audit'
      BY <1>2, <2>1, <2>3
    <2>. QED BY <2>4, <2>5 DEF Announced
  <1> HIDE DEF report, S, q
  <1>7. MgrOK(mgr[m], applied', audit', Pinnable', releaseOps')
    BY <1>1, <1>2, <1>5, MgrStays
  <1>8. ASSUME ~Blocked(report) PROVE MgrOK(q, applied', audit', Pinnable', releaseOps')
    <2>1. Ran(q.hist, applied') /\ PinsOK(q.pins, Pinnable') /\ q.from = NoVersion
      BY <1>7, <1>2, <1>3, <1>1 DEF MgrOK
    <2>2. q.id \in 1..releaseOps' /\ Announced(audit', q.id)
      BY <1>8, <1>6, <1>0, <1>1, <1>2, <1>3
    <2>. QED BY <2>1, <2>2, <1>3 DEF MgrOK
  <1>9. /\ r \in MgrType /\ MgrOK(r, applied', audit', Pinnable', releaseOps')
        /\ r.pc # "append" /\ Sets(m, r)
    BY <1>1, <1>2, <1>3, <1>7, <1>8 DEF Sets
  <1> HIDE DEF r
  <1>10. CellsOK' /\ cells' \subseteq ModuleVersions
    BY <1>2 DEF ReleaseInv, Shape, CellsOK, WasValidated
  <1>. QED BY <1>2, <1>5, <1>9, <1>10, QuietStep

\* A rollback is announced and, if the history has a previous release, begun.
LEMMA StartRollbackStep ==
  ASSUME ReleaseInv, NEW m \in Managers, StartRollback(m)
  PROVE  ReleaseInv'
  <1>0. PICK k \in Nat : k = releaseOps + 1
    BY DEF ReleaseInv, Shape
  <1> DEFINE S == {<<"rollback_started", releaseOps + 1>>}
             hist == mgr[m].hist
             q == [mgr[m] EXCEPT !.pc = "apply", !.v = Previous(hist), !.from = Current(hist),
                                 !.id = k]
             r == IF Len(hist) < 2 THEN mgr[m] ELSE q
  <1>1. /\ mgr \in [Managers -> MgrType] /\ mgr[m] \in MgrType /\ releaseOps \in Nat /\ AuditOK
        /\ MgrOK(mgr[m], applied, audit, Pinnable, releaseOps)
    BY DEF ReleaseInv, Shape
  <1>2. /\ mgr[m].pc = "ready" /\ releaseOps' = releaseOps + 1 /\ audit' = audit \cup S
        /\ mgr' = [mgr EXCEPT ![m] = r]
        /\ UNCHANGED <<historyFile, pinsFile, deployed, applied, disturbed, dir, validated,
                       moved, cells, splits>>
        /\ Pinnable' = Pinnable
    BY <1>0, Zenon DEF StartRollback, Begin, SetMgr, files, modules, Pinnable
  <1>3. hist \in Seq(Versions) /\ Ran(hist, applied) /\ Len(hist) \in Nat
    BY <1>1 DEF MgrType, MgrOK
  <1>4. ASSUME ~(Len(hist) < 2)
        PROVE  /\ Previous(hist) \in Versions /\ Previous(hist) \in WasDeployed(applied)
               /\ Current(hist) \in Versions
    <2>1. Len(hist) - 1 \in DOMAIN hist /\ Len(hist) \in DOMAIN hist
      BY <1>3, <1>4
    <2>. QED BY <1>3, <2>1 DEF Previous, Current, Ran
  <1>5. ASSUME ~(Len(hist) < 2)
        PROVE  /\ q \in MgrType /\ q.pc = "apply" /\ q.v = Previous(hist) /\ q.id = k
               /\ q.hist = mgr[m].hist /\ q.pins = mgr[m].pins
    BY <1>1, <1>4, <1>5 DEF MgrType
  <1>6. \A i \in Nat : <<"release_ci_failed", i>> \in S => i = releaseOps + 1
    OBVIOUS
  <1>7. /\ releaseOps' \in Nat /\ releaseOps <= releaseOps' /\ AuditOK'
        /\ \A i \in 1..releaseOps : Announced(audit, i) => Announced(audit', i)
    BY <1>1, <1>2, <1>6, LogGrows
  <1>8. Announced(audit', k)
    <2>1. ~(k <= releaseOps)
      BY <1>0, <1>1
    <2>2. <<"release_ci_failed", k>> \notin audit
      BY <1>1, <2>1 DEF AuditOK
    <2>3. <<"rollback_started", k>> \in audit'
      BY <1>0, <1>2
    <2>4. <<"release_ci_failed", k>> \notin audit'
      BY <1>2, <2>2
    <2>. QED BY <2>3, <2>4 DEF Announced
  <1> HIDE DEF S, q, hist
  <1>9. MgrOK(mgr[m], applied', audit', Pinnable', releaseOps')
    BY <1>1, <1>2, <1>7, MgrStays
  <1>10. ASSUME ~(Len(hist) < 2) PROVE MgrOK(q, applied', audit', Pinnable', releaseOps')
    <2>1. Ran(q.hist, applied') /\ PinsOK(q.pins, Pinnable')
      BY <1>9, <1>10, <1>5 DEF MgrOK
    <2>2. q.id \in 1..releaseOps' /\ Announced(audit', q.id)
      BY <1>10, <1>8, <1>0, <1>1, <1>2, <1>5
    <2>3. q.v \in Versions /\ q.v \in WasDeployed(applied')
      BY <1>10, <1>4, <1>5, <1>2
    <2>. QED BY <2>1, <2>2, <2>3, <1>10, <1>5 DEF MgrOK
  <1>11. /\ r \in MgrType /\ MgrOK(r, applied', audit', Pinnable', releaseOps')
         /\ r.pc # "append" /\ Sets(m, r)
    BY <1>1, <1>2, <1>5, <1>9, <1>10 DEF Sets
  <1> HIDE DEF r
  <1>12. CellsOK' /\ cells' \subseteq ModuleVersions
    BY <1>2 DEF ReleaseInv, Shape, CellsOK, WasValidated
  <1>. QED BY <1>2, <1>7, <1>11, <1>12, QuietStep

\* A rollback ends with its second entry in the log.
LEMMA RollbackCompletedStep ==
  ASSUME ReleaseInv, NEW m \in Managers, RollbackCompleted(m)
  PROVE  ReleaseInv'
  <1> DEFINE S == {<<"rollback_completed", mgr[m].id>>}
             r == Finished(mgr[m])
  <1>1. /\ mgr[m] \in MgrType /\ releaseOps \in Nat
        /\ MgrOK(mgr[m], applied, audit, Pinnable, releaseOps)
    BY DEF ReleaseInv, Shape
  <1>2. /\ mgr[m].pc = "completed" /\ audit' = audit \cup S
        /\ mgr' = [mgr EXCEPT ![m] = r]
        /\ UNCHANGED <<historyFile, pinsFile, deployed, applied, disturbed, dir, validated,
                       moved, cells, splits, releaseOps>>
        /\ Pinnable' = Pinnable
    BY Zenon DEF RollbackCompleted, SetMgr, files, modules, Pinnable
  <1>3. \A i \in Nat : <<"release_ci_failed", i>> \notin S
    OBVIOUS
  <1>4. /\ releaseOps' \in Nat /\ releaseOps <= releaseOps' /\ AuditOK'
        /\ \A i \in 1..releaseOps : Announced(audit, i) => Announced(audit', i)
    BY <1>1, <1>2, <1>3, LogGrows
  <1>5. /\ r \in MgrType /\ r.pc = "ready" /\ r.from = NoVersion
        /\ r.hist = mgr[m].hist /\ r.pins = mgr[m].pins
    BY <1>1, FinishedFacts
  <1> HIDE DEF S, r
  <1>6. MgrOK(r, applied', audit', Pinnable', releaseOps') /\ Sets(m, r)
    BY <1>1, <1>2, <1>5 DEF MgrOK, Sets
  <1>7. CellsOK' /\ cells' \subseteq ModuleVersions
    BY <1>2 DEF ReleaseInv, Shape, CellsOK, WasValidated
  <1>. QED BY <1>2, <1>4, <1>5, <1>6, <1>7, QuietStep

\* The operations of a ready manager that leave its memory alone.
LEMMA ReadyStep ==
  ASSUME ReleaseInv, NEW m \in Managers, mgr' = mgr, mgr[m].pc # "append",
         NEW S, audit' = audit \cup S, releaseOps' \in {releaseOps, releaseOps + 1},
         \A i \in Nat : <<"release_ci_failed", i>> \notin S,
         UNCHANGED <<historyFile, pinsFile, deployed, applied, disturbed, dir>>, Pinnable' = Pinnable,
         cells' \subseteq ModuleVersions, CellsOK'
  PROVE  ReleaseInv'
  <1>1. /\ mgr[m] \in MgrType /\ mgr \in [Managers -> MgrType] /\ releaseOps \in Nat
        /\ MgrOK(mgr[m], applied, audit, Pinnable, releaseOps)
    BY DEF ReleaseInv, Shape
  <1>2. /\ releaseOps' \in Nat /\ releaseOps <= releaseOps' /\ AuditOK'
        /\ \A i \in 1..releaseOps : Announced(audit, i) => Announced(audit', i)
    BY LogGrows
  <1>3. MgrOK(mgr[m], applied', audit', Pinnable', releaseOps')
    BY <1>1, <1>2, MgrStays
  <1>4. Sets(m, mgr[m])
    BY <1>1 DEF Sets
  <1>. QED BY <1>2, <1>3, <1>4, QuietStep

\* A router is configured; its split is what it routes.
LEMMA ConfigureCanaryStep ==
  ASSUME ReleaseInv, NEW m \in Managers, NEW router \in Routers, ConfigureCanary(m, router)
  PROVE  ReleaseInv'
  <1> DEFINE S == {<<"canary_routing_configured", releaseOps + 1>>}
             split == [router |-> router, to |-> {i \in Identifiers : Route(i, router)}]
  <1>1. /\ mgr[m].pc = "ready" /\ releaseOps' = releaseOps + 1 /\ audit' = audit \cup S /\ mgr' = mgr
        /\ splits' = splits \cup {split}
        /\ UNCHANGED <<historyFile, pinsFile, deployed, applied, disturbed, dir, validated,
                       moved, cells>>
        /\ Pinnable' = Pinnable
    BY DEF ConfigureCanary, Begin, files, modules, Pinnable
  <1>2. \A i \in Nat : <<"release_ci_failed", i>> \notin S
    OBVIOUS
  <1>3. split.router \in Routers /\ split.to = {i \in Identifiers : Route(i, split.router)}
    OBVIOUS
  <1> HIDE DEF S, split
  <1>4. CellsOK' /\ cells' \subseteq ModuleVersions
    BY <1>1, <1>3 DEF ReleaseInv, Shape, CellsOK, WasValidated, Route
  <1>. QED BY <1>1, <1>2, <1>4, ReadyStep

\* A full rollout is recorded.
LEMMA PromoteFullRolloutStep ==
  ASSUME ReleaseInv, NEW m \in Managers, PromoteFullRollout(m)
  PROVE  ReleaseInv'
  <1> DEFINE S == {<<"release_promoted_full", releaseOps + 1>>}
  <1>1. /\ mgr[m].pc = "ready" /\ releaseOps' = releaseOps + 1 /\ audit' = audit \cup S /\ mgr' = mgr
        /\ UNCHANGED <<historyFile, pinsFile, deployed, applied, disturbed, dir, validated,
                       moved, cells, splits>>
        /\ Pinnable' = Pinnable
    BY DEF PromoteFullRollout, Begin, files, modules, Pinnable
  <1>2. \A i \in Nat : <<"release_ci_failed", i>> \notin S
    OBVIOUS
  <1>3. CellsOK' /\ cells' \subseteq ModuleVersions
    BY <1>1 DEF ReleaseInv, Shape, CellsOK, WasValidated
  <1> HIDE DEF S
  <1>. QED BY <1>1, <1>2, <1>3, ReadyStep

\* A cell names a version of this manager's records.
LEMMA ValidateCellDefinitionStep ==
  ASSUME ReleaseInv, NEW m \in Managers, NEW v \in ModuleVersions, ValidateCellDefinition(m, v)
  PROVE  ReleaseInv'
  <1> DEFINE S == {}
  <1>1. /\ mgr[m].pc = "ready" /\ releaseOps' = releaseOps + 1 /\ audit' = audit \cup S /\ mgr' = mgr
        /\ cells' = cells \cup {v} /\ \E p \in mgr[m].pins : p[1] = v
        /\ UNCHANGED <<historyFile, pinsFile, deployed, applied, disturbed, dir, validated,
                       moved, splits>>
        /\ Pinnable' = Pinnable
    BY DEF ValidateCellDefinition, Begin, files, Pinnable
  <1>2. WasValidated(v)
    <2>1. PICK p \in mgr[m].pins : p[1] = v
      BY <1>1
    <2>2. p \in validated \/ p \in moved
      BY <2>1 DEF ReleaseInv, MgrOK, PinsOK, Pinnable
    <2>. QED BY <2>1, <2>2 DEF ReleaseInv, CellsOK, WasValidated
  <1>3. CellsOK' /\ cells' \subseteq ModuleVersions
    BY <1>1, <1>2 DEF ReleaseInv, Shape, CellsOK, WasValidated, Route
  <1>4. \A i \in Nat : <<"release_ci_failed", i>> \notin S
    OBVIOUS
  <1> HIDE DEF S
  <1>. QED BY <1>1, <1>3, <1>4, ReadyStep

\* A module version is validated; only a good directory passes all three steps.
LEMMA ValidateModuleVersionStep ==
  ASSUME ReleaseInv, NEW m \in Managers, NEW v \in ModuleVersions, ValidateModuleVersion(m, v)
  PROVE  ReleaseInv'
  <1> DEFINE q == [mgr[m] EXCEPT !.pc = "pin", !.v = v, !.seen = dir]
             S == {}
  <1>1. /\ mgr[m] \in MgrType /\ releaseOps \in Nat /\ dir \in Contents
        /\ MgrOK(mgr[m], applied, audit, Pinnable, releaseOps)
    BY DEF ReleaseInv, Shape
  <1>2. /\ mgr[m].pc = "ready" /\ releaseOps' = releaseOps + 1 /\ audit' = audit \cup S
        /\ UNCHANGED <<historyFile, pinsFile, deployed, applied, disturbed, dir, moved,
                       cells, splits>>
    BY DEF ValidateModuleVersion, Begin, files
  <1>3. \A i \in Nat : <<"release_ci_failed", i>> \notin S
    OBVIOUS
  <1> HIDE DEF S
  <1>4. \/ mgr' = mgr /\ validated' = validated
        \/ mgr' = [mgr EXCEPT ![m] = q] /\ validated' = validated \cup {<<v, dir>>}
    <2>1. CASE Approved(StepsOf(dir))
      <3>1. dir = "good"
        <4> SUFFICES ASSUME dir # "good" PROVE FALSE
          OBVIOUS
        <4>1. StepsOf(dir) = <<TRUE, TRUE, FALSE>>
          BY DEF StepsOf
        <4>2. 3 \in DOMAIN StepsOf(dir) /\ ~StepsOf(dir)[3]
          BY <4>1
        <4>. QED BY <2>1, <4>2 DEF Approved
      <3>. QED BY <2>1, <3>1 DEF ValidateModuleVersion, SetMgr
    <2>2. CASE ~Approved(StepsOf(dir))
      BY <2>2 DEF ValidateModuleVersion
    <2>. QED BY <2>1, <2>2
  <1>5. CellsOK' /\ cells' \subseteq ModuleVersions
    <2>1. validated \subseteq validated'
      BY <1>4
    <2>. QED BY <1>2, <2>1 DEF ReleaseInv, Shape, CellsOK, WasValidated, Route
  <1>6. CASE mgr' = mgr /\ validated' = validated
    <2>1. Pinnable' = Pinnable
      BY <1>2, <1>6 DEF Pinnable
    <2>. QED BY <1>2, <1>3, <1>5, <1>6, <2>1, ReadyStep
  <1>7. CASE mgr' = [mgr EXCEPT ![m] = q] /\ validated' = validated \cup {<<v, dir>>}
    <2>1. /\ q \in MgrType /\ q.pc = "pin" /\ q.v = v /\ q.seen = dir
          /\ q.hist = mgr[m].hist /\ q.pins = mgr[m].pins
      BY <1>1 DEF MgrType
    <2>2. Sets(m, q)
      BY <1>7, <2>1 DEF Sets
    <2> HIDE DEF q
    <2>3. /\ releaseOps' \in Nat /\ releaseOps <= releaseOps' /\ AuditOK'
          /\ \A i \in 1..releaseOps : Announced(audit, i) => Announced(audit', i)
      BY <1>1, <1>2, <1>3, LogGrows
    <2>4. Pinnable \subseteq Pinnable' /\ <<v, dir>> \in Pinnable'
      BY <1>2, <1>7 DEF Pinnable
    <2>5. MgrOK(q, applied', audit', Pinnable', releaseOps')
      BY <1>1, <1>2, <2>1, <2>4 DEF MgrOK, PinsOK
    <2>. QED BY <1>2, <1>5, <2>1, <2>2, <2>3, <2>4, <2>5, QuietStep
  <1>. QED BY <1>4, <1>6, <1>7

\* A module version is recorded in the file of pins, with the content the
\* directory has now.
LEMMA PromoteModuleVersionStep ==
  ASSUME ReleaseInv, NEW m \in Managers, PromoteModuleVersion(m)
  PROVE  ReleaseInv'
  <1> DEFINE pins == {p \in mgr[m].pins : p[1] # mgr[m].v} \cup {<<mgr[m].v, dir>>}
             r == [Finished(mgr[m]) EXCEPT !.pins = pins]
  <1>1. /\ mgr[m] \in MgrType /\ releaseOps \in Nat /\ dir \in Contents
        /\ MgrOK(mgr[m], applied, audit, Pinnable, releaseOps)
    BY DEF ReleaseInv, Shape
  <1>2. /\ mgr[m].pc = "pin" /\ pinsFile' = pins /\ mgr' = [mgr EXCEPT ![m] = r]
        /\ moved' = IF dir = mgr[m].seen THEN moved ELSE moved \cup {<<mgr[m].v, dir>>}
        /\ UNCHANGED <<historyFile, audit, deployed, applied, dir, validated, cells,
                       splits, disturbed, releaseOps>>
    BY DEF PromoteModuleVersion, SetMgr
  <1>3. <<mgr[m].v, mgr[m].seen>> \in Pinnable /\ mgr[m].v \in ModuleVersions
    BY <1>1, <1>2 DEF MgrOK
  <1>4. Pinnable \subseteq Pinnable' /\ <<mgr[m].v, dir>> \in Pinnable'
    BY <1>2, <1>3 DEF Pinnable
  <1>5. pins \in SUBSET (ModuleVersions \X Contents) /\ PinsOK(pins, Pinnable')
    <2>1. <<mgr[m].v, dir>> \in ModuleVersions \X Contents
      BY <1>1, <1>3
    <2>2. mgr[m].pins \in SUBSET (ModuleVersions \X Contents) /\ PinsOK(mgr[m].pins, Pinnable)
      BY <1>1 DEF MgrType, MgrOK
    <2>. QED BY <1>4, <2>1, <2>2 DEF PinsOK
  <1> HIDE DEF pins
  <1>6. /\ r \in MgrType /\ r.pc = "ready" /\ r.from = NoVersion
        /\ r.hist = mgr[m].hist /\ r.pins = pins
    <2>1. Finished(mgr[m]) \in MgrType
      BY <1>1, FinishedFacts
    <2>. QED BY <1>1, <1>5, <2>1, FinishedFacts DEF MgrType
  <1>7. Sets(m, r)
    BY <1>2, <1>6 DEF Sets
  <1> HIDE DEF r
  <1>8. MgrOK(r, applied', audit', Pinnable', releaseOps')
    BY <1>1, <1>2, <1>5, <1>6 DEF MgrOK
  <1>9. /\ mgr' \in [Managers -> MgrType]
        /\ \A x \in Managers : MgrOK(mgr'[x], applied', audit', Pinnable', releaseOps')
    BY <1>1, <1>2, <1>4, <1>7, <1>8, OneMoves
  <1>10. Shape'
    BY <1>2, <1>5, <1>9 DEF ReleaseInv, Shape
  <1>11. FilesOK'
    BY <1>2, <1>5 DEF ReleaseInv, FilesOK
  <1>12. AgreeOK'
    BY <1>2, <1>6, <1>7, AgreeStays
  <1>13. AppliedOK(applied', audit', releaseOps') /\ AuditOK'
    BY <1>2 DEF ReleaseInv, AppliedOK, AuditOK
  <1>14. CellsOK'
    <2>1. WasValidated(mgr[m].v)
      BY <1>3 DEF ReleaseInv, CellsOK, Pinnable, WasValidated
    <2>2. \A p \in moved' : WasValidated(p[1])
      BY <1>2, <2>1 DEF ReleaseInv, CellsOK
    <2>. QED BY <1>2, <2>2 DEF ReleaseInv, CellsOK, WasValidated, Route
  <1>. QED BY <1>9, <1>10, <1>11, <1>12, <1>13, <1>14 DEF ReleaseInv

\* What a deployment adds.
LEMMA DeployFacts ==
  ASSUME ReleaseInv, NEW m \in Managers, mgr[m].pc = "apply", Deploy(m)
  PROVE  /\ deployed' = mgr[m].v /\ mgr[m].v \in Versions
         /\ applied' \in Seq(AppliedType) /\ mgr[m].v \in WasDeployed(applied')
         /\ WasDeployed(applied) \subseteq WasDeployed(applied')
         /\ AppliedOK(applied', audit, releaseOps)
  <1> DEFINE e == [v |-> mgr[m].v, from |-> mgr[m].from, id |-> mgr[m].id]
  <1>1. /\ mgr[m] \in MgrType /\ releaseOps \in Nat /\ applied \in Seq(AppliedType)
        /\ MgrOK(mgr[m], applied, audit, Pinnable, releaseOps) /\ AppliedOK(applied, audit, releaseOps)
    BY DEF ReleaseInv, Shape
  <1>2. /\ mgr[m].v \in Versions /\ mgr[m].id \in 1..releaseOps /\ Announced(audit, mgr[m].id)
        /\ mgr[m].from # NoVersion => mgr[m].v \in WasDeployed(applied)
    BY <1>1 DEF MgrOK
  <1>3. /\ e \in AppliedType /\ e.v = mgr[m].v /\ e.from = mgr[m].from /\ e.id = mgr[m].id
    BY <1>1, <1>2 DEF AppliedType, MgrType
  <1>4. applied' = Append(applied, e) /\ deployed' = mgr[m].v
    BY DEF Deploy
  <1> HIDE DEF e
  <1>5. /\ applied' \in Seq(AppliedType) /\ Len(applied) \in Nat
        /\ Len(applied') = Len(applied) + 1 /\ applied'[Len(applied) + 1] = e
        /\ \A i \in 1..Len(applied) : applied'[i] = applied[i]
    BY <1>1, <1>3, <1>4
  <1>6. /\ mgr[m].v \in WasDeployed(applied')
        /\ WasDeployed(applied) \subseteq WasDeployed(applied')
    BY <1>1, <1>3, <1>5 DEF WasDeployed
  <1>7. ASSUME NEW i \in DOMAIN applied'
        PROVE  /\ applied'[i].id \in 1..releaseOps /\ Announced(audit, applied'[i].id)
               /\ applied'[i].from # NoVersion =>
                    \E j \in 1..(i - 1) : applied'[j].v = applied'[i].v
    <2>1. CASE i \in DOMAIN applied
      <3>1. /\ applied'[i] = applied[i] /\ applied[i].id \in 1..releaseOps
            /\ Announced(audit, applied[i].id)
        BY <1>1, <1>5, <2>1 DEF AppliedOK
      <3>2. ASSUME applied[i].from # NoVersion
            PROVE  \E j \in 1..(i - 1) : applied'[j].v = applied'[i].v
        <4>1. PICK j \in 1..(i - 1) : applied[j].v = applied[i].v
          BY <1>1, <2>1, <3>2 DEF AppliedOK
        <4>2. j \in 1..Len(applied)
          BY <1>1, <1>5, <2>1
        <4>. QED BY <1>5, <3>1, <4>1, <4>2
      <3>. QED BY <3>1, <3>2
    <2>2. CASE i = Len(applied) + 1
      <3>1. applied'[i] = e
        BY <1>5, <2>2
      <3>2. ASSUME e.from # NoVersion
            PROVE  \E j \in 1..(i - 1) : applied'[j].v = e.v
        <4>1. PICK j \in DOMAIN applied : applied[j].v = e.v
          BY <1>2, <1>3, <3>2 DEF WasDeployed
        <4>2. j \in 1..Len(applied) /\ j \in 1..(i - 1)
          BY <1>1, <1>5, <2>2
        <4>. QED BY <1>5, <4>1, <4>2
      <3>. QED BY <1>2, <1>3, <3>1, <3>2
    <2>3. i \in DOMAIN applied \/ i = Len(applied) + 1
      BY <1>1, <1>5
    <2>. QED BY <2>1, <2>2, <2>3
  <1>. QED BY <1>2, <1>4, <1>5, <1>6, <1>7 DEF AppliedOK

\* A deployment by an apply that succeeded, or that failed after it had an effect.
LEMMA DeployingStep ==
  ASSUME ReleaseInv, NEW m \in Managers, mgr[m].pc = "apply", Deploy(m),
         NEW r, Sets(m, r), MgrOK(r, applied', audit, Pinnable, releaseOps), AgreeOK',
         disturbed' \in BOOLEAN,
         UNCHANGED <<historyFile, pinsFile, audit, dir, validated, moved, cells, splits, releaseOps>>,
         Pinnable' = Pinnable
  PROVE  ReleaseInv'
  <1>1. /\ deployed' \in Versions /\ applied' \in Seq(AppliedType)
        /\ WasDeployed(applied) \subseteq WasDeployed(applied')
        /\ AppliedOK(applied', audit', releaseOps') /\ releaseOps \in Nat
    BY DeployFacts DEF ReleaseInv, Shape
  <1>2. /\ mgr' \in [Managers -> MgrType]
        /\ \A x \in Managers : MgrOK(mgr'[x], applied', audit', Pinnable', releaseOps')
    BY <1>1, OneMoves
  <1>3. Shape'
    BY <1>1, <1>2 DEF ReleaseInv, Shape
  <1>4. FilesOK'
    BY <1>1 DEF ReleaseInv, FilesOK, Ran
  <1>5. AuditOK' /\ CellsOK'
    BY DEF ReleaseInv, AuditOK, CellsOK, WasValidated
  <1>. QED BY <1>1, <1>2, <1>3, <1>4, <1>5 DEF ReleaseInv

\* The apply succeeds; the window before the record opens.
LEMMA ApplyStep ==
  ASSUME ReleaseInv, NEW m \in Managers, ApplyPlatformVersion(m)
  PROVE  ReleaseInv'
  <1> DEFINE r == [mgr[m] EXCEPT !.pc = "append"]
  <1>1. /\ mgr \in [Managers -> MgrType] /\ mgr[m] \in MgrType /\ disturbed \in BOOLEAN
        /\ MgrOK(mgr[m], applied, audit, Pinnable, releaseOps)
    BY DEF ReleaseInv, Shape
  <1>2. /\ mgr[m].pc = "apply" /\ Deploy(m) /\ mgr' = [mgr EXCEPT ![m] = r]
        /\ disturbed' = (disturbed \/ Overlaps(m))
        /\ UNCHANGED <<historyFile, pinsFile, audit, dir, validated, moved, cells, splits, releaseOps>>
        /\ Pinnable' = Pinnable
    BY Zenon DEF ApplyPlatformVersion, SetMgr, files, modules, Pinnable
  <1>3. /\ r \in MgrType /\ r.pc = "append" /\ r.v = mgr[m].v /\ r.id = mgr[m].id
        /\ r.hist = mgr[m].hist /\ r.pins = mgr[m].pins
    BY <1>1 DEF MgrType
  <1>4. Sets(m, r)
    BY <1>2, <1>3 DEF Sets
  <1> HIDE DEF r
  <1>5. /\ deployed' = mgr[m].v /\ mgr[m].v \in WasDeployed(applied')
        /\ WasDeployed(applied) \subseteq WasDeployed(applied')
    BY <1>2, DeployFacts
  <1>6. MgrOK(r, applied', audit, Pinnable, releaseOps)
    BY <1>1, <1>2, <1>3, <1>5 DEF MgrOK, Ran
  <1>7. disturbed' \in BOOLEAN
    BY <1>2, Zenon
  <1>8. ASSUME ~disturbed' PROVE ~Overlaps(m)
    BY <1>2, <1>8, Zenon
  <1>9. mgr'[m] = r /\ \A x \in Managers : x # m => mgr'[x] = mgr[x]
    BY <1>1, <1>2
  <1>10. ASSUME ~disturbed' PROVE \A x \in Managers : mgr'[x].pc = "append" => x = m
    BY <1>8, <1>9, <1>10 DEF Overlaps
  <1>11. AgreeOK'
    BY <1>3, <1>5, <1>9, <1>10 DEF AgreeOK
  <1>. QED BY <1>2, <1>4, <1>6, <1>7, <1>11, DeployingStep

\* The apply fails or does not end; nothing is recorded.
LEMMA TroubleStep ==
  ASSUME ReleaseInv, NEW m \in Managers, NEW changed \in BOOLEAN,
         ApplyFails(m, changed) \/ ApplyTimesOut(m, changed)
  PROVE  ReleaseInv'
  <1>1. /\ mgr \in [Managers -> MgrType] /\ mgr[m] \in MgrType /\ disturbed \in BOOLEAN
        /\ MgrOK(mgr[m], applied, audit, Pinnable, releaseOps) /\ releaseOps \in Nat
    BY DEF ReleaseInv, Shape
  <1>2. PICK r : /\ r \in {Finished(mgr[m]), [mgr[m] EXCEPT !.pc = "completed"]}
                 /\ mgr' = [mgr EXCEPT ![m] = r]
    BY DEF ApplyFails, ApplyTimesOut, SetMgr, AfterFailure
  <1>3. /\ mgr[m].pc = "apply"
        /\ IF changed THEN Deploy(m) ELSE UNCHANGED <<deployed, applied>>
        /\ disturbed' = (disturbed \/ changed)
        /\ UNCHANGED <<historyFile, pinsFile, audit, dir, validated, moved, cells, splits, releaseOps>>
        /\ Pinnable' = Pinnable
    BY Zenon DEF ApplyFails, ApplyTimesOut, files, modules, Pinnable
  <1>4. /\ r \in MgrType /\ r.pc \in {"ready", "completed"}
        /\ r.hist = mgr[m].hist /\ r.pins = mgr[m].pins
        /\ r.pc = "ready" => r.from = NoVersion
    <2>1. CASE r = Finished(mgr[m])
      BY <1>1, <2>1, FinishedFacts
    <2>2. CASE r = [mgr[m] EXCEPT !.pc = "completed"]
      BY <1>1, <2>2 DEF MgrType
    <2>. QED BY <1>2, <2>1, <2>2
  <1>5. Sets(m, r)
    BY <1>2, <1>4 DEF Sets
  <1>6. CASE changed
    <2>1. Deploy(m)
      BY <1>3, <1>6
    <2>2. disturbed' \in BOOLEAN /\ disturbed'
      BY <1>3, <1>6, Zenon
    <2>3. AgreeOK'
      BY <2>2, Zenon DEF AgreeOK
    <2>4. MgrOK(r, applied', audit, Pinnable, releaseOps)
      BY <1>1, <1>3, <1>4, <2>1, DeployFacts DEF MgrOK, Ran
    <2>. QED BY <1>3, <1>5, <2>1, <2>2, <2>3, <2>4, DeployingStep
  <1>7. CASE ~changed
    <2>1. disturbed' = disturbed
      BY <1>1, <1>3, <1>7, Zenon
    <2>2. deployed' = deployed /\ applied' = applied
      BY <1>3, <1>7
    <2>3. MgrOK(r, applied', audit', Pinnable', releaseOps')
      BY <1>1, <1>3, <1>4, <2>2 DEF MgrOK
    <2>4. AuditOK' /\ CellsOK' /\ cells' \subseteq ModuleVersions
      BY <1>3 DEF ReleaseInv, Shape, AuditOK, CellsOK, WasValidated
    <2>5. releaseOps' \in Nat /\ releaseOps <= releaseOps'
      BY <1>1, <1>3
    <2>. QED BY <1>3, <1>4, <1>5, <2>1, <2>2, <2>3, <2>4, <2>5, QuietStep
  <1>. QED BY <1>6, <1>7

\* The history in memory and in the file get the version that was applied.
LEMMA AppendStep ==
  ASSUME ReleaseInv, NEW m \in Managers, AppendHistory(m)
  PROVE  ReleaseInv'
  <1> DEFINE hist == Append(mgr[m].hist, mgr[m].v)
             q == [Finished(mgr[m]) EXCEPT !.hist = hist]
             z == [mgr[m] EXCEPT !.hist = hist, !.pc = "completed"]
             r == IF mgr[m].from = NoVersion THEN q ELSE z
  <1>1. /\ mgr \in [Managers -> MgrType] /\ mgr[m] \in MgrType /\ disturbed \in BOOLEAN
        /\ MgrOK(mgr[m], applied, audit, Pinnable, releaseOps) /\ releaseOps \in Nat /\ AgreeOK
    BY DEF ReleaseInv, Shape
  <1>2. /\ mgr[m].pc = "append" /\ historyFile' = hist /\ mgr' = [mgr EXCEPT ![m] = r]
        /\ disturbed' = (disturbed \/ mgr[m].hist # historyFile)
        /\ UNCHANGED <<pinsFile, audit, deployed, applied, dir, validated, moved, cells,
                       splits, releaseOps>>
        /\ Pinnable' = Pinnable
    BY Zenon DEF AppendHistory, SetMgr, modules, Pinnable
  <1>3. mgr[m].v \in Versions /\ mgr[m].v \in WasDeployed(applied)
    BY <1>1, <1>2 DEF MgrOK
  <1>4. mgr[m].hist \in Seq(Versions) /\ Ran(mgr[m].hist, applied)
    BY <1>1 DEF MgrType, MgrOK
  <1>5. /\ hist \in Seq(Versions) /\ Ran(hist, applied) /\ hist # <<>>
        /\ hist[Len(hist)] = mgr[m].v
    BY <1>3, <1>4 DEF Ran
  <1> HIDE DEF hist
  <1>6. /\ q \in MgrType /\ q.pc = "ready" /\ q.from = NoVersion
        /\ q.hist = hist /\ q.pins = mgr[m].pins
    <2>1. Finished(mgr[m]) \in MgrType
      BY <1>1, FinishedFacts
    <2>. QED BY <1>1, <1>5, <2>1, FinishedFacts DEF MgrType
  <1>7. /\ z \in MgrType /\ z.pc = "completed"
        /\ z.hist = hist /\ z.pins = mgr[m].pins
    BY <1>1, <1>5 DEF MgrType
  <1> HIDE DEF q, z
  <1>8. /\ r \in MgrType /\ r.pc \in {"ready", "completed"} /\ r.hist = hist
        /\ r.pins = mgr[m].pins /\ (r.pc = "ready" => r.from = NoVersion) /\ Sets(m, r)
    BY <1>2, <1>6, <1>7 DEF Sets
  <1> HIDE DEF r
  <1>9. MgrOK(r, applied', audit', Pinnable', releaseOps')
    BY <1>1, <1>2, <1>5, <1>8 DEF MgrOK
  <1>10. /\ mgr' \in [Managers -> MgrType]
         /\ mgr'[m] = r /\ \A x \in Managers : x # m => mgr'[x] = mgr[x]
         /\ \A x \in Managers : MgrOK(mgr'[x], applied', audit', Pinnable', releaseOps')
    BY <1>1, <1>2, <1>8, <1>9, OneMoves
  <1>11. disturbed' \in BOOLEAN
    BY <1>2, Zenon
  <1>12. Shape'
    BY <1>2, <1>5, <1>10, <1>11 DEF ReleaseInv, Shape
  <1>13. FilesOK'
    BY <1>2, <1>5 DEF ReleaseInv, FilesOK
  <1>14. AgreeOK'
    <2>1. ASSUME ~disturbed' PROVE ~disturbed
      BY <1>2, <2>1, Zenon
    <2>2. ASSUME ~disturbed'
          PROVE  deployed' = mgr[m].v /\ \A x \in Managers : mgr'[x].pc # "append"
      BY <1>1, <1>2, <1>8, <1>10, <2>1, <2>2 DEF AgreeOK
    <2>3. ASSUME ~disturbed' PROVE Ends(historyFile', deployed')
      BY <1>2, <1>5, <2>2, <2>3 DEF Ends, Last
    <2>. QED BY <2>2, <2>3 DEF AgreeOK
  <1>15. AppliedOK(applied', audit', releaseOps') /\ AuditOK' /\ CellsOK'
    BY <1>2 DEF ReleaseInv, AppliedOK, AuditOK, CellsOK, WasValidated
  <1>. QED BY <1>10, <1>12, <1>13, <1>14, <1>15 DEF ReleaseInv

\* A manager is killed, perhaps in the middle of writing one of the files.
LEMMA CrashStep ==
  ASSUME ReleaseInv, NEW m \in Managers, NEW torn \in BOOLEAN, Crash(m, torn)
  PROVE  ReleaseInv'
  <1>1. /\ mgr \in [Managers -> MgrType] /\ disturbed \in BOOLEAN /\ releaseOps \in Nat
        /\ FilesOK
    BY DEF ReleaseInv, Shape
  <1>2. /\ mgr' = [mgr EXCEPT ![m] = NotRunning]
        /\ disturbed' = (disturbed \/ mgr[m].pc = "append")
        /\ UNCHANGED <<audit, deployed, applied, dir, validated, moved, cells, splits, releaseOps>>
        /\ Pinnable' = Pinnable
    BY Zenon DEF Crash, SetMgr, modules, Pinnable
  <1>3. /\ historyFile' = <<"torn">> \/ historyFile' = historyFile
        /\ pinsFile' = {"torn"} \/ pinsFile' = pinsFile
        /\ mgr[m].pc # "append" => historyFile' = historyFile
    BY DEF Crash
  <1>4. /\ NotRunning \in MgrType /\ NotRunning.pc = "down" /\ NotRunning.from = NoVersion
        /\ MgrOK(NotRunning, applied', audit', Pinnable', releaseOps')
    BY DEF NotRunning, MgrType, MgrOK, Ran, PinsOK
  <1>5. Sets(m, NotRunning)
    BY <1>2, <1>4 DEF Sets
  <1>6. /\ mgr' \in [Managers -> MgrType]
        /\ \A x \in Managers : MgrOK(mgr'[x], applied', audit', Pinnable', releaseOps')
    BY <1>1, <1>2, <1>4, <1>5, OneMoves
  <1>7. disturbed' \in BOOLEAN
    BY <1>2, Zenon
  <1>8. Shape'
    <2>1. historyFile' \in Seq(Versions) \cup {<<"torn">>}
      BY <1>3 DEF ReleaseInv, Shape
    <2>2. pinsFile' = {"torn"} \/ pinsFile' \in SUBSET (ModuleVersions \X Contents)
      BY <1>3 DEF ReleaseInv, Shape
    <2>. QED BY <1>2, <1>6, <1>7, <2>1, <2>2 DEF ReleaseInv, Shape
  <1>9. FilesOK'
    BY <1>1, <1>2, <1>3 DEF FilesOK
  <1>10. AgreeOK'
    <2>1. CASE mgr[m].pc = "append"
      <3>1. disturbed'
        BY <1>2, <2>1, Zenon
      <3>. QED BY <3>1, Zenon DEF AgreeOK
    <2>2. CASE mgr[m].pc # "append"
      <3>1. disturbed' = disturbed
        BY <1>1, <1>2, <2>2, Zenon
      <3>. QED BY <1>2, <1>3, <1>4, <1>5, <2>2, <3>1, AgreeStays
    <2>. QED BY <2>1, <2>2
  <1>11. AppliedOK(applied', audit', releaseOps') /\ AuditOK' /\ CellsOK'
    BY <1>2 DEF ReleaseInv, AppliedOK, AuditOK, CellsOK, WasValidated
  <1>. QED BY <1>6, <1>8, <1>9, <1>10, <1>11 DEF ReleaseInv

\* The module is edited.
LEMMA EditModuleStep ==
  ASSUME ReleaseInv, EditModule
  PROVE  ReleaseInv'
  <1>1. /\ UNCHANGED <<mgr, historyFile, pinsFile, audit, deployed, applied, validated, moved,
                       cells, splits, disturbed, releaseOps>>
        /\ Pinnable' = Pinnable
    BY DEF EditModule, files, Pinnable
  <1>2. dir' \in Contents
    BY DEF EditModule, Contents
  <1>3. Shape'
    BY <1>1, <1>2 DEF ReleaseInv, Shape
  <1>4. FilesOK' /\ AuditOK' /\ AppliedOK(applied', audit', releaseOps')
    BY <1>1 DEF ReleaseInv, FilesOK, AuditOK
  <1>5. AgreeOK'
    BY <1>1 DEF ReleaseInv, AgreeOK
  <1>6. CellsOK'
    BY <1>1 DEF ReleaseInv, CellsOK, WasValidated, Route
  <1>. QED BY <1>1, <1>3, <1>4, <1>5, <1>6 DEF ReleaseInv

\* Every step keeps the invariant.
LEMMA NextReleaseInv == ReleaseInv /\ [ReleaseNext]_releaseVars => ReleaseInv'
  <1> SUFFICES ASSUME ReleaseInv, [ReleaseNext]_releaseVars PROVE ReleaseInv'
    OBVIOUS
  <1>1. CASE UNCHANGED releaseVars
    <2>1. /\ UNCHANGED <<mgr, historyFile, pinsFile, audit, deployed, applied, validated, moved,
                         cells, splits, disturbed, releaseOps, dir>>
          /\ Pinnable' = Pinnable
      BY <1>1 DEF releaseVars, Pinnable
    <2>. QED BY <2>1 DEF ReleaseInv, Shape, FilesOK, AuditOK, AgreeOK, CellsOK, WasValidated, Route
  <1>2. ASSUME NEW m \in Managers,
               Start(m) \/ StartRollback(m) \/ ApplyPlatformVersion(m) \/ AppendHistory(m)
                 \/ RollbackCompleted(m) \/ PromoteFullRollout(m) \/ PromoteModuleVersion(m)
        PROVE  ReleaseInv'
    BY <1>2, StartStep, StartRollbackStep, ApplyStep, AppendStep, RollbackCompletedStep,
       PromoteFullRolloutStep, PromoteModuleVersionStep
  <1>3. ASSUME NEW m \in Managers, NEW b \in BOOLEAN,
               Crash(m, b) \/ ApplyFails(m, b) \/ ApplyTimesOut(m, b)
        PROVE  ReleaseInv'
    BY <1>3, CrashStep, TroubleStep
  <1>4. ASSUME NEW m \in Managers, NEW v \in Versions, NEW c \in Checkouts, StartRelease(m, v, c)
        PROVE  ReleaseInv'
    BY <1>4, StartReleaseStep
  <1>5. ASSUME NEW m \in Managers, NEW router \in Routers, ConfigureCanary(m, router)
        PROVE  ReleaseInv'
    BY <1>5, ConfigureCanaryStep
  <1>6. ASSUME NEW m \in Managers, NEW v \in ModuleVersions,
               ValidateModuleVersion(m, v) \/ ValidateCellDefinition(m, v)
        PROVE  ReleaseInv'
    BY <1>6, ValidateModuleVersionStep, ValidateCellDefinitionStep
  <1>7. CASE EditModule
    BY <1>7, EditModuleStep
  <1>. QED BY <1>1, <1>2, <1>3, <1>4, <1>5, <1>6, <1>7 DEF ReleaseNext

-----------------------------------------------------------------------------
(* Theorems.                                                               *)

\* The inductive invariant, always.
THEOREM ReleaseInvariant == ReleaseSpec => []ReleaseInv
  BY InitReleaseInv, NextReleaseInv, PTL DEF ReleaseSpec

\* A rollback deploys a version that was deployed before, and without a kill,
\* tofu trouble or a second manager in the window between an apply and its
\* record the history ends with what is deployed (rollback.py), for any
\* number of managers and operations.
THEOREM RollbacksAreReturns == ReleaseSpec => []RollbacksReturn
  <1>1. ReleaseInv => RollbacksReturn
    <2> SUFFICES ASSUME ReleaseInv PROVE RollbacksReturn
      OBVIOUS
    <2>1. ReleaseTypeOK
      <3>1. \A s \in splits : s.router \in Routers /\ s.to \subseteq Identifiers
        BY DEF ReleaseInv, CellsOK
      <3>. QED BY <3>1 DEF ReleaseInv, Shape, ReleaseTypeOK, MgrType
    <2>2. \A i \in DOMAIN applied : applied[i].from # NoVersion =>
            \E j \in 1..(i - 1) : applied[j].v = applied[i].v
      BY DEF ReleaseInv, AppliedOK
    <2>3. (~disturbed /\ \A m \in Managers : mgr[m].pc # "append") =>
            IF historyFile = <<>> THEN deployed = NoVersion ELSE Last(historyFile) = deployed
      BY DEF ReleaseInv, AgreeOK, Ends
    <2>. QED BY <2>1, <2>2, <2>3 DEF RollbacksReturn
  <1>. QED BY <1>1, ReleaseInvariant, PTL

\* Nothing is deployed unannounced or past a failing report; cells name only
\* module versions that passed a validation, and a pinned record holds what was
\* validated for its version unless the directory was edited between validation
\* and hash; the larger of two fractions under one salt takes nobody back
\* (release_manager.py, module_versioning.py, canary.py).
THEOREM GatedReleases == ReleaseSpec => []ReleasesAreGated
  <1>1. ReleaseInv => ReleasesAreGated
    <2> SUFFICES ASSUME ReleaseInv PROVE ReleasesAreGated
      OBVIOUS
    <2>1. \A i \in DOMAIN applied :
            /\ \E e \in audit :
                 e[2] = applied[i].id /\ e[1] \in {"release_started", "rollback_started"}
            /\ <<"release_ci_failed", applied[i].id>> \notin audit
      BY DEF ReleaseInv, AppliedOK, Announced
    <2>2. /\ \A v \in cells : \E p \in validated : p[1] = v
          /\ pinsFile # {"torn"} => pinsFile \subseteq validated \cup moved
      BY DEF ReleaseInv, CellsOK, WasValidated, FilesOK, PinsOK, Pinnable
    <2>3. ASSUME NEW s \in splits, NEW t \in splits, s.router.salt = t.router.salt,
                 s.router.fraction <= t.router.fraction, NEW i \in s.to
          PROVE  i \in t.to
      <3>1. /\ s.router \in Routers /\ t.router \in Routers /\ i \in Identifiers
            /\ Route(i, s.router) /\ t.to = {j \in Identifiers : Route(j, t.router)}
        BY <2>3 DEF ReleaseInv, CellsOK
      <3>2. /\ s.router.fraction \in 0..100 /\ t.router.fraction \in 0..100
            /\ Bucket[s.router.salt][i] \in 0..99
        BY <3>1, PlatformReleaseAssumption
      <3>3. Route(i, t.router)
        <4>1. PICK b \in 0..99 : b = Bucket[s.router.salt][i]
          BY <3>2
        <4>2. b < s.router.fraction
          BY <3>1, <4>1 DEF Route
        <4>3. b < t.router.fraction
          <5>1. PICK x \in 0..100 : x = s.router.fraction
            BY <3>2
          <5>2. PICK y \in 0..100 : y = t.router.fraction
            BY <3>2
          <5>3. x <= y /\ b < x
            BY <2>3, <4>2, <5>1, <5>2
          <5>. QED BY <5>2, <5>3
        <4>4. b = Bucket[t.router.salt][i]
          BY <2>3, <4>1
        <4>. QED BY <4>3, <4>4 DEF Route
      <3>. QED BY <3>1, <3>3
    <2>. QED BY <2>1, <2>2, <2>3 DEF ReleasesAreGated
  <1>. QED BY <1>1, ReleaseInvariant, PTL
=============================================================================
