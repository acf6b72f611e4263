------------------------ MODULE VerificationPipeline ------------------------
(***************************************************************************)
(* Verification of a change: the seven layers, the report, and the retry   *)
(* budget (services/verification-pipeline), and the runner that gives the  *)
(* orchestrator two of the layers (real_verification_runner.py).           *)
(* Operators only: the pipeline of a run is a record that lives in the     *)
(* memory of the process that verifies it, see TenantCell.                 *)
(*                                                                         *)
(* A change is a record of what the tools will find in the workspace:      *)
(*   touched, declared  existing files of RunProgress and of the plan      *)
(*   pytest             "runs", "crashes" or "missing"                     *)
(*   broken, flaky      tests that fail always, or only the first time     *)
(*   ruff, mypy         "clean", "findings", "garbled" or "silent"         *)
(*   mapped, boundary   tests of each criterion; criteria that cross       *)
(*   severities         of the SAST and SCA findings                       *)
(*   markers, tier      what a reviewer would mark; risk tier              *)
(*   baseline, current  <<direction, value, tolerance in percent>>, metric *)
(*   index, unopened    the index server's outcome; references not opened  *)
(***************************************************************************)
EXTENDS Naturals, FiniteSets, Sequences

CONSTANTS
  Files,        \* files of the workspace
  PyFiles,      \* those ending in .py
  TestsIn,      \* TestsIn[f]: the tests of file f
  Known,        \* known_preexisting_failures
  Integration,  \* integration_test_ids
  StorySize     \* risk.story_size of the plan artifact

ASSUME VerificationAssumption ==
  /\ PyFiles \subseteq Files /\ DOMAIN TestsIn = Files
  /\ StorySize \in {"S", "M", "L"}

Tests == UNION {TestsIn[f] : f \in Files}

\* What the tools can find: the values of a change's fields.
IsChange(c) ==
  /\ DOMAIN c = {"touched", "declared", "pytest", "broken", "flaky", "ruff", "mypy", "mapped",
                 "boundary", "severities", "markers", "tier", "baseline", "current", "index",
                 "unopened"}
  /\ c.pytest \in {"runs", "crashes", "missing"}
  /\ {c.ruff, c.mypy} \subseteq {"clean", "findings", "garbled", "silent"}
  /\ c.severities \subseteq {"low", "medium", "high", "critical"}
  /\ c.markers \subseteq {"BUG:", "SECURITY-ISSUE:", "SUBTLE:"}

(***************************************************************************)
(* Layer 1, the existing tests.                                            *)
(***************************************************************************)

\* run_pytest: exit code, and the test cases found in the results file.
RunPytest(c, targets) ==
  CASE c.pytest = "missing" -> [code |-> 1, cases |-> {}, failing |-> {}]
    [] c.pytest = "crashes" -> [code |-> 2, cases |-> {}, failing |-> {}]
    [] c.pytest = "runs" /\ targets = {} -> [code |-> 5, cases |-> {}, failing |-> {}]
    [] OTHER ->
         LET failing == targets \cap (c.broken \cup c.flaky)
         IN  [code |-> IF failing = {} THEN 0 ELSE 1, cases |-> targets, failing |-> failing]

\* rerun_failures_and_classify, the genuine ones: a test that passes when it
\* is run again, alone, is flaky.
RerunFailures(c, failing) ==
  {t \in failing : LET again == RunPytest([c EXCEPT !.flaky = {}], {t})
                   IN  again.cases = {} \/ again.failing # {}}

\* run_existing_test_suite_layer, with known_preexisting_failures
ExistingTestSuite(c, targets, known) ==
  LET run == RunPytest(c, targets)
      genuine == RerunFailures(c, run.failing)
  IN  IF run.code \notin {0, 1} THEN "fail"
      ELSE IF run.failing = {} THEN "pass"
      ELSE IF genuine \ known # {} THEN "fail" ELSE "flagged-pass"

(***************************************************************************)
(* The other layers.                                                       *)
(***************************************************************************)

\* run_acceptance_criteria_mapping_layer: every criterion has a test, the
\* tests are there and pass, and a boundary is crossed by an integration test.
AcceptanceCriteriaMapping(c) ==
  LET ids == UNION {c.mapped[k] : k \in DOMAIN c.mapped}
      run == RunPytest(c, ids \cap Tests)
  IN  IF \/ \E k \in DOMAIN c.mapped : c.mapped[k] = {}
         \/ ids \ run.cases # {}
         \/ run.failing # {}
         \/ \E k \in c.boundary : c.mapped[k] \cap Integration = {}
      THEN "fail" ELSE "pass"

\* RuffLinter.run: nothing on stdout is no finding, also when ruff could not
\* be started; what cannot be parsed is one.
RuffFinds(c) == c.ruff \in {"findings", "garbled"}

\* MypyTypeChecker.run: only the lines with a severity count.
MypyFinds(c) == c.mypy = "findings"

\* run_static_analysis_layer
StaticAnalysis(c) == IF RuffFinds(c) \/ MypyFinds(c) THEN "fail" ELSE "pass"

Severity == [low |-> 0, medium |-> 1, high |-> 2, critical |-> 3]

\* run_security_scan_layer, with block_at_severity = "high"
SecurityScan(c) ==
  IF \E s \in c.severities : Severity[s] >= Severity["high"] THEN "fail"
  ELSE IF c.severities # {} THEN "flagged-pass" ELSE "pass"

\* select_reviewer_backend: the markers each reviewer looks for.
ReviewerMarkers(tier) ==
  {"BUG:", "SECURITY-ISSUE:"} \cup
  (IF tier \in {"high", "cross-cutting"} THEN {"SUBTLE:"} ELSE {})

\* run_isolated_review_layer
IsolatedReview(c) == IF c.markers \cap ReviewerMarkers(c.tier) # {} THEN "fail" ELSE "pass"

\* is_regression, in hundredths.
IsRegression(baseline, current) ==
  LET value == baseline[2] tolerance == baseline[3] IN
  IF baseline[1] = "lower_is_better" THEN 100 * current > value * (100 + tolerance)
  ELSE 100 * current < value * (100 - tolerance)

\* run_regression_check_layer: without a recorded baseline it is skipped.
RegressionCheck(c) ==
  IF c.baseline = <<>> THEN "skipped"
  ELSE IF IsRegression(c.baseline, c.current) THEN "fail" ELSE "pass"

\* run_completion_check_layer: a reference that was never opened pauses.
CompletionCheck(c) ==
  IF c.index = "error" THEN "error"
  ELSE IF c.index = "ok" /\ c.unopened # {} THEN "checkpoint" ELSE "pass"

(***************************************************************************)
(* The report and the budget.                                              *)
(***************************************************************************)

LayerNames ==
  {"existing_test_suite", "acceptance_criteria_mapping", "static_analysis", "security_scan",
   "isolated_context_review", "behavioral_regression_check", "cross_codebase_completion_check"}

\* VerificationReport.eligible_for_human_review: a result of every layer is
\* there (all_layers_ran) and none of them blocks.
Eligible(results) ==
  /\ LayerNames \subseteq DOMAIN results
  /\ \A l \in DOMAIN results : results[l] \notin {"fail", "checkpoint", "error"}

\* RealVerificationRunner._real_scope_paths
RealScopePaths(c) ==
  IF c.touched # {} THEN c.touched ELSE IF c.declared # {} THEN c.declared ELSE Files

\* RealVerificationRunner._pytest_target_paths, and the tests in those files.
PytestTargets(c) ==
  LET py == RealScopePaths(c) \cap PyFiles
  IN  UNION {TestsIn[f] : f \in IF py = {} THEN Files ELSE py}

\* What each caller of submit_attempt has run.  RealVerificationRunner ("two")
\* runs two layers and reports the other five skipped; a caller of all seven
\* layers also knows tests that failed before; a caller that hands over its
\* two results alone ("bare") has left layers out.
KnownTo(runner) == IF runner = "seven" THEN Known ELSE {}
LayersOf(runner) ==
  IF runner = "bare" THEN {"existing_test_suite", "static_analysis"} ELSE LayerNames

LayerResult(runner, c, layer) ==
  IF layer = "existing_test_suite" THEN ExistingTestSuite(c, PytestTargets(c), KnownTo(runner))
  ELSE IF layer = "static_analysis" THEN StaticAnalysis(c)
  ELSE IF runner # "seven" THEN "skipped"
  ELSE CASE layer = "acceptance_criteria_mapping" -> AcceptanceCriteriaMapping(c)
         [] layer = "security_scan" -> SecurityScan(c)
         [] layer = "isolated_context_review" -> IsolatedReview(c)
         [] layer = "behavioral_regression_check" -> RegressionCheck(c)
         [] layer = "cross_codebase_completion_check" -> CompletionCheck(c)

\* RealVerificationRunner.run, up to submit_attempt
LayerResults(runner, c) == [layer \in LayersOf(runner) |-> LayerResult(runner, c, layer)]

\* RETRY_ATTEMPTS_BY_SIZE
RetryAttempts == [S |-> 2, M |-> 3, L |-> 4]
MaxAttempts == RetryAttempts[StorySize]

\* RealVerificationRunner._pipeline_for, RetryBudget.for_story_size
NewPipeline == [used |-> 0, attempts |-> 0]

\* Variant: one retry too many.
ExhaustedLate(p) == p.used > MaxAttempts
\* RetryBudget.exhausted
Exhausted(p) == p.used >= MaxAttempts

\* submit_attempt: eligible, escalated, or one retry consumed.
SubmitAttempt(p, results) ==
  LET eligible == Eligible(results)
      escalated == ~eligible /\ Exhausted(p)
  IN  [eligible |-> eligible, escalated |-> escalated,
       pipeline |-> [attempts |-> p.attempts + 1,
                     used |-> IF eligible \/ escalated THEN p.used ELSE p.used + 1]]

(***************************************************************************)
(* What an eligible change must be, said without the layers.               *)
(***************************************************************************)

\* The tools did their work.
ToolsRan(c) == c.pytest = "runs" /\ c.ruff # "silent" /\ c.mypy \notin {"silent", "garbled"}

Clean(runner, c) ==
  /\ PytestTargets(c) \cap c.broken \subseteq KnownTo(runner)
  /\ PytestTargets(c) # {}
  /\ "findings" \notin {c.ruff, c.mypy}
  /\ runner = "seven" =>
       /\ \A k \in DOMAIN c.mapped :
            c.mapped[k] # {} /\ c.mapped[k] \subseteq Tests \ (c.broken \cup c.flaky)
       /\ \A k \in c.boundary : c.mapped[k] \cap Integration # {}
       /\ c.severities \subseteq {"low", "medium"}
       /\ c.markers \subseteq {"SUBTLE:"} /\ (c.tier \in {"high", "cross-cutting"} => c.markers = {})
       /\ c.baseline # <<>> => ~IsRegression(c.baseline, c.current)
       /\ c.index = "ok" => c.unopened = {}
=============================================================================
