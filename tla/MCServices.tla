------------------------------ MODULE MCServices ------------------------------
(***************************************************************************)
(* Four services that share no state, in one run: `part' chooses the one   *)
(* that runs, so their product adds no behaviour.                          *)
(*                                                                         *)
(* registry: two clients on one run.                                       *)
(*                                                                         *)
(* verification, node, board: a run on a node (TenantCell).  A workspace   *)
(* with a test that is known to fail and one that is not, where each       *)
(* change differs from a clean one in what one or two layers look at.  A   *)
(* window of two requests' time and up to three requests in flight, so     *)
(* that a drain may end early, just in time or by its budget; two nodes,   *)
(* so that a run is verified by two processes.  The board neither reads    *)
(* nor writes what a warning does, nor a warning what the layers found:    *)
(* each has a part of its own, with the other two kept simple.             *)
(*                                                                         *)
(* tracker: two callers with two operations each, and three between them,  *)
(* on a site with two issues, one waiting to be picked up; one request     *)
(* that goes wrong and one change by a person at any moment.               *)
(*                                                                         *)
(* release: two managers, two platform versions, three operations between  *)
(* them, one kill, one tofu run that goes wrong and one edit of the        *)
(* module.                                                                 *)
(***************************************************************************)
EXTENDS RunRegistry, TenantCell, IssueTracker, PlatformRelease

CONSTANTS
  FewVersions,    \* bound: versions of the row in the parts node and board
  TrackerOps      \* bound: operations of both callers of the tracker

VARIABLE part

Symmetry == Permutations(Clients)

-----------------------------------------------------------------------------
(* TenantCell. *)
MCTestsIn == [f \in Files |-> IF f = "test.py" THEN {"t1", "t2"} ELSE {}]
CleanChange ==
  [touched |-> {"code.py", "test.py"}, declared |-> {}, pytest |-> "runs", broken |-> {}, flaky |-> {},
   ruff |-> "clean", mypy |-> "clean", mapped |-> [k \in {"k"} |-> {"t1"}], boundary |-> {"k"},
   severities |-> {"low"}, markers |-> {}, tier |-> "high",
   baseline |-> <<"lower_is_better", 10, 10>>, current |-> 11, index |-> "ok", unopened |-> {}]
MCChanges ==
  {[CleanChange EXCEPT !.broken = b, !.flaky = f] : b \in SUBSET {"t1", "t2"}, f \in {{}, {"t1"}}}
    \cup {[CleanChange EXCEPT !.touched = t, !.declared = d, !.broken = b] :
            t \in {{}, {"conf"}, {"code.py"}}, d \in {{}, {"test.py"}}, b \in {{}, {"t1"}}}
    \cup {[CleanChange EXCEPT !.pytest = p, !.broken = {"t1"}] : p \in {"crashes", "missing"}}
    \cup {[CleanChange EXCEPT !.ruff = x] : x \in {"findings", "garbled", "silent"}}
    \cup {[CleanChange EXCEPT !.mypy = x] : x \in {"findings", "silent"}}
    \cup {[CleanChange EXCEPT !.severities = x] : x \in {{}, {"medium", "high"}}}
    \cup {[CleanChange EXCEPT !.markers = {"SUBTLE:"}, !.tier = x] : x \in {"high", "low"}}
    \cup {[CleanChange EXCEPT !.baseline = x, !.current = y] :
            x \in {<<>>, <<"higher_is_better", 10, 10>>}, y \in {8, 12}}
    \cup {[CleanChange EXCEPT !.mapped = x] : x \in {[k \in {"k"} |-> {}], [k \in {"k"} |-> {"t2"}]}}
    \cup {[CleanChange EXCEPT !.index = x, !.unopened = {"r"}] : x \in {"ok", "empty", "error"}}

-----------------------------------------------------------------------------
(* IssueTracker. *)
Config == [complete |-> TRUE, label |-> TRUE, issueType |-> "none", repository |-> TRUE,
           secret |-> TRUE, epicLink |-> "parent", trigger |-> "Selected", approval |-> "In Progress",
           changeReview |-> "In Review", done |-> "Done"]
MCConfigs == {Config, [Config EXCEPT !.complete = FALSE],
              [Config EXCEPT !.secret = FALSE, !.epicLink = "customfield"],
              [Config EXCEPT !.label = FALSE, !.epicLink = "unset"]}
Issue(type, status) ==
  [type |-> type, summary |-> "old", epic |-> 0, link |-> "none", status |-> status,
   opted |-> "no", archived |-> FALSE, blockers |-> {}, comments |-> 0]
MCFirstIssues ==
  <<Issue("Task", "Selected"), [Issue("Bug", "Done") EXCEPT !.archived = TRUE]>>
MCWorkflow == [s \in {"Backlog", "Selected", "In Progress", "In Review", "Done"} |->
                CASE s = "Backlog" -> {} [] s = "Selected" -> {"In Progress"}
                  [] s = "In Progress" -> {"In Review"} [] s = "In Review" -> {"Done"}
                  [] s = "Done" -> {}]
R(tool) == [tool |-> tool, valid |-> TRUE, key |-> 1, summary |-> "s", epic |-> 1,
            deps |-> <<>>, target |-> "In Progress", comment |-> TRUE]
MCOneOff ==
  {[R("transition-status") EXCEPT !.target = "Selected"], R("transition-status"),
   [R("transition-status") EXCEPT !.target = "Done", !.comment = FALSE],
   R("create-epic"), R("post-comment"), [R("post-comment") EXCEPT !.comment = FALSE],
   R("assign"), R("confluence"), R("get-issue"),
   [R("get-issue") EXCEPT !.key = 2], [R("get-issue") EXCEPT !.key = 9],
   [R("event") EXCEPT !.key = 2], [R("event") EXCEPT !.key = 9],
   [R("transition-status") EXCEPT !.key = 9], [R("assign") EXCEPT !.key = 9],
   R("unknown"), [R("get-issue") EXCEPT !.valid = FALSE]}
MCAsked ==
  [c \in Callers |->
     IF c = "c1" THEN {[R("create-story") EXCEPT !.deps = <<1, 2>>]} \cup MCOneOff
     ELSE {R("create-story"), R("event")}]

-----------------------------------------------------------------------------
(* PlatformRelease. *)
MCCheckouts == {{"no report"}, {"exit 0", "timeout"}, {"no venv", "no tests"}}
MCRouters == {[salt |-> "s", fraction |-> 20], [salt |-> "s", fraction |-> 70],
              [salt |-> "t", fraction |-> 20]}
MCBucket == [s \in {"s", "t"} |-> [i \in Identifiers |-> IF (i = "i1") = (s = "s") THEN 10 ELSE 60]]

-----------------------------------------------------------------------------
ServicesInit ==
  /\ part \in {"registry", "verification", "node", "board", "tracker", "release"}
  /\ Init /\ CellInit /\ TrackerInit /\ ReleaseInit
  /\ part # "tracker" => config = Config

ServicesNext ==
  /\ UNCHANGED part
  /\ \/ part = "registry" /\ Next /\ UNCHANGED <<cellVars, trackerVars, releaseVars>>
     \/ /\ part \in {"verification", "node", "board"} /\ CellNext
        /\ part # "board" => UNCHANGED board
        /\ part # "node" => UNCHANGED watcher /\ requested' <= 1
        /\ part # "verification" => row'.version <= FewVersions /\ orch'.runner \in {"none", "two"}
        /\ UNCHANGED <<vars, trackerVars, releaseVars>>
     \/ /\ part = "tracker" /\ TrackerNext /\ ops'["c1"] + ops'["c2"] <= TrackerOps
        /\ UNCHANGED <<vars, cellVars, releaseVars>>
     \/ part = "release" /\ ReleaseNext /\ UNCHANGED <<vars, cellVars, trackerVars>>

ServicesSpec ==
  ServicesInit /\ [][ServicesNext]_<<part, vars, cellVars, trackerVars, releaseVars>>
=============================================================================
