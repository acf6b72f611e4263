------------------------------ MODULE RunStages ------------------------------
(***************************************************************************)
(* The fixed stage vocabulary of a Run and its legal next steps            *)
(* (services/run-registry/src/run_registry/stages.py).                     *)
(***************************************************************************)

INTAKE == "intake"
RESEARCH == "research"
PLAN_AUTHORING == "plan_authoring"
PLAN_APPROVAL_GATE == "plan_approval_gate"
IMPLEMENTATION == "implementation"
VERIFICATION == "verification"
CHANGE_REVIEW_GATE == "change_review_gate"
PACKAGING == "packaging"
RETROSPECTIVE == "retrospective"
COMPLETED == "completed"
ABANDONED == "abandoned"

NON_TERMINAL_STAGES ==
  {INTAKE, RESEARCH, PLAN_AUTHORING, PLAN_APPROVAL_GATE, IMPLEMENTATION,
   VERIFICATION, CHANGE_REVIEW_GATE, PACKAGING, RETROSPECTIVE}

TERMINAL_STAGES == {COMPLETED, ABANDONED}

ALL_STAGES == NON_TERMINAL_STAGES \cup TERMINAL_STAGES

\* The edges of the transition graph other than the one every non-terminal
\* stage has to ABANDONED.
LEGAL_TRANSITIONS ==
  {<<INTAKE, RESEARCH>>,
   <<RESEARCH, PLAN_AUTHORING>>,
   <<PLAN_AUTHORING, PLAN_APPROVAL_GATE>>,
   <<PLAN_APPROVAL_GATE, IMPLEMENTATION>>,
   <<PLAN_APPROVAL_GATE, PLAN_AUTHORING>>,
   <<IMPLEMENTATION, VERIFICATION>>,
   <<VERIFICATION, CHANGE_REVIEW_GATE>>,
   <<VERIFICATION, IMPLEMENTATION>>,
   <<CHANGE_REVIEW_GATE, PACKAGING>>,
   <<CHANGE_REVIEW_GATE, IMPLEMENTATION>>,
   <<PACKAGING, RETROSPECTIVE>>,
   <<RETROSPECTIVE, COMPLETED>>}

is_legal_transition(current_stage, next_stage) ==
  \/ <<current_stage, next_stage>> \in LEGAL_TRANSITIONS
  \/ current_stage \in NON_TERMINAL_STAGES /\ next_stage = ABANDONED

\* The transitions that are said to need a new Attempt.
NEW_ATTEMPT_TRIGGERING_TRANSITIONS == {<<PLAN_APPROVAL_GATE, PLAN_AUTHORING>>}

=============================================================================
