---------------------------- MODULE RunLifecycle ----------------------------
(***************************************************************************)
(* What a Run promises the people in charge of it, without plans, diffs,   *)
(* processes or crashes: which stage changes are the system's own, which   *)
(* wait for a human, and that a pending question holds everything up.      *)
(***************************************************************************)
EXTENDS RunStages, Integers

VARIABLES
  stage,      \* the stage of the run
  question,   \* the checkpoint question: "none", "pending" or "resolved"
  mandate,    \* the human decision being carried out, as a set of at most one
  decisions   \* how many decisions humans have taken

vars == <<stage, question, mandate, decisions>>

GATES == {PLAN_APPROVAL_GATE, CHANGE_REVIEW_GATE}

Answers == {"continue", "extend_scope", "stop"}

Init ==
  /\ stage = INTAKE
  /\ question = "none"
  /\ mandate = {}
  /\ decisions = 0

\* The system moves on by itself: never out of a gate, never past a pending
\* question, and never to ABANDONED.
Work(s) ==
  /\ question # "pending"
  /\ mandate = {}
  /\ stage \notin GATES
  /\ <<stage, s>> \in LEGAL_TRANSITIONS
  /\ stage' = s
  /\ UNCHANGED <<question, mandate, decisions>>

\* The system asks; it does so only while it writes or checks code.
AskHuman ==
  /\ stage \in {IMPLEMENTATION, VERIFICATION}
  /\ question # "pending"
  /\ mandate = {}
  /\ question' = "pending"
  /\ UNCHANGED <<stage, mandate, decisions>>

\* A human decides, at a gate or on a pending question.
Decide(m) ==
  /\ mandate = {}
  /\ \/ stage \in GATES /\ is_legal_transition(stage, m)
     \/ question = "pending" /\ m \in Answers
  /\ mandate' = {m}
  /\ decisions' = decisions + 1
  /\ UNCHANGED <<stage, question>>

\* The answer is recorded; "stop" still has to be carried out.
Settle ==
  /\ question = "pending"
  /\ \E m \in mandate \cap Answers :
       mandate' = IF m = "stop" THEN {ABANDONED} ELSE {}
  /\ question' = "resolved"
  /\ UNCHANGED <<stage, decisions>>

\* The decision takes effect on the stage.
Carry ==
  /\ \E s \in mandate \cap ALL_STAGES : stage' = s
  /\ mandate' = {}
  /\ UNCHANGED <<question, decisions>>

\* The process that carried the decision is gone, and the decision with it.
Forget ==
  /\ mandate # {}
  /\ mandate' = {}
  /\ UNCHANGED <<stage, question, decisions>>

Next ==
  \/ \E s \in ALL_STAGES : Work(s)
  \/ AskHuman
  \/ \E m \in ALL_STAGES \cup Answers : Decide(m)
  \/ Settle \/ Carry \/ Forget

Spec == Init /\ [][Next]_vars
=============================================================================
