----------------------------- MODULE Checkpoints -----------------------------
(***************************************************************************)
(* The checkpoint triggers and budgets of a run                            *)
(* (services/orchestrator/src/orchestrator/checkpoints.py).                *)
(***************************************************************************)
EXTENDS Integers, Sequences, FiniteSets

STORY_SIZES == <<"S", "M", "L", "XL">>

DEFAULT_STUCK_RETRY_BUDGET == 3
SINGLE_FILE_LINE_MULTIPLIER == 3

\* DEFAULT_BUDGETS: XL has no budget, hence no entry.
DEFAULT_BUDGETS ==
  [S |-> [minutes |-> 30,  cost |-> 5,  lines |-> 150, files |-> 5],
   M |-> [minutes |-> 120, cost |-> 20, lines |-> 400, files |-> 15],
   L |-> [minutes |-> 360, cost |-> 60, lines |-> 800, files |-> 30]]

SizeIndex(size) == CHOOSE i \in DOMAIN STORY_SIZES : STORY_SIZES[i] = size

next_size_class(size) ==
  LET i == SizeIndex(size)
  IN  IF i = Len(STORY_SIZES) THEN size ELSE STORY_SIZES[i + 1]

\* The size class whose budget a plan is held to; "XL" is XLNotRunnableError.
resolve_size(size, cross_cutting) ==
  IF cross_cutting THEN next_size_class(size) ELSE size

-----------------------------------------------------------------------------
(* A trigger is its signature: the kind and the details that identify the  *)
(* occurrence.                                                             *)

Trigger(kind, lines, nfiles, out, fails) ==
  [kind |-> kind, lines |-> lines, nfiles |-> nfiles, out |-> out,
   fails |-> fails]

line_threshold(nfiles, budget) ==
  IF nfiles <= 1 THEN budget.lines * SINGLE_FILE_LINE_MULTIPLIER
                 ELSE budget.lines

size_exceeded(nfiles, lines, budget) ==
  lines > line_threshold(nfiles, budget) \/ nfiles > budget.files

check_size(files, lines, budget) ==
  IF size_exceeded(Cardinality(files), lines, budget)
    THEN <<Trigger("size", lines, Cardinality(files), {}, 0)>>
    ELSE <<>>

check_risk(files, scope) ==
  IF files \ scope # {} THEN <<Trigger("risk", 0, 0, files \ scope, 0)>>
                        ELSE <<>>

\* late: 80% of the time or cost budget is used up ("warn"), or all of it.
\* The details hold the elapsed time, so no two occurrences have the same
\* signature; the model leaves them out and never matches one against an
\* earlier one (see Unacknowledged).
check_time_cost(late) ==
  IF late # "no" THEN <<Trigger("time_cost", 0, 0, {}, 0)>> ELSE <<>>

\* Mutant: one failure too many before the question.
check_stuck_late(fails) ==
  IF fails > DEFAULT_STUCK_RETRY_BUDGET
    THEN <<Trigger("stuck", 0, 0, {}, fails)>> ELSE <<>>

check_stuck(fails) ==
  IF fails >= DEFAULT_STUCK_RETRY_BUDGET
    THEN <<Trigger("stuck", 0, 0, {}, fails)>> ELSE <<>>

evaluate_checkpoints(files, lines, scope, budget, late, fails) ==
  check_size(files, lines, budget) \o check_risk(files, scope)
    \o check_time_cost(late) \o check_stuck(fails)

\* The places in ts of the triggers a human has not answered yet.
Unacknowledged(ts, acked) ==
  {i \in DOMAIN ts : ts[i].kind = "time_cost" \/ ts[i] \notin acked}

=============================================================================
