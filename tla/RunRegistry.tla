----------------------------- MODULE RunRegistry -----------------------------
(***************************************************************************)
(* The Run Registry (services/run-registry): the rows of its three tables  *)
(* and the calls that read and write them.                                 *)
(*                                                                         *)
(* A client is one process that holds its own RegistryService, hence its   *)
(* own SQLite connection to the shared file.  Inside a process the         *)
(* service's lock lets one call run at a time.  Between processes there is *)
(* no such lock: a mutating call reads the run in one SQLite read          *)
(* (action Call...), writes it in a later transaction whose last statement *)
(* is conditional on the version (Commit...), and reads the run back in a  *)
(* third step to build its answer (Reply).  Other processes run in         *)
(* between.  A transaction is atomic: it commits as a whole or, when the   *)
(* process dies or the database is locked, not at all (Raise).             *)
(***************************************************************************)
EXTENDS RunStages, Integers, Sequences

CONSTANTS
  Clients,     \* processes that hold a RegistryService
  Tenants,     \* tenant ids
  Runs,        \* run ids create_run may draw
  Traces,      \* trace ids
  Pointers,    \* values of checkpoint_pointer
  Nodes,       \* values of the execution location
  AppendReasons, \* the reasons callers give append_attempt
  MaxVersion,  \* bound: no call starts on a run of this version
  NoRun,       \* no such row
  Null         \* SQL NULL, and "nothing read yet"

Reasons == {"initial", "re-plan", "retry", "resumed-after-interruption"}
CapacityClasses == {"spot", "on_demand"}

RunRow ==
  [tenant_id: Tenants, stage: ALL_STAGES, capacity_class: CapacityClasses,
   checkpoint_pointer: Pointers \cup {Null}, exec_node: Nodes \cup {Null},
   trace_id: Traces, current_attempt_id: Nat \ {0}, version: Nat \ {0}]

\* A nullable timestamp column (end_ts, exited_at): only whether it is set
\* matters.
Timestamps == {"NULL", "set"}

\* An Attempt's id is its position in the run's list: attempt_number is
\* count_attempts + 1 and the list is ordered by it.
AttemptRow ==
  [reason: Reasons, starting_stage: ALL_STAGES, trace_id: Traces,
   end_ts: Timestamps]

HistoryRow ==
  [stage: ALL_STAGES, attempt_id: Nat \ {0}, exited_at: Timestamps]

StageOps == {"append_attempt", "transition_stage"}
FieldOps == {"write_checkpoint", "write_execution_location"}

\* A call between its read and its transaction: what was asked, and the row
\* the read returned.  Only the stage operations name a stage.
Op ==
  [kind: StageOps, tenant_id: Tenants, run_id: Runs, expected_version: Nat,
   stage: ALL_STAGES, seen: RunRow]
  \cup
  [kind: FieldOps, tenant_id: Tenants, run_id: Runs, expected_version: Nat,
   stage: {Null}, seen: RunRow]

\* A call between its commit and its answer.
Answer == [kind: {"answer"}, tenant_id: Tenants, run_id: Runs]

ASSUME ConstantsAssumption ==
  /\ AppendReasons \subseteq Reasons
  /\ MaxVersion \in Nat \ {0}
  /\ NoRun \notin RunRow
  /\ Null \notin Op
  /\ Null \notin Answer

VARIABLES
  runs,      \* table runs
  attempts,  \* table attempts, per run in attempt_number order
  history,   \* table stage_history, per run in insertion order
  op,        \* per client: the call in flight, or Null
  last       \* per client: the <<run, version>> it last read, or Null

vars == <<runs, attempts, history, op, last>>

Init ==
  /\ runs = [r \in Runs |-> NoRun]
  /\ attempts = [r \in Runs |-> <<>>]
  /\ history = [r \in Runs |-> <<>>]
  /\ op = [c \in Clients |-> Null]
  /\ last = [c \in Clients |-> Null]

-----------------------------------------------------------------------------
(* repository.py: the queries.  Every one is scoped by tenant_id.          *)

get_run(t, r) ==
  IF runs[r] # NoRun /\ runs[r].tenant_id = t THEN runs[r] ELSE NoRun

list_runs(t, stage) ==
  {r \in Runs : get_run(t, r) # NoRun /\ runs[r].stage = stage}

\* Mutant: the attempt is never sealed.
close_attempt_never(s, id) == s

\* close_attempt seals an open attempt of the list s, and leaves a sealed one.
close_attempt(s, id) ==
  [i \in 1..Len(s) |-> IF i = id THEN [s[i] EXCEPT !.end_ts = "set"] ELSE s[i]]

close_open_stage_history(h) ==
  [i \in 1..Len(h) |-> [h[i] EXCEPT !.exited_at = "set"]]

\* Mutant: the new row replaces the latest one.
insert_attempt_replaces(s, reason, stage, trace) ==
  Append(SubSeq(s, 1, Len(s) - 1),
         [reason |-> reason, starting_stage |-> stage, trace_id |-> trace,
          end_ts |-> "NULL"])

insert_attempt(s, reason, stage, trace) ==
  Append(s, [reason |-> reason, starting_stage |-> stage, trace_id |-> trace,
             end_ts |-> "NULL"])

insert_stage_history(h, attempt, stage) ==
  Append(h, [stage |-> stage, attempt_id |-> attempt, exited_at |-> "NULL"])

\* Mutant: the UPDATE is not conditional on the version.
update_run_matches_any_version(o) == get_run(o.tenant_id, o.run_id) # NoRun

\* The WHERE clause of update_run: does the row still match?
update_run_matches(o) ==
  /\ get_run(o.tenant_id, o.run_id) # NoRun
  /\ runs[o.run_id].version = o.expected_version

-----------------------------------------------------------------------------
(* service.py: reads.  An empty result changes nothing and tells the       *)
(* caller nothing: it is a stuttering step.                                *)

GetRun(c, t, r) ==
  /\ op[c] = Null
  /\ get_run(t, r) # NoRun
  /\ last' = [last EXCEPT ![c] = <<r, get_run(t, r).version>>]
  /\ UNCHANGED <<runs, attempts, history, op>>

\* A page of list_runs carries whole rows; the caller goes on with one.
ListRuns(c, t, stage) ==
  /\ op[c] = Null
  /\ \E r \in list_runs(t, stage) :
       last' = [last EXCEPT ![c] = <<r, runs[r].version>>]
  /\ UNCHANGED <<runs, attempts, history, op>>

-----------------------------------------------------------------------------
(* service.py: create_run.  One transaction, then the read-back.           *)

CreateRun(c, t, r, trace, capacity) ==
  /\ op[c] = Null
  /\ runs[r] = NoRun
  /\ attempts' = [attempts EXCEPT
       ![r] = insert_attempt(<<>>, "initial", INTAKE, trace)]
  /\ history' = [history EXCEPT ![r] = insert_stage_history(<<>>, 1, INTAKE)]
  /\ runs' = [runs EXCEPT ![r] =
       [tenant_id |-> t, stage |-> INTAKE, capacity_class |-> capacity,
        checkpoint_pointer |-> Null, exec_node |-> Null, trace_id |-> trace,
        current_attempt_id |-> 1, version |-> 1]]
  /\ op' = [op EXCEPT ![c] = [kind |-> "answer", tenant_id |-> t, run_id |-> r]]
  /\ UNCHANGED last

-----------------------------------------------------------------------------
(* service.py: the four conditional writes.  CallWrite is the part of each *)
(* before its transaction: the read and the checks.  A call that fails one *)
(* (empty, STALE_VERSION, ILLEGAL_TRANSITION) returns with nothing         *)
(* changed, again a stuttering step.  The expected version is the one this *)
(* caller last read of the run.                                            *)

\* Mutant: the vocabulary is not consulted.
legal_request_unchecked(kind, row, stage) == TRUE

legal_request(kind, row, stage) ==
  CASE kind = "append_attempt" ->
         stage = row.stage \/ is_legal_transition(row.stage, stage)
    [] kind = "transition_stage" -> is_legal_transition(row.stage, stage)
    [] OTHER -> TRUE

CallWrite(c, kind, t, stage) ==
  /\ op[c] = Null
  /\ last[c] # Null
  /\ LET r == last[c][1]
         expected == last[c][2]
         row == get_run(t, r)
     IN  /\ expected < MaxVersion
         /\ row # NoRun
         /\ row.version = expected
         /\ legal_request(kind, row, stage)
         /\ op' = [op EXCEPT ![c] =
              [kind |-> kind, tenant_id |-> t, run_id |-> r,
               expected_version |-> expected, stage |-> stage, seen |-> row]]
  /\ UNCHANGED <<runs, attempts, history, last>>

\* rowcount = 0: the transaction is rolled back, the caller gets
\* STALE_VERSION.
Rollback(c) ==
  /\ op[c] # Null /\ op[c].kind # "answer"
  /\ ~update_run_matches(op[c])
  /\ op' = [op EXCEPT ![c] = Null]
  /\ UNCHANGED <<runs, attempts, history, last>>

\* The process dies, or SQLite raises ("database is locked").  Before the
\* commit nothing is written; after it the write stands.  Either way the
\* caller has no answer.
Raise(c) ==
  /\ op[c] # Null
  /\ op' = [op EXCEPT ![c] = Null]
  /\ UNCHANGED <<runs, attempts, history, last>>

committing(c, kind) ==
  /\ op[c] # Null /\ op[c].kind = kind
  /\ update_run_matches(op[c])

answering(c) ==
  /\ op' = [op EXCEPT ![c] = [kind |-> "answer", tenant_id |-> op[c].tenant_id,
                              run_id |-> op[c].run_id]]
  /\ UNCHANGED last

\* The answer is the new Attempt, found by its id: it carries no version.
CommitAppendAttempt(c, reason, trace) ==
  LET o == op[c]
      r == o.run_id
      id == Len(attempts[r]) + 1
  IN  /\ committing(c, "append_attempt")
      /\ attempts' = [attempts EXCEPT ![r] =
           insert_attempt(close_attempt(@, o.seen.current_attempt_id),
                          reason, o.stage, trace)]
      /\ history' = [history EXCEPT ![r] =
           insert_stage_history(close_open_stage_history(@), id, o.stage)]
      /\ runs' = [runs EXCEPT
           ![r].stage = o.stage, ![r].current_attempt_id = id,
           ![r].trace_id = trace, ![r].version = @ + 1]
      /\ op' = [op EXCEPT ![c] = Null]
      /\ UNCHANGED last

CommitTransitionStage(c) ==
  LET o == op[c]
      r == o.run_id
      id == o.seen.current_attempt_id
  IN  /\ committing(c, "transition_stage")
      /\ attempts' = [attempts EXCEPT ![r] =
           IF o.stage \in TERMINAL_STAGES THEN close_attempt(@, id) ELSE @]
      /\ history' = [history EXCEPT ![r] =
           insert_stage_history(close_open_stage_history(@), id, o.stage)]
      /\ runs' = [runs EXCEPT ![r].stage = o.stage, ![r].version = @ + 1]
      /\ answering(c)

\* capacity is Null when the caller leaves the capacity class out.
CommitWriteCheckpoint(c, pointer, capacity) ==
  LET r == op[c].run_id
  IN  /\ committing(c, "write_checkpoint")
      /\ runs' = [runs EXCEPT
           ![r].checkpoint_pointer = pointer,
           ![r].capacity_class = IF capacity = Null THEN @ ELSE capacity,
           ![r].version = @ + 1]
      /\ answering(c)
      /\ UNCHANGED <<attempts, history>>

CommitWriteExecutionLocation(c, node) ==
  LET r == op[c].run_id
  IN  /\ committing(c, "write_execution_location")
      /\ runs' = [runs EXCEPT ![r].exec_node = node, ![r].version = @ + 1]
      /\ answering(c)
      /\ UNCHANGED <<attempts, history>>

\* The read-back after the commit returns the row as it is by then.
Reply(c) ==
  /\ op[c] # Null /\ op[c].kind = "answer"
  /\ LET row == get_run(op[c].tenant_id, op[c].run_id)
     IN  last' = [last EXCEPT ![c] = <<op[c].run_id, row.version>>]
  /\ op' = [op EXCEPT ![c] = Null]
  /\ UNCHANGED <<runs, attempts, history>>

-----------------------------------------------------------------------------
ClientStep(c) ==
  \/ \E t \in Tenants, r \in Runs : GetRun(c, t, r)
  \/ \E t \in Tenants, stage \in ALL_STAGES : ListRuns(c, t, stage)
  \/ \E t \in Tenants, r \in Runs, trace \in Traces, cap \in CapacityClasses :
       CreateRun(c, t, r, trace, cap)
  \/ \E kind \in StageOps, t \in Tenants, stage \in ALL_STAGES :
       CallWrite(c, kind, t, stage)
  \/ \E kind \in FieldOps, t \in Tenants : CallWrite(c, kind, t, Null)
  \/ \E reason \in AppendReasons, trace \in Traces :
       CommitAppendAttempt(c, reason, trace)
  \/ CommitTransitionStage(c)
  \/ \E p \in Pointers, cap \in CapacityClasses \cup {Null} :
       CommitWriteCheckpoint(c, p, cap)
  \/ \E n \in Nodes : CommitWriteExecutionLocation(c, n)
  \/ Rollback(c)
  \/ Raise(c)
  \/ Reply(c)

Next == \E c \in Clients : ClientStep(c)

Spec == Init /\ [][Next]_vars

-----------------------------------------------------------------------------
(* Properties.                                                             *)

Exists(r) == runs[r] # NoRun

\* Every table holds rows of its type, and every call in flight is
\* well-formed.
TypeOK ==
  /\ runs \in [Runs -> RunRow \cup {NoRun}]
  /\ attempts \in [Runs -> Seq(AttemptRow)]
  /\ history \in [Runs -> Seq(HistoryRow)]
  /\ op \in [Clients -> Op \cup Answer \cup {Null}]
  /\ last \in [Clients -> (Runs \X Nat) \cup {Null}]

\* current_attempt_id points at the latest Attempt, every earlier Attempt is
\* sealed, the latest one is open while the Run is not terminal, and the
\* Run's trace_id mirrors it.
CurrentAttemptIsLatest ==
  \A r \in Runs : Exists(r) =>
    LET n == runs[r].current_attempt_id IN
      /\ n = Len(attempts[r])
      /\ \A i \in 1..Len(attempts[r]) : i # n => attempts[r][i].end_ts = "set"
      /\ runs[r].stage \notin TERMINAL_STAGES =>
           attempts[r][n].end_ts = "NULL"
      /\ attempts[r][n].trace_id = runs[r].trace_id

\* stage_history has exactly one open entry, the last; it names the Run's
\* stage and its current Attempt.
OpenHistoryIsCurrentStage ==
  \A r \in Runs : Exists(r) =>
    LET n == Len(history[r]) IN
      /\ n > 0
      /\ \A i \in 1..n : (history[r][i].exited_at = "NULL") <=> (i = n)
      /\ history[r][n].stage = runs[r].stage
      /\ history[r][n].attempt_id = runs[r].current_attempt_id

\* The stage history of a Run is a path of the transition graph from intake:
\* two consecutive entries are a legal transition, or the same stage entered
\* again by a new Attempt.
HistoryIsLegalPath ==
  \A r \in Runs : \A i \in 1..Len(history[r]) :
    IF i = 1
      THEN history[r][i].stage = INTAKE
      ELSE LET from == history[r][i - 1]
               to == history[r][i]
           IN  \/ is_legal_transition(from.stage, to.stage)
               \/ from.stage = to.stage /\ to.attempt_id = from.attempt_id + 1

\* Fail closed: a call that got past its read names the tenant its Run
\* belongs to.
TenantScoped ==
  \A c \in Clients :
    op[c] # Null => /\ Exists(op[c].run_id)
                    /\ runs[op[c].run_id].tenant_id = op[c].tenant_id

\* A call between its read and its transaction holds the row as it was at
\* the version it expects: as long as the version has not moved, nothing
\* else of the row has.
InFlightSeesItsVersion ==
  \A c \in Clients : op[c] # Null /\ op[c].kind # "answer" =>
    LET o == op[c]
        row == runs[o.run_id]
    IN  /\ o.seen.version = o.expected_version
        /\ o.expected_version <= row.version
        /\ row.version = o.expected_version => row = o.seen
        /\ legal_request(o.kind, o.seen, o.stage)

\* The three tables agree at every moment, whatever races and whatever fails
\* between the statements of a write (service.py): the current Attempt is the
\* latest and the only open one, the history's one open entry is the Run's
\* stage and the history is a legal path, and a call in flight holds the row
\* as it was at its version.  This conjunction is inductive.
IInv ==
  /\ TypeOK
  /\ TenantScoped
  /\ InFlightSeesItsVersion
  /\ CurrentAttemptIsLatest
  /\ OpenHistoryIsCurrentStage
  /\ HistoryIsLegalPath

\* A client ends a call on run r that had read exactly the present row.
CommitsWhatItRead(r) ==
  \E c \in Clients :
    /\ op[c] # Null /\ op'[c] # op[c]
    /\ op[c].kind # "answer"
    /\ op[c].run_id = r
    /\ op[c].seen = runs[r]

\* No lost update: whoever changes a row computed the change from exactly
\* the row it replaces, even though another process may have written
\* between its read and its transaction.
WritesFromCurrentRow ==
  [][\A r \in Runs : Exists(r) /\ runs'[r] # runs[r] => CommitsWhatItRead(r)]_vars

\* Attempts are append-only: a recorded Attempt keeps its fields, is sealed
\* at most once and is never reopened; at most one is added at a time.
AttemptsAppendOnly ==
  [][\A r \in Runs :
       /\ Len(attempts'[r]) \in {Len(attempts[r]), Len(attempts[r]) + 1}
       /\ \A i \in 1..Len(attempts[r]) :
            /\ attempts'[r][i].reason = attempts[r][i].reason
            /\ attempts'[r][i].starting_stage = attempts[r][i].starting_stage
            /\ attempts'[r][i].trace_id = attempts[r][i].trace_id
            /\ attempts[r][i].end_ts = "set" => attempts'[r][i].end_ts = "set"]_vars

AdvancesOnly(row, new) ==
  /\ new # NoRun
  /\ new.tenant_id = row.tenant_id
  /\ row.stage \in TERMINAL_STAGES => new.stage = row.stage
  /\ new # row => new.version = row.version + 1

\* A terminal stage is final, a Run never disappears or changes tenant, and
\* every change of a row moves its version by exactly one.
RunsOnlyAdvance ==
  [][\A r \in Runs : Exists(r) => AdvancesOnly(runs[r], runs'[r])]_vars
=============================================================================
