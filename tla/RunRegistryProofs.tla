------------------------- MODULE RunRegistryProofs -------------------------
(* Proofs about RunRegistry, for every set of clients, tenants and runs.   *)
EXTENDS RunRegistry, TLAPS, SequenceTheorems

\* Sealing the open attempt keeps every attempt well-formed and leaves none open.
LEMMA CloseAttempt ==
  ASSUME NEW s \in Seq(AttemptRow), NEW id \in Nat
  PROVE  /\ close_attempt(s, id) \in Seq(AttemptRow)
         /\ Len(close_attempt(s, id)) = Len(s)
         /\ \A i \in 1..Len(s) :
              /\ close_attempt(s, id)[i].trace_id = s[i].trace_id
              /\ close_attempt(s, id)[i].reason = s[i].reason
              /\ close_attempt(s, id)[i].starting_stage = s[i].starting_stage
              /\ close_attempt(s, id)[i].end_ts =
                   IF i = id THEN "set" ELSE s[i].end_ts
  <1> DEFINE t == close_attempt(s, id)
  <1>0. Len(s) \in Nat
    OBVIOUS
  <1>1. ASSUME NEW i \in 1..Len(s)
        PROVE  /\ t[i] \in AttemptRow
               /\ t[i].trace_id = s[i].trace_id
               /\ t[i].reason = s[i].reason
               /\ t[i].starting_stage = s[i].starting_stage
               /\ t[i].end_ts = IF i = id THEN "set" ELSE s[i].end_ts
    <2>1. s[i] \in AttemptRow
      OBVIOUS
    <2>2. t[i] = IF i = id THEN [s[i] EXCEPT !.end_ts = "set"] ELSE s[i]
      BY DEF close_attempt
    <2>. QED BY <2>1, <2>2 DEF AttemptRow, Timestamps
  <1>2. t = [i \in 1..Len(s) |-> t[i]]
    BY DEF close_attempt
  <1>3. t \in Seq(AttemptRow) /\ Len(t) = Len(s)
    BY <1>0, <1>1, <1>2, SeqDef, LenProperties
  <1>. QED BY <1>1, <1>3

\* Closing the open stage_history row keeps the path and leaves none open.
LEMMA CloseHistory ==
  ASSUME NEW h \in Seq(HistoryRow)
  PROVE  /\ close_open_stage_history(h) \in Seq(HistoryRow)
         /\ Len(close_open_stage_history(h)) = Len(h)
         /\ \A i \in 1..Len(h) :
              /\ close_open_stage_history(h)[i].stage = h[i].stage
              /\ close_open_stage_history(h)[i].attempt_id = h[i].attempt_id
              /\ close_open_stage_history(h)[i].exited_at = "set"
  <1> DEFINE t == close_open_stage_history(h)
  <1>0. Len(h) \in Nat
    OBVIOUS
  <1>1. ASSUME NEW i \in 1..Len(h)
        PROVE  /\ t[i] \in HistoryRow
               /\ t[i].stage = h[i].stage
               /\ t[i].attempt_id = h[i].attempt_id
               /\ t[i].exited_at = "set"
    <2>1. h[i] \in HistoryRow
      OBVIOUS
    <2>2. t[i] = [h[i] EXCEPT !.exited_at = "set"]
      BY DEF close_open_stage_history
    <2>. QED BY <2>1, <2>2 DEF HistoryRow, Timestamps
  <1>2. t = [i \in 1..Len(h) |-> t[i]]
    BY DEF close_open_stage_history
  <1>3. t \in Seq(HistoryRow) /\ Len(t) = Len(h)
    BY <1>0, <1>1, <1>2, SeqDef, LenProperties
  <1>. QED BY <1>1, <1>3

\* Inserting an attempt adds one row at the end.
LEMMA InsertAttempt ==
  ASSUME NEW s \in Seq(AttemptRow), NEW reason \in Reasons,
         NEW stage \in ALL_STAGES, NEW trace \in Traces
  PROVE  LET t == insert_attempt(s, reason, stage, trace) IN
         /\ t \in Seq(AttemptRow)
         /\ Len(t) = Len(s) + 1
         /\ \A i \in 1..Len(s) : t[i] = s[i]
         /\ t[Len(s) + 1].end_ts = "NULL"
         /\ t[Len(s) + 1].trace_id = trace
  <1> DEFINE e == [reason |-> reason, starting_stage |-> stage,
                   trace_id |-> trace, end_ts |-> "NULL"]
  <1>1. e \in AttemptRow /\ e.end_ts = "NULL" /\ e.trace_id = trace
    BY DEF AttemptRow, Timestamps
  <1> HIDE DEF e
  <1>2. insert_attempt(s, reason, stage, trace) = Append(s, e)
    BY DEF insert_attempt, e
  <1>. QED BY <1>1, <1>2, AppendProperties

\* Inserting a stage_history row adds one open row at the end.
LEMMA InsertHistory ==
  ASSUME NEW h \in Seq(HistoryRow), NEW id \in Nat \ {0},
         NEW stage \in ALL_STAGES
  PROVE  LET t == insert_stage_history(h, id, stage) IN
         /\ t \in Seq(HistoryRow)
         /\ Len(t) = Len(h) + 1
         /\ \A i \in 1..Len(h) : t[i] = h[i]
         /\ t[Len(h) + 1].exited_at = "NULL"
         /\ t[Len(h) + 1].attempt_id = id
         /\ t[Len(h) + 1].stage = stage
  <1> DEFINE e == [stage |-> stage, attempt_id |-> id, exited_at |-> "NULL"]
  <1>1. e \in HistoryRow /\ e.exited_at = "NULL" /\ e.attempt_id = id
        /\ e.stage = stage
    BY DEF HistoryRow, Timestamps
  <1> HIDE DEF e
  <1>2. insert_stage_history(h, id, stage) = Append(h, e)
    BY DEF insert_stage_history, e
  <1>. QED BY <1>1, <1>2, AppendProperties

-----------------------------------------------------------------------------
(* A commit replaces one row by a row of the same tenant and the next      *)
(* version.                                                                *)

\* What a client that is about to commit knows of the row it replaces.
LEMMA CommitFacts ==
  ASSUME TypeOK, TenantScoped, InFlightSeesItsVersion,
         NEW c \in Clients, op[c] # Null, op[c].kind # "answer",
         update_run_matches(op[c])
  PROVE  /\ op[c] \in Op
         /\ op[c].run_id \in Runs
         /\ op[c].tenant_id \in Tenants
         /\ runs[op[c].run_id] \in RunRow
         /\ runs[op[c].run_id] = op[c].seen
         /\ runs[op[c].run_id].tenant_id = op[c].tenant_id
         /\ op[c].kind \in StageOps => op[c].stage \in ALL_STAGES
         /\ legal_request(op[c].kind, runs[op[c].run_id], op[c].stage)
  <1>1. op[c] \in Op
    BY DEF TypeOK, Answer
  <1>2. op[c].run_id \in Runs /\ op[c].tenant_id \in Tenants
        /\ (op[c].kind \in StageOps => op[c].stage \in ALL_STAGES)
    BY <1>1 DEF Op, StageOps, FieldOps
  <1>3. runs[op[c].run_id] \in RunRow
    BY <1>2 DEF TypeOK, TenantScoped, Exists
  <1>4. runs[op[c].run_id].version = op[c].expected_version
    BY DEF update_run_matches
  <1>. QED BY <1>1, <1>2, <1>3, <1>4 DEF TenantScoped, InFlightSeesItsVersion

\* What a commit of client c leaves true of every call in flight.
LEMMA CommitKeepsCalls ==
  ASSUME TypeOK, TenantScoped, InFlightSeesItsVersion,
         NEW c \in Clients, NEW r \in Runs, NEW n \in RunRow, NEW x,
         runs[r] \in RunRow,
         n.tenant_id = runs[r].tenant_id, n.version = runs[r].version + 1,
         runs' = [runs EXCEPT ![r] = n],
         op' = [op EXCEPT ![c] = x],
         x = Null \/ (x \in Answer /\ x.run_id = r /\ x.tenant_id = n.tenant_id)
  PROVE  TenantScoped' /\ InFlightSeesItsVersion'
  <1>0. \A q \in Runs : /\ q # r => runs'[q] = runs[q]
                        /\ runs'[r] = n
    BY DEF TypeOK
  <1>1. TenantScoped'
    <2> SUFFICES ASSUME NEW d \in Clients, op'[d] # Null
                 PROVE  /\ runs'[op'[d].run_id] # NoRun
                        /\ runs'[op'[d].run_id].tenant_id = op'[d].tenant_id
      BY DEF TenantScoped, Exists
    <2>1. CASE d = c
      BY <2>1, <1>0, ConstantsAssumption DEF TypeOK
    <2>2. CASE d # c
      <3>1. op'[d] = op[d]
        BY <2>2 DEF TypeOK
      <3>2. op[d].run_id \in Runs
        BY <3>1 DEF TypeOK, Op, Answer
      <3>. QED BY <3>1, <3>2, <1>0, ConstantsAssumption DEF TenantScoped, Exists
    <2>. QED BY <2>1, <2>2
  <1>2. InFlightSeesItsVersion'
    <2> SUFFICES ASSUME NEW d \in Clients, op'[d] # Null, op'[d].kind # "answer"
                 PROVE  /\ op'[d].seen.version = op'[d].expected_version
                        /\ op'[d].expected_version <= runs'[op'[d].run_id].version
                        /\ runs'[op'[d].run_id].version = op'[d].expected_version
                             => runs'[op'[d].run_id] = op'[d].seen
                        /\ legal_request(op'[d].kind, op'[d].seen, op'[d].stage)
      BY DEF InFlightSeesItsVersion, legal_request
    <2>1. d # c
      BY DEF TypeOK, Answer
    <2>2. op'[d] = op[d]
      BY <2>1 DEF TypeOK
    <2>3. op[d] \in Op /\ op[d].run_id \in Runs /\ op[d].expected_version \in Nat
      BY <2>2 DEF TypeOK, Op, Answer
    <2>4. /\ op[d].seen.version = op[d].expected_version
          /\ op[d].expected_version <= runs[op[d].run_id].version
          /\ runs[op[d].run_id].version = op[d].expected_version
               => runs[op[d].run_id] = op[d].seen
          /\ legal_request(op[d].kind, op[d].seen, op[d].stage)
      BY <2>2 DEF InFlightSeesItsVersion
    <2>5. CASE op[d].run_id = r
      <3>1. runs[r].version \in Nat
        BY DEF RunRow
      <3>. QED BY <2>2, <2>3, <2>4, <2>5, <3>1, <1>0
    <2>6. CASE op[d].run_id # r
      BY <2>2, <2>3, <2>4, <2>6, <1>0
    <2>. QED BY <2>5, <2>6
  <1>. QED BY <1>1, <1>2

-----------------------------------------------------------------------------
(* The parts of the invariant that speak of one run's rows.                *)

AttemptsOK(row, s) ==
  LET n == row.current_attempt_id IN
    /\ n = Len(s)
    /\ \A i \in 1..Len(s) : i # n => s[i].end_ts = "set"
    /\ row.stage \notin TERMINAL_STAGES => s[n].end_ts = "NULL"
    /\ s[n].trace_id = row.trace_id

HistoryOK(row, h) ==
  LET n == Len(h) IN
    /\ n > 0
    /\ \A i \in 1..n : (h[i].exited_at = "NULL") <=> (i = n)
    /\ h[n].stage = row.stage
    /\ h[n].attempt_id = row.current_attempt_id

Step(from, to) ==
  \/ is_legal_transition(from.stage, to.stage)
  \/ from.stage = to.stage /\ to.attempt_id = from.attempt_id + 1

PathOK(h) ==
  \A i \in 1..Len(h) :
    IF i = 1 THEN h[i].stage = INTAKE ELSE Step(h[i - 1], h[i])

\* The conjuncts of the invariant, run by run.
LEMMA PerRun ==
  /\ CurrentAttemptIsLatest <=>
       \A q \in Runs : runs[q] # NoRun => AttemptsOK(runs[q], attempts[q])
  /\ OpenHistoryIsCurrentStage <=>
       \A q \in Runs : runs[q] # NoRun => HistoryOK(runs[q], history[q])
  /\ HistoryIsLegalPath <=> \A q \in Runs : PathOK(history[q])
  <1>1. CurrentAttemptIsLatest <=>
       \A q \in Runs : runs[q] # NoRun => AttemptsOK(runs[q], attempts[q])
    BY DEF CurrentAttemptIsLatest, Exists, AttemptsOK
  <1>2. OpenHistoryIsCurrentStage <=>
       \A q \in Runs : runs[q] # NoRun => HistoryOK(runs[q], history[q])
    BY DEF OpenHistoryIsCurrentStage, Exists, HistoryOK
  <1>3. HistoryIsLegalPath <=> \A q \in Runs : PathOK(history[q])
    BY DEF HistoryIsLegalPath, PathOK, Step
  <1>. QED BY <1>1, <1>2, <1>3

\* Entering stage `to` of attempt id: the new history is well-formed.
LEMMA EnterStage ==
  ASSUME NEW h \in Seq(HistoryRow), NEW row \in RunRow, NEW new \in RunRow,
         NEW id \in Nat \ {0}, NEW to \in ALL_STAGES,
         HistoryOK(row, h), PathOK(h),
         new.stage = to, new.current_attempt_id = id,
         \/ is_legal_transition(row.stage, to)
         \/ row.stage = to /\ id = row.current_attempt_id + 1
  PROVE  LET g == insert_stage_history(close_open_stage_history(h), id, to)
         IN  g \in Seq(HistoryRow) /\ HistoryOK(new, g) /\ PathOK(g)
  <1> DEFINE k == close_open_stage_history(h)
             g == insert_stage_history(k, id, to)
  <1>1. /\ k \in Seq(HistoryRow) /\ Len(k) = Len(h)
        /\ \A i \in 1..Len(h) : /\ k[i].stage = h[i].stage
                                /\ k[i].attempt_id = h[i].attempt_id
                                /\ k[i].exited_at = "set"
    BY CloseHistory
  <1> HIDE DEF k
  <1>2. /\ g \in Seq(HistoryRow) /\ Len(g) = Len(k) + 1
        /\ \A i \in 1..Len(k) : g[i] = k[i]
        /\ g[Len(k) + 1].exited_at = "NULL"
        /\ g[Len(k) + 1].attempt_id = id
        /\ g[Len(k) + 1].stage = to
    <2>1. k \in Seq(HistoryRow)
      BY <1>1
    <2>. QED BY <2>1, InsertHistory
  <1> HIDE DEF g
  <1>3. Len(h) \in Nat /\ Len(h) > 0
    BY DEF HistoryOK
  <1>4. HistoryOK(new, g)
    BY <1>1, <1>2, <1>3 DEF HistoryOK
  <1>5. PathOK(g)
    <2> SUFFICES ASSUME NEW i \in 1..Len(g)
                 PROVE  IF i = 1 THEN g[i].stage = INTAKE
                                 ELSE Step(g[i - 1], g[i])
      BY DEF PathOK
    <2>1. CASE i = 1
      BY <2>1, <1>1, <1>2, <1>3 DEF PathOK
    <2>2. CASE i # 1 /\ i <= Len(h)
      <3>1. i - 1 \in 1..Len(h) /\ i \in 1..Len(h)
        BY <2>2, <1>3
      <3>2. Step(h[i - 1], h[i])
        BY <2>2, <3>1 DEF PathOK
      <3>3. /\ g[i].stage = h[i].stage /\ g[i].attempt_id = h[i].attempt_id
            /\ g[i - 1].stage = h[i - 1].stage
            /\ g[i - 1].attempt_id = h[i - 1].attempt_id
        BY <3>1, <1>1, <1>2
      <3>. QED BY <2>2, <3>2, <3>3 DEF Step
    <2>3. CASE i # 1 /\ i = Len(h) + 1
      <3>1. i - 1 = Len(h) /\ Len(h) \in 1..Len(h)
        BY <2>3, <1>3
      <3>2. /\ g[i - 1].stage = row.stage
            /\ g[i - 1].attempt_id = row.current_attempt_id
        BY <3>1, <1>1, <1>2 DEF HistoryOK
      <3>3. g[i].stage = to /\ g[i].attempt_id = id
        BY <2>3, <1>1, <1>2
      <3>. QED BY <2>3, <3>2, <3>3 DEF Step
    <2>. QED BY <2>1, <2>2, <2>3, <1>1, <1>2, <1>3
  <1>. QED BY <1>2, <1>4, <1>5 DEF g, k

-----------------------------------------------------------------------------
(* One lemma per action.                                                   *)

\* A step that leaves the tables alone and ends a call, or reads.
LEMMA TablesUnchanged ==
  ASSUME IInv, UNCHANGED <<runs, attempts, history>>,
         NEW c \in Clients,
         op' = op \/ op' = [op EXCEPT ![c] = Null],
         last' \in [Clients -> (Runs \X Nat) \cup {Null}]
  PROVE  IInv'
  <1>1. TypeOK'
    BY DEF IInv, TypeOK
  <1>2. ASSUME NEW d \in Clients PROVE op'[d] = op[d] \/ op'[d] = Null
    BY DEF IInv, TypeOK
  <1>3. TenantScoped'
    BY <1>2 DEF IInv, TenantScoped, Exists
  <1>4. InFlightSeesItsVersion'
    BY <1>2 DEF IInv, InFlightSeesItsVersion, legal_request
  <1>5. CurrentAttemptIsLatest' /\ OpenHistoryIsCurrentStage' /\ HistoryIsLegalPath'
    BY DEF IInv, CurrentAttemptIsLatest, OpenHistoryIsCurrentStage,
           HistoryIsLegalPath, Exists
  <1>. QED BY <1>1, <1>3, <1>4, <1>5 DEF IInv

\* get_run only reads.
LEMMA GetRunStep ==
  ASSUME IInv, NEW c \in Clients, NEW t \in Tenants, NEW r \in Runs,
         GetRun(c, t, r)
  PROVE  IInv'
  <1>1. runs[r] \in RunRow /\ get_run(t, r) = runs[r]
    BY DEF GetRun, get_run, IInv, TypeOK
  <1>2. last' \in [Clients -> (Runs \X Nat) \cup {Null}]
    BY <1>1 DEF GetRun, IInv, TypeOK, RunRow
  <1>. QED BY <1>2, TablesUnchanged DEF GetRun

\* list_runs only reads.
LEMMA ListRunsStep ==
  ASSUME IInv, NEW c \in Clients, NEW t \in Tenants, NEW stage \in ALL_STAGES,
         ListRuns(c, t, stage)
  PROVE  IInv'
  <1>1. PICK r \in list_runs(t, stage) :
          last' = [last EXCEPT ![c] = <<r, runs[r].version>>]
    BY DEF ListRuns
  <1>2. r \in Runs /\ runs[r] \in RunRow
    BY DEF list_runs, get_run, IInv, TypeOK
  <1>3. last' \in [Clients -> (Runs \X Nat) \cup {Null}]
    BY <1>1, <1>2 DEF IInv, TypeOK, RunRow
  <1>. QED BY <1>3, TablesUnchanged DEF ListRuns

\* A rolled-back transaction changes no table.
LEMMA RollbackStep ==
  ASSUME IInv, NEW c \in Clients, Rollback(c)
  PROVE  IInv'
  <1>1. last' \in [Clients -> (Runs \X Nat) \cup {Null}]
    BY DEF Rollback, IInv, TypeOK
  <1>. QED BY <1>1, TablesUnchanged DEF Rollback

\* A call that raises changes no table.
LEMMA RaiseStep ==
  ASSUME IInv, NEW c \in Clients, Raise(c)
  PROVE  IInv'
  <1>1. last' \in [Clients -> (Runs \X Nat) \cup {Null}]
    BY DEF Raise, IInv, TypeOK
  <1>. QED BY <1>1, TablesUnchanged DEF Raise

\* The read after the commit changes no table.
LEMMA ReplyStep ==
  ASSUME IInv, NEW c \in Clients, Reply(c)
  PROVE  IInv'
  <1>1. op[c] \in Answer
    BY DEF Reply, IInv, TypeOK, Op, StageOps, FieldOps
  <1>2. /\ op[c].run_id \in Runs
        /\ runs[op[c].run_id] \in RunRow
        /\ get_run(op[c].tenant_id, op[c].run_id) = runs[op[c].run_id]
    BY <1>1 DEF Reply, IInv, TypeOK, Answer, TenantScoped, Exists, get_run
  <1>3. last' \in [Clients -> (Runs \X Nat) \cup {Null}]
    BY <1>2 DEF Reply, IInv, TypeOK, RunRow
  <1>. QED BY <1>3, TablesUnchanged DEF Reply

\* A write begins: it holds the row it has just read.
LEMMA CallWriteStep ==
  ASSUME IInv, NEW c \in Clients, NEW t \in Tenants, NEW kind, NEW stage,
         \/ kind \in StageOps /\ stage \in ALL_STAGES
         \/ kind \in FieldOps /\ stage = Null,
         CallWrite(c, kind, t, stage)
  PROVE  IInv'
  <1> DEFINE r == last[c][1]
             v == last[c][2]
             o == [kind |-> kind, tenant_id |-> t, run_id |-> r,
                   expected_version |-> v, stage |-> stage, seen |-> runs[r]]
  <1>1. r \in Runs /\ v \in Nat
    BY DEF CallWrite, IInv, TypeOK
  <1>2. /\ runs[r] \in RunRow /\ get_run(t, r) = runs[r]
        /\ runs[r].tenant_id = t
    BY <1>1 DEF CallWrite, get_run, IInv, TypeOK
  <1>3. /\ op' = [op EXCEPT ![c] = o]
        /\ runs[r].version = v
        /\ legal_request(kind, runs[r], stage)
        /\ UNCHANGED <<runs, attempts, history, last>>
    BY <1>2 DEF CallWrite
  <1>4. o \in Op /\ o.kind # "answer"
    BY <1>1, <1>2 DEF Op, StageOps, FieldOps
  <1>5. /\ o.run_id = r /\ o.tenant_id = t /\ o.seen = runs[r]
        /\ o.expected_version = v /\ o.kind = kind /\ o.stage = stage
    OBVIOUS
  <1> HIDE DEF o, r, v
  <1>6. TypeOK'
    BY <1>3, <1>4 DEF IInv, TypeOK
  <1>7. ASSUME NEW d \in Clients
        PROVE  op'[d] = IF d = c THEN o ELSE op[d]
    BY <1>3 DEF IInv, TypeOK
  <1>8. TenantScoped'
    <2> SUFFICES ASSUME NEW d \in Clients, op'[d] # Null
                 PROVE  /\ runs[op'[d].run_id] # NoRun
                        /\ runs[op'[d].run_id].tenant_id = op'[d].tenant_id
      BY <1>3 DEF TenantScoped, Exists
    <2>1. CASE d = c
      BY <2>1, <1>2, <1>5, <1>7, ConstantsAssumption
    <2>2. CASE d # c
      BY <2>2, <1>7 DEF IInv, TenantScoped, Exists
    <2>. QED BY <2>1, <2>2
  <1>9. InFlightSeesItsVersion'
    <2> SUFFICES ASSUME NEW d \in Clients, op'[d] # Null, op'[d].kind # "answer"
                 PROVE  /\ op'[d].seen.version = op'[d].expected_version
                        /\ op'[d].expected_version <= runs[op'[d].run_id].version
                        /\ runs[op'[d].run_id].version = op'[d].expected_version
                             => runs[op'[d].run_id] = op'[d].seen
                        /\ legal_request(op'[d].kind, op'[d].seen, op'[d].stage)
      BY <1>3 DEF InFlightSeesItsVersion, legal_request
    <2>1. CASE d = c
      BY <2>1, <1>1, <1>2, <1>3, <1>5, <1>7
    <2>2. CASE d # c
      BY <2>2, <1>7 DEF IInv, InFlightSeesItsVersion
    <2>. QED BY <2>1, <2>2
  <1>10. CurrentAttemptIsLatest' /\ OpenHistoryIsCurrentStage' /\ HistoryIsLegalPath'
    BY <1>3 DEF IInv, CurrentAttemptIsLatest, OpenHistoryIsCurrentStage,
                HistoryIsLegalPath, Exists
  <1>. QED BY <1>6, <1>8, <1>9, <1>10 DEF IInv

\* The tables after the rows of run r are replaced by well-formed ones.
LEMMA RowsReplaced ==
  ASSUME IInv, NEW r \in Runs, NEW new \in RunRow,
         NEW s \in Seq(AttemptRow), NEW h \in Seq(HistoryRow),
         runs' = [runs EXCEPT ![r] = new],
         attempts' = [attempts EXCEPT ![r] = s],
         history' = [history EXCEPT ![r] = h],
         AttemptsOK(new, s), HistoryOK(new, h), PathOK(h)
  PROVE  /\ CurrentAttemptIsLatest'
         /\ OpenHistoryIsCurrentStage'
         /\ HistoryIsLegalPath'
         /\ runs' \in [Runs -> RunRow \cup {NoRun}]
         /\ attempts' \in [Runs -> Seq(AttemptRow)]
         /\ history' \in [Runs -> Seq(HistoryRow)]
  <1>1. /\ \A q \in Runs : runs[q] # NoRun => AttemptsOK(runs[q], attempts[q])
        /\ \A q \in Runs : runs[q] # NoRun => HistoryOK(runs[q], history[q])
        /\ \A q \in Runs : PathOK(history[q])
    BY PerRun DEF IInv
  <1>2. ASSUME NEW q \in Runs
        PROVE  /\ runs'[q] = IF q = r THEN new ELSE runs[q]
               /\ attempts'[q] = IF q = r THEN s ELSE attempts[q]
               /\ history'[q] = IF q = r THEN h ELSE history[q]
    BY DEF IInv, TypeOK
  <1>3. CurrentAttemptIsLatest'
    <2> SUFFICES ASSUME NEW q \in Runs, runs'[q] # NoRun
                 PROVE  AttemptsOK(runs'[q], attempts'[q])
      BY DEF CurrentAttemptIsLatest, Exists, AttemptsOK
    <2>. QED BY <1>1, <1>2
  <1>4. OpenHistoryIsCurrentStage'
    <2> SUFFICES ASSUME NEW q \in Runs, runs'[q] # NoRun
                 PROVE  HistoryOK(runs'[q], history'[q])
      BY DEF OpenHistoryIsCurrentStage, Exists, HistoryOK
    <2>. QED BY <1>1, <1>2
  <1>5. HistoryIsLegalPath'
    <2> SUFFICES ASSUME NEW q \in Runs PROVE PathOK(history'[q])
      BY DEF HistoryIsLegalPath, PathOK, Step
    <2>. QED BY <1>1, <1>2
  <1>. QED BY <1>3, <1>4, <1>5 DEF IInv, TypeOK

\* create_run inserts the run, its first attempt and its first stage.
LEMMA CreateRunStep ==
  ASSUME IInv, NEW c \in Clients, NEW t \in Tenants, NEW r \in Runs,
         NEW trace \in Traces, NEW capacity \in CapacityClasses,
         CreateRun(c, t, r, trace, capacity)
  PROVE  IInv'
  <1> DEFINE new == [tenant_id |-> t, stage |-> INTAKE,
                     capacity_class |-> capacity, checkpoint_pointer |-> Null,
                     exec_node |-> Null, trace_id |-> trace,
                     current_attempt_id |-> 1, version |-> 1]
             s == insert_attempt(<<>>, "initial", INTAKE, trace)
             h == insert_stage_history(<<>>, 1, INTAKE)
             x == [kind |-> "answer", tenant_id |-> t, run_id |-> r]
  <1>1. INTAKE \in ALL_STAGES /\ "initial" \in Reasons
        /\ INTAKE \notin TERMINAL_STAGES
    BY DEF INTAKE, ALL_STAGES, NON_TERMINAL_STAGES, Reasons, TERMINAL_STAGES,
           COMPLETED, ABANDONED
  <1>2. /\ new \in RunRow /\ new.current_attempt_id = 1 /\ new.stage = INTAKE
        /\ new.trace_id = trace /\ new.tenant_id = t
    BY <1>1 DEF RunRow
  <1>3. /\ s \in Seq(AttemptRow) /\ Len(s) = 1
        /\ s[1].end_ts = "NULL" /\ s[1].trace_id = trace
    <2> DEFINE e == [reason |-> "initial", starting_stage |-> INTAKE,
                     trace_id |-> trace, end_ts |-> "NULL"]
    <2>1. e \in AttemptRow /\ e.end_ts = "NULL" /\ e.trace_id = trace
      BY <1>1 DEF AttemptRow, Timestamps
    <2>2. s = Append(<<>>, e)
      BY DEF insert_attempt
    <2> HIDE DEF e, s
    <2>3. s = <<e>>
      BY <2>2
    <2>4. s \in Seq(AttemptRow)
      BY <2>1, <2>3
    <2>. QED BY <2>1, <2>3, <2>4
  <1>4. /\ h \in Seq(HistoryRow) /\ Len(h) = 1
        /\ h[1].exited_at = "NULL" /\ h[1].attempt_id = 1 /\ h[1].stage = INTAKE
    <2> DEFINE e == [stage |-> INTAKE, attempt_id |-> 1, exited_at |-> "NULL"]
    <2>1. /\ e \in HistoryRow /\ e.exited_at = "NULL" /\ e.attempt_id = 1
          /\ e.stage = INTAKE
      BY <1>1 DEF HistoryRow, Timestamps
    <2>2. h = Append(<<>>, e)
      BY DEF insert_stage_history
    <2> HIDE DEF e, h
    <2>3. h = <<e>>
      BY <2>2
    <2>4. h \in Seq(HistoryRow)
      BY <2>1, <2>3
    <2>. QED BY <2>1, <2>3, <2>4
  <1>5. x \in Answer /\ x.kind = "answer" /\ x.run_id = r /\ x.tenant_id = t
    BY DEF Answer
  <1>6. /\ runs' = [runs EXCEPT ![r] = new]
        /\ attempts' = [attempts EXCEPT ![r] = s]
        /\ history' = [history EXCEPT ![r] = h]
        /\ op' = [op EXCEPT ![c] = x]
        /\ last' = last /\ runs[r] = NoRun
    BY DEF CreateRun
  <1> HIDE DEF new, s, h, x
  <1>7. AttemptsOK(new, s)
    BY <1>1, <1>2, <1>3 DEF AttemptsOK
  <1>8. HistoryOK(new, h)
    BY <1>2, <1>4 DEF HistoryOK
  <1>9. PathOK(h)
    BY <1>4 DEF PathOK
  <1>10. /\ CurrentAttemptIsLatest' /\ OpenHistoryIsCurrentStage'
         /\ HistoryIsLegalPath'
         /\ runs' \in [Runs -> RunRow \cup {NoRun}]
         /\ attempts' \in [Runs -> Seq(AttemptRow)]
         /\ history' \in [Runs -> Seq(HistoryRow)]
    BY <1>2, <1>3, <1>4, <1>6, <1>7, <1>8, <1>9, RowsReplaced
  <1>11. TypeOK'
    BY <1>5, <1>6, <1>10 DEF IInv, TypeOK
  <1>12. ASSUME NEW d \in Clients, op'[d] # Null
         PROVE  \/ d = c /\ op'[d] = x
                \/ op'[d] = op[d] /\ op[d].run_id # r
    <2>1. op'[d] = IF d = c THEN x ELSE op[d]
      BY <1>6 DEF IInv, TypeOK
    <2>2. op[d] # Null => runs[op[d].run_id] # NoRun
      BY DEF IInv, TenantScoped, Exists
    <2>3. CASE d = c
      BY <2>1, <2>3
    <2>4. CASE d # c
      <3>1. op'[d] = op[d]
        BY <2>1, <2>4
      <3>2. runs[op[d].run_id] # NoRun
        BY <2>2, <3>1, <1>12
      <3>. QED BY <3>1, <3>2, <1>6
    <2>. QED BY <2>3, <2>4
  <1>13. ASSUME NEW q \in Runs
         PROVE  runs'[q] = IF q = r THEN new ELSE runs[q]
    BY <1>6 DEF IInv, TypeOK
  <1>14. TenantScoped'
    <2> SUFFICES ASSUME NEW d \in Clients, op'[d] # Null
                 PROVE  /\ runs'[op'[d].run_id] # NoRun
                        /\ runs'[op'[d].run_id].tenant_id = op'[d].tenant_id
      BY DEF TenantScoped, Exists
    <2>1. CASE d = c /\ op'[d] = x
      BY <2>1, <1>2, <1>5, <1>13, ConstantsAssumption
    <2>2. CASE op'[d] = op[d] /\ op[d].run_id # r
      <3>1. op[d].run_id \in Runs
        BY <2>2 DEF IInv, TypeOK, Op, Answer
      <3>. QED BY <2>2, <3>1, <1>13 DEF IInv, TenantScoped, Exists
    <2>. QED BY <2>1, <2>2, <1>12
  <1>15. InFlightSeesItsVersion'
    <2> SUFFICES ASSUME NEW d \in Clients, op'[d] # Null, op'[d].kind # "answer"
                 PROVE  /\ op'[d].seen.version = op'[d].expected_version
                        /\ op'[d].expected_version <= runs'[op'[d].run_id].version
                        /\ runs'[op'[d].run_id].version = op'[d].expected_version
                             => runs'[op'[d].run_id] = op'[d].seen
                        /\ legal_request(op'[d].kind, op'[d].seen, op'[d].stage)
      BY DEF InFlightSeesItsVersion, legal_request
    <2>1. op'[d] = op[d] /\ op[d].run_id # r
      BY <1>5, <1>12
    <2>2. op[d].run_id \in Runs
      BY <2>1 DEF IInv, TypeOK, Op, Answer
    <2>. QED BY <2>1, <2>2, <1>13 DEF IInv, InFlightSeesItsVersion
  <1>. QED BY <1>10, <1>11, <1>14, <1>15 DEF IInv

\* Client c commits a write on run r: it had read the present row, and the
\* row only advances.
Commits(c, r) ==
  /\ op[c] # Null /\ op[c].kind # "answer" /\ op[c].run_id = r
  /\ op[c].seen = runs[r]
  /\ op'[c] # op[c]
  /\ \A q \in Runs : q # r => runs'[q] = runs[q]
  /\ AdvancesOnly(runs[r], runs'[r])

\* No stage follows a terminal one.
LEMMA TerminalIsFinal ==
  ASSUME NEW from, NEW to, is_legal_transition(from, to)
  PROVE  from \notin TERMINAL_STAGES
  BY DEF is_legal_transition, LEGAL_TRANSITIONS, TERMINAL_STAGES,
         NON_TERMINAL_STAGES, INTAKE, RESEARCH, PLAN_AUTHORING,
         PLAN_APPROVAL_GATE, IMPLEMENTATION, VERIFICATION,
         CHANGE_REVIEW_GATE, PACKAGING, RETROSPECTIVE, COMPLETED, ABANDONED

\* A commit keeps the invariant when the rows it writes are well-formed.
LEMMA CommitKeepsIInv ==
  ASSUME IInv, NEW c \in Clients, NEW r \in Runs, NEW new \in RunRow,
         NEW s \in Seq(AttemptRow), NEW h \in Seq(HistoryRow), NEW x,
         op[c] # Null, op[c].kind # "answer", op[c].run_id = r,
         op[c].seen = runs[r], runs[r] \in RunRow,
         new.tenant_id = runs[r].tenant_id, new.version = runs[r].version + 1,
         runs[r].stage \in TERMINAL_STAGES => new.stage = runs[r].stage,
         runs' = [runs EXCEPT ![r] = new],
         attempts' = [attempts EXCEPT ![r] = s],
         history' = [history EXCEPT ![r] = h],
         op' = [op EXCEPT ![c] = x], last' = last,
         x = Null \/ (x \in Answer /\ x.run_id = r /\ x.tenant_id = new.tenant_id),
         AttemptsOK(new, s), HistoryOK(new, h), PathOK(h)
  PROVE  IInv' /\ Commits(c, r)
  <1>1. TypeOK /\ TenantScoped /\ InFlightSeesItsVersion
    BY DEF IInv
  <1>2. TenantScoped' /\ InFlightSeesItsVersion'
    BY <1>1, CommitKeepsCalls
  <1>3. /\ CurrentAttemptIsLatest' /\ OpenHistoryIsCurrentStage'
        /\ HistoryIsLegalPath'
        /\ runs' \in [Runs -> RunRow \cup {NoRun}]
        /\ attempts' \in [Runs -> Seq(AttemptRow)]
        /\ history' \in [Runs -> Seq(HistoryRow)]
    BY RowsReplaced
  <1>4. TypeOK'
    BY <1>1, <1>3 DEF TypeOK
  <1>5. op'[c] # op[c]
    BY <1>1 DEF TypeOK, Answer
  <1>6. Commits(c, r)
    <2>1. runs'[r] = new /\ \A q \in Runs : q # r => runs'[q] = runs[q]
      BY <1>1 DEF TypeOK
    <2>2. new # NoRun
      BY ConstantsAssumption
    <2>. QED BY <1>5, <2>1, <2>2 DEF Commits, AdvancesOnly
  <1>. QED BY <1>2, <1>3, <1>4, <1>6 DEF IInv

\* What the invariant says of the rows of a run that exists.
LEMMA RowsOfRun ==
  ASSUME IInv, NEW r \in Runs, runs[r] \in RunRow
  PROVE  /\ attempts[r] \in Seq(AttemptRow) /\ history[r] \in Seq(HistoryRow)
         /\ AttemptsOK(runs[r], attempts[r])
         /\ HistoryOK(runs[r], history[r])
         /\ PathOK(history[r])
  <1>1. runs[r] # NoRun
    BY ConstantsAssumption
  <1>. QED BY <1>1, PerRun DEF IInv, TypeOK

\* The transaction of append_attempt keeps the invariant.
LEMMA CommitAppendAttemptStep ==
  ASSUME IInv, NEW c \in Clients, NEW reason \in AppendReasons,
         NEW trace \in Traces, CommitAppendAttempt(c, reason, trace)
  PROVE  IInv' /\ Commits(c, op[c].run_id)
  <1> DEFINE o == op[c]
             r == o.run_id
             a == attempts[r]
             id == Len(a) + 1
             new == [runs[r] EXCEPT !.stage = o.stage, !.current_attempt_id = id,
                       !.trace_id = trace, !.version = runs[r].version + 1]
             k == close_attempt(a, runs[r].current_attempt_id)
             s == insert_attempt(k, reason, o.stage, trace)
             h == insert_stage_history(close_open_stage_history(history[r]),
                                       id, o.stage)
  <1>1. /\ op[c] # Null /\ op[c].kind = "append_attempt"
        /\ update_run_matches(op[c])
    BY DEF CommitAppendAttempt, committing
  <1>2. /\ r \in Runs /\ runs[r] \in RunRow /\ runs[r] = o.seen
        /\ o.stage \in ALL_STAGES
        /\ o.stage = runs[r].stage \/ is_legal_transition(runs[r].stage, o.stage)
    <2>1. /\ r \in Runs /\ runs[r] \in RunRow /\ runs[r] = o.seen
          /\ op[c].kind \in StageOps => op[c].stage \in ALL_STAGES
          /\ legal_request(op[c].kind, runs[r], op[c].stage)
      BY <1>1, CommitFacts DEF IInv
    <2>. QED BY <1>1, <2>1 DEF StageOps, legal_request
  <1>3. /\ a \in Seq(AttemptRow) /\ history[r] \in Seq(HistoryRow)
        /\ AttemptsOK(runs[r], a) /\ HistoryOK(runs[r], history[r])
        /\ PathOK(history[r])
    BY <1>2, RowsOfRun
  <1>4. /\ runs' = [runs EXCEPT ![r] = new]
        /\ attempts' = [attempts EXCEPT ![r] = s]
        /\ history' = [history EXCEPT ![r] = h]
        /\ op' = [op EXCEPT ![c] = Null]
        /\ last' = last
    <2>1. runs' = [runs EXCEPT ![r] = new]
      BY <1>2 DEF CommitAppendAttempt, IInv, TypeOK, RunRow
    <2>2. attempts' = [attempts EXCEPT ![r] = s]
      BY <1>2 DEF CommitAppendAttempt
    <2>3. history' = [history EXCEPT ![r] = h]
      BY <1>2 DEF CommitAppendAttempt
    <2>. QED BY <2>1, <2>2, <2>3 DEF CommitAppendAttempt
  <1>5. id \in Nat \ {0} /\ id = runs[r].current_attempt_id + 1
        /\ runs[r].current_attempt_id \in Nat
    BY <1>2, <1>3 DEF AttemptsOK, RunRow
  <1>6. /\ new \in RunRow /\ new.tenant_id = runs[r].tenant_id
        /\ new.version = runs[r].version + 1 /\ new.stage = o.stage
        /\ new.current_attempt_id = id /\ new.trace_id = trace
    <2> DEFINE row == runs[r]
               stage == o.stage
    <2>1. row.version \in Nat \ {0} /\ row.version + 1 \in Nat \ {0}
      BY <1>2 DEF RunRow
    <2>2. row \in RunRow /\ stage \in ALL_STAGES
      BY <1>2
    <2>3. new = [row EXCEPT !.stage = stage, !.current_attempt_id = id,
                   !.trace_id = trace, !.version = row.version + 1]
      OBVIOUS
    <2> HIDE DEF new, row, id, stage
    <2>4. /\ new \in RunRow /\ new.tenant_id = row.tenant_id
          /\ new.version = row.version + 1 /\ new.stage = stage
          /\ new.current_attempt_id = id /\ new.trace_id = trace
      BY <2>1, <2>2, <2>3, <1>5 DEF RunRow
    <2>. QED BY <2>4 DEF row, stage
  <1>7. /\ k \in Seq(AttemptRow) /\ Len(k) = Len(a)
        /\ \A i \in 1..Len(a) :
             k[i].end_ts = IF i = runs[r].current_attempt_id THEN "set"
                                                            ELSE a[i].end_ts
    BY <1>3, <1>5, CloseAttempt
  <1> HIDE DEF k
  <1>8. /\ s \in Seq(AttemptRow) /\ Len(s) = Len(k) + 1
        /\ \A i \in 1..Len(k) : s[i] = k[i]
        /\ s[Len(k) + 1].end_ts = "NULL" /\ s[Len(k) + 1].trace_id = trace
    <2>1. reason \in Reasons
      BY ConstantsAssumption
    <2>. QED BY <2>1, <1>2, <1>7, InsertAttempt
  <1>9. h \in Seq(HistoryRow) /\ HistoryOK(new, h) /\ PathOK(h)
    <2> HIDE DEF new
    <2>. QED BY <1>2, <1>3, <1>5, <1>6, EnterStage
  <1> HIDE DEF new, s, h
  <1>10. AttemptsOK(new, s)
    BY <1>3, <1>5, <1>6, <1>7, <1>8 DEF AttemptsOK
  <1>11. runs[r].stage \in TERMINAL_STAGES => new.stage = runs[r].stage
    BY <1>2, <1>6, TerminalIsFinal
  <1>. QED BY <1>1, <1>2, <1>4, <1>6, <1>8, <1>9, <1>10, <1>11, CommitKeepsIInv

\* The answer step of the other three writes.
LEMMA Answering ==
  ASSUME IInv, NEW c \in Clients, op[c] \in Op, answering(c)
  PROVE  LET x == [kind |-> "answer", tenant_id |-> op[c].tenant_id,
                   run_id |-> op[c].run_id]
         IN  /\ op' = [op EXCEPT ![c] = x]
             /\ last' = last
             /\ x \in Answer /\ x.run_id = op[c].run_id
             /\ x.tenant_id = op[c].tenant_id
  <1>1. op[c].tenant_id \in Tenants /\ op[c].run_id \in Runs
    BY DEF Op
  <1>. QED BY <1>1 DEF answering, Answer

\* The transaction of transition_stage keeps the invariant.
LEMMA CommitTransitionStageStep ==
  ASSUME IInv, NEW c \in Clients, CommitTransitionStage(c)
  PROVE  IInv' /\ Commits(c, op[c].run_id)
  <1> DEFINE o == op[c]
             r == o.run_id
             a == attempts[r]
             id == runs[r].current_attempt_id
             new == [runs[r] EXCEPT !.stage = o.stage,
                                    !.version = runs[r].version + 1]
             s == IF o.stage \in TERMINAL_STAGES THEN close_attempt(a, id) ELSE a
             h == insert_stage_history(close_open_stage_history(history[r]),
                                       id, o.stage)
             x == [kind |-> "answer", tenant_id |-> o.tenant_id, run_id |-> r]
  <1>1. /\ op[c] # Null /\ op[c].kind = "transition_stage"
        /\ update_run_matches(op[c])
    BY DEF CommitTransitionStage, committing
  <1>2. /\ r \in Runs /\ runs[r] \in RunRow /\ runs[r] = o.seen /\ o \in Op
        /\ o.tenant_id = runs[r].tenant_id
        /\ o.stage \in ALL_STAGES /\ is_legal_transition(runs[r].stage, o.stage)
    <2>1. /\ r \in Runs /\ runs[r] \in RunRow /\ runs[r] = o.seen /\ o \in Op
          /\ runs[r].tenant_id = o.tenant_id
          /\ op[c].kind \in StageOps => op[c].stage \in ALL_STAGES
          /\ legal_request(op[c].kind, runs[r], op[c].stage)
      BY <1>1, CommitFacts DEF IInv
    <2>. QED BY <1>1, <2>1 DEF StageOps, legal_request
  <1>3. /\ a \in Seq(AttemptRow) /\ history[r] \in Seq(HistoryRow)
        /\ AttemptsOK(runs[r], a) /\ HistoryOK(runs[r], history[r])
        /\ PathOK(history[r])
    BY <1>2, RowsOfRun
  <1>4. /\ runs' = [runs EXCEPT ![r] = new]
        /\ attempts' = [attempts EXCEPT ![r] = s]
        /\ history' = [history EXCEPT ![r] = h]
    <2>1. runs' = [runs EXCEPT ![r] = new]
      BY <1>2 DEF CommitTransitionStage, IInv, TypeOK, RunRow
    <2>2. attempts' = [attempts EXCEPT ![r] = s]
      BY <1>2 DEF CommitTransitionStage
    <2>3. history' = [history EXCEPT ![r] = h]
      BY <1>2 DEF CommitTransitionStage
    <2>. QED BY <2>1, <2>2, <2>3
  <1>5. /\ op' = [op EXCEPT ![c] = x] /\ last' = last
        /\ x \in Answer /\ x.run_id = r /\ x.tenant_id = o.tenant_id
    BY <1>2, Answering DEF CommitTransitionStage
  <1>6. id \in Nat \ {0}
    BY <1>2 DEF RunRow
  <1>7. /\ new \in RunRow /\ new.tenant_id = runs[r].tenant_id
        /\ new.version = runs[r].version + 1 /\ new.stage = o.stage
        /\ new.current_attempt_id = id /\ new.trace_id = runs[r].trace_id
    <2> DEFINE row == runs[r]
               stage == o.stage
    <2>1. row.version \in Nat \ {0} /\ row.version + 1 \in Nat \ {0}
      BY <1>2 DEF RunRow
    <2>2. row \in RunRow /\ stage \in ALL_STAGES
      BY <1>2
    <2>3. new = [row EXCEPT !.stage = stage, !.version = row.version + 1]
      OBVIOUS
    <2> HIDE DEF new, row, stage
    <2>4. /\ new \in RunRow /\ new.tenant_id = row.tenant_id
          /\ new.version = row.version + 1 /\ new.stage = stage
          /\ new.current_attempt_id = row.current_attempt_id
          /\ new.trace_id = row.trace_id
      BY <2>1, <2>2, <2>3 DEF RunRow
    <2>. QED BY <2>4 DEF row, stage
  <1>8. h \in Seq(HistoryRow) /\ HistoryOK(new, h) /\ PathOK(h)
    <2> HIDE DEF new, id
    <2>. QED BY <1>2, <1>3, <1>6, <1>7, EnterStage
  <1>9. s \in Seq(AttemptRow) /\ AttemptsOK(new, s)
    <2>1. CASE o.stage \in TERMINAL_STAGES
      <3> DEFINE k == close_attempt(a, id)
      <3>1. /\ k \in Seq(AttemptRow) /\ Len(k) = Len(a)
            /\ \A i \in 1..Len(a) :
                 /\ k[i].trace_id = a[i].trace_id
                 /\ k[i].end_ts = IF i = id THEN "set" ELSE a[i].end_ts
        BY <1>3, <1>6, CloseAttempt
      <3>2. s = k
        BY <2>1
      <3> HIDE DEF k, s, new
      <3>3. id \in 1..Len(a)
        BY <1>3, <1>6 DEF AttemptsOK
      <3>. QED BY <2>1, <3>1, <3>2, <3>3, <1>3, <1>6, <1>7 DEF AttemptsOK
    <2>2. CASE o.stage \notin TERMINAL_STAGES
      <3>1. runs[r].stage \notin TERMINAL_STAGES
        BY <1>2, TerminalIsFinal
      <3>2. s = a
        BY <2>2
      <3> HIDE DEF s, new
      <3>. QED BY <3>1, <3>2, <1>3, <1>7 DEF AttemptsOK
    <2>. QED BY <2>1, <2>2
  <1> HIDE DEF new, s, h, x
  <1>10. runs[r].stage \notin TERMINAL_STAGES
    BY <1>2, TerminalIsFinal
  <1>. QED BY <1>1, <1>2, <1>4, <1>5, <1>7, <1>8, <1>9, <1>10, CommitKeepsIInv

\* The transaction of write_checkpoint keeps the invariant.
LEMMA CommitWriteCheckpointStep ==
  ASSUME IInv, NEW c \in Clients, NEW pointer \in Pointers,
         NEW capacity \in CapacityClasses \cup {Null},
         CommitWriteCheckpoint(c, pointer, capacity)
  PROVE  IInv' /\ Commits(c, op[c].run_id)
  <1> DEFINE o == op[c]
             r == o.run_id
             new == [runs[r] EXCEPT !.checkpoint_pointer = pointer,
                       !.capacity_class = IF capacity = Null
                         THEN runs[r].capacity_class ELSE capacity,
                       !.version = runs[r].version + 1]
             x == [kind |-> "answer", tenant_id |-> o.tenant_id, run_id |-> r]
  <1>1. /\ op[c] # Null /\ op[c].kind = "write_checkpoint"
        /\ update_run_matches(op[c])
    BY DEF CommitWriteCheckpoint, committing
  <1>2. /\ r \in Runs /\ runs[r] \in RunRow /\ runs[r] = o.seen /\ o \in Op
        /\ o.tenant_id = runs[r].tenant_id
    BY <1>1, CommitFacts DEF IInv
  <1>3. /\ attempts[r] \in Seq(AttemptRow) /\ history[r] \in Seq(HistoryRow)
        /\ AttemptsOK(runs[r], attempts[r]) /\ HistoryOK(runs[r], history[r])
        /\ PathOK(history[r])
    BY <1>2, RowsOfRun
  <1>4. /\ runs' = [runs EXCEPT ![r] = new]
        /\ attempts' = [attempts EXCEPT ![r] = attempts[r]]
        /\ history' = [history EXCEPT ![r] = history[r]]
    BY <1>2 DEF CommitWriteCheckpoint, IInv, TypeOK, RunRow
  <1>5. /\ op' = [op EXCEPT ![c] = x] /\ last' = last
        /\ x \in Answer /\ x.run_id = r /\ x.tenant_id = o.tenant_id
    BY <1>2, Answering DEF CommitWriteCheckpoint
  <1>6. /\ new \in RunRow /\ new.tenant_id = runs[r].tenant_id
        /\ new.version = runs[r].version + 1 /\ new.stage = runs[r].stage
        /\ new.current_attempt_id = runs[r].current_attempt_id
        /\ new.trace_id = runs[r].trace_id
    <2> DEFINE row == runs[r]
    <2>1. row.version \in Nat \ {0} /\ row.version + 1 \in Nat \ {0}
      BY <1>2 DEF RunRow
    <2>2. row \in RunRow
      BY <1>2
    <2>3. new = [row EXCEPT !.checkpoint_pointer = pointer,
                       !.capacity_class = IF capacity = Null
                         THEN row.capacity_class ELSE capacity,
                       !.version = row.version + 1]
      OBVIOUS
    <2> HIDE DEF new, row
    <2>4. /\ new \in RunRow /\ new.tenant_id = row.tenant_id
          /\ new.version = row.version + 1 /\ new.stage = row.stage
          /\ new.current_attempt_id = row.current_attempt_id
          /\ new.trace_id = row.trace_id
      BY <2>1, <2>2, <2>3 DEF RunRow
    <2>. QED BY <2>4 DEF row
  <1> HIDE DEF new, x
  <1>7. AttemptsOK(new, attempts[r]) /\ HistoryOK(new, history[r])
    BY <1>3, <1>6 DEF AttemptsOK, HistoryOK
  <1>. QED BY <1>1, <1>2, <1>3, <1>4, <1>5, <1>6, <1>7, CommitKeepsIInv

\* The transaction of write_execution_location keeps the invariant.
LEMMA CommitWriteExecutionLocationStep ==
  ASSUME IInv, NEW c \in Clients, NEW node \in Nodes,
         CommitWriteExecutionLocation(c, node)
  PROVE  IInv' /\ Commits(c, op[c].run_id)
  <1> DEFINE o == op[c]
             r == o.run_id
             new == [runs[r] EXCEPT !.exec_node = node,
                       !.version = runs[r].version + 1]
             x == [kind |-> "answer", tenant_id |-> o.tenant_id, run_id |-> r]
  <1>1. /\ op[c] # Null /\ op[c].kind = "write_execution_location"
        /\ update_run_matches(op[c])
    BY DEF CommitWriteExecutionLocation, committing
  <1>2. /\ r \in Runs /\ runs[r] \in RunRow /\ runs[r] = o.seen /\ o \in Op
        /\ o.tenant_id = runs[r].tenant_id
    BY <1>1, CommitFacts DEF IInv
  <1>3. /\ attempts[r] \in Seq(AttemptRow) /\ history[r] \in Seq(HistoryRow)
        /\ AttemptsOK(runs[r], attempts[r]) /\ HistoryOK(runs[r], history[r])
        /\ PathOK(history[r])
    BY <1>2, RowsOfRun
  <1>4. /\ runs' = [runs EXCEPT ![r] = new]
        /\ attempts' = [attempts EXCEPT ![r] = attempts[r]]
        /\ history' = [history EXCEPT ![r] = history[r]]
    BY <1>2 DEF CommitWriteExecutionLocation, IInv, TypeOK, RunRow
  <1>5. /\ op' = [op EXCEPT ![c] = x] /\ last' = last
        /\ x \in Answer /\ x.run_id = r /\ x.tenant_id = o.tenant_id
    BY <1>2, Answering DEF CommitWriteExecutionLocation
  <1>6. /\ new \in RunRow /\ new.tenant_id = runs[r].tenant_id
        /\ new.version = runs[r].version + 1 /\ new.stage = runs[r].stage
        /\ new.current_attempt_id = runs[r].current_attempt_id
        /\ new.trace_id = runs[r].trace_id
    <2> DEFINE row == runs[r]
    <2>1. row.version \in Nat \ {0} /\ row.version + 1 \in Nat \ {0}
      BY <1>2 DEF RunRow
    <2>2. row \in RunRow
      BY <1>2
    <2>3. new = [row EXCEPT !.exec_node = node,
                       !.version = row.version + 1]
      OBVIOUS
    <2> HIDE DEF new, row
    <2>4. /\ new \in RunRow /\ new.tenant_id = row.tenant_id
          /\ new.version = row.version + 1 /\ new.stage = row.stage
          /\ new.current_attempt_id = row.current_attempt_id
          /\ new.trace_id = row.trace_id
      BY <2>1, <2>2, <2>3 DEF RunRow
    <2>. QED BY <2>4 DEF row
  <1> HIDE DEF new, x
  <1>7. AttemptsOK(new, attempts[r]) /\ HistoryOK(new, history[r])
    BY <1>3, <1>6 DEF AttemptsOK, HistoryOK
  <1>. QED BY <1>1, <1>2, <1>3, <1>4, <1>5, <1>6, <1>7, CommitKeepsIInv

-----------------------------------------------------------------------------
(* The invariant holds in every reachable state.                           *)

\* The empty tables satisfy the invariant.
LEMMA InitIInv == Init => IInv
  <1> SUFFICES ASSUME Init PROVE IInv
    OBVIOUS
  <1>1. TypeOK
    BY DEF Init, TypeOK
  <1>2. TenantScoped /\ InFlightSeesItsVersion
    BY DEF Init, TenantScoped, InFlightSeesItsVersion
  <1>3. CurrentAttemptIsLatest /\ OpenHistoryIsCurrentStage
    BY DEF Init, CurrentAttemptIsLatest, OpenHistoryIsCurrentStage, Exists
  <1>4. HistoryIsLegalPath
    BY DEF Init, HistoryIsLegalPath
  <1>. QED BY <1>1, <1>2, <1>3, <1>4 DEF IInv

\* Every step keeps the invariant.
LEMMA NextIInv == IInv /\ [Next]_vars => IInv'
  <1> SUFFICES ASSUME IInv, [Next]_vars PROVE IInv'
    OBVIOUS
  <1>1. CASE UNCHANGED vars
    <2>1. UNCHANGED <<runs, attempts, history, op, last>>
      BY <1>1 DEF vars
    <2>. QED BY <2>1 DEF IInv, TypeOK, TenantScoped, InFlightSeesItsVersion,
           CurrentAttemptIsLatest, OpenHistoryIsCurrentStage,
           HistoryIsLegalPath, Exists, legal_request
  <1>2. ASSUME NEW c \in Clients, ClientStep(c) PROVE IInv'
    <2>1. CASE \E t \in Tenants, r \in Runs : GetRun(c, t, r)
      BY <2>1, GetRunStep
    <2>2. CASE \E t \in Tenants, stage \in ALL_STAGES : ListRuns(c, t, stage)
      BY <2>2, ListRunsStep
    <2>3. CASE \E t \in Tenants, r \in Runs, trace \in Traces,
                  cap \in CapacityClasses : CreateRun(c, t, r, trace, cap)
      BY <2>3, CreateRunStep
    <2>4. CASE \E kind \in StageOps, t \in Tenants, stage \in ALL_STAGES :
                 CallWrite(c, kind, t, stage)
      BY <2>4, CallWriteStep
    <2>5. CASE \E kind \in FieldOps, t \in Tenants : CallWrite(c, kind, t, Null)
      BY <2>5, CallWriteStep
    <2>6. CASE \E reason \in AppendReasons, trace \in Traces :
                 CommitAppendAttempt(c, reason, trace)
      BY <2>6, CommitAppendAttemptStep
    <2>7. CASE CommitTransitionStage(c)
      BY <2>7, CommitTransitionStageStep
    <2>8. CASE \E p \in Pointers, cap \in CapacityClasses \cup {Null} :
                 CommitWriteCheckpoint(c, p, cap)
      BY <2>8, CommitWriteCheckpointStep
    <2>9. CASE \E n \in Nodes : CommitWriteExecutionLocation(c, n)
      BY <2>9, CommitWriteExecutionLocationStep
    <2>10. CASE Rollback(c)
      BY <2>10, RollbackStep
    <2>11. CASE Raise(c)
      BY <2>11, RaiseStep
    <2>12. CASE Reply(c)
      BY <2>12, ReplyStep
    <2>. QED BY <1>2, <2>1, <2>2, <2>3, <2>4, <2>5, <2>6, <2>7, <2>8, <2>9,
                <2>10, <2>11, <2>12 DEF ClientStep
  <1>. QED BY <1>1, <1>2 DEF Next

\* The inductive invariant of the registry holds of every execution, however
\* many processes write concurrently.
THEOREM RegistryInvariant == Spec => []IInv
  BY InitIInv, NextIInv, PTL DEF Spec

\* Type correctness of the three tables and of every call in flight.
THEOREM RegistryTypeOK == Spec => []TypeOK
  <1>1. IInv => TypeOK
    BY DEF IInv
  <1>. QED BY <1>1, RegistryInvariant, PTL

\* append_attempt and transition_stage keep exactly one current Attempt: the
\* latest, with every earlier one sealed.
THEOREM RegistryCurrentAttempt == Spec => []CurrentAttemptIsLatest
  <1>1. IInv => CurrentAttemptIsLatest
    BY DEF IInv
  <1>. QED BY <1>1, RegistryInvariant, PTL

\* The stage history of every Run is a legal path whose open end is the Run's
\* stage, although every stage was validated against a row read before the
\* transaction began.
THEOREM RegistryHistory ==
  Spec => [](OpenHistoryIsCurrentStage /\ HistoryIsLegalPath)
  <1>1. IInv => OpenHistoryIsCurrentStage /\ HistoryIsLegalPath
    BY DEF IInv
  <1>. QED BY <1>1, RegistryInvariant, PTL

-----------------------------------------------------------------------------
(* Action properties.                                                      *)

\* Every step leaves an existing row alone or is a commit on it.
LEMMA StepOnRow ==
  ASSUME IInv, Next, NEW r \in Runs, runs[r] # NoRun
  PROVE  runs'[r] = runs[r] \/ \E c \in Clients : Commits(c, r)
  <1>1. PICK c \in Clients : ClientStep(c)
    BY DEF Next
  <1>2. CASE UNCHANGED runs
    BY <1>2
  <1>3. CASE \E t \in Tenants, q \in Runs, trace \in Traces,
                cap \in CapacityClasses : CreateRun(c, t, q, trace, cap)
    BY <1>3 DEF CreateRun, IInv, TypeOK
  <1>4. CASE Commits(c, op[c].run_id)
    <2>1. CASE op[c].run_id = r
      BY <1>4, <2>1
    <2>2. CASE op[c].run_id # r
      BY <1>4, <2>2 DEF Commits
    <2>. QED BY <2>1, <2>2
  <1>5. CASE \E reason \in AppendReasons, trace \in Traces :
               CommitAppendAttempt(c, reason, trace)
    BY <1>4, <1>5, CommitAppendAttemptStep
  <1>6. CASE CommitTransitionStage(c)
    BY <1>4, <1>6, CommitTransitionStageStep
  <1>7. CASE \E p \in Pointers, cap \in CapacityClasses \cup {Null} :
               CommitWriteCheckpoint(c, p, cap)
    BY <1>4, <1>7, CommitWriteCheckpointStep
  <1>8. CASE \E n \in Nodes : CommitWriteExecutionLocation(c, n)
    BY <1>4, <1>8, CommitWriteExecutionLocationStep
  <1>. QED BY <1>1, <1>2, <1>3, <1>5, <1>6, <1>7, <1>8 DEF ClientStep, GetRun,
              ListRuns, CallWrite, Rollback, Raise, Reply

\* No lost update, for any number of processes sharing the database: the
\* version in the WHERE clause of update_run is enough, because a row that
\* kept its version kept all its fields.
THEOREM RegistryNoLostUpdate == Spec => WritesFromCurrentRow
  <1>1. IInv /\ [Next]_vars =>
          [\A r \in Runs : Exists(r) /\ runs'[r] # runs[r]
             => CommitsWhatItRead(r)]_vars
    <2> SUFFICES ASSUME IInv, Next, NEW r \in Runs, runs[r] # NoRun,
                        runs'[r] # runs[r]
                 PROVE  CommitsWhatItRead(r)
      BY DEF Exists
    <2>1. PICK c \in Clients : Commits(c, r)
      BY StepOnRow
    <2>. QED BY <2>1 DEF Commits, CommitsWhatItRead
  <1>. QED BY <1>1, RegistryInvariant, PTL DEF Spec, WritesFromCurrentRow

\* A terminal stage is final and every write moves the version by one.
THEOREM RegistryOnlyAdvances == Spec => RunsOnlyAdvance
  <1>1. IInv /\ [Next]_vars =>
          [\A r \in Runs : Exists(r) => AdvancesOnly(runs[r], runs'[r])]_vars
    <2> SUFFICES ASSUME IInv, Next, NEW r \in Runs, runs[r] # NoRun
                 PROVE  AdvancesOnly(runs[r], runs'[r])
      BY DEF Exists
    <2>1. CASE runs'[r] = runs[r]
      BY <2>1 DEF AdvancesOnly
    <2>2. CASE \E c \in Clients : Commits(c, r)
      BY <2>2 DEF Commits
    <2>. QED BY <2>1, <2>2, StepOnRow
  <1>. QED BY <1>1, RegistryInvariant, PTL DEF Spec, RunsOnlyAdvance

-----------------------------------------------------------------------------
(* The list of Attempts.                                                   *)

\* What a write may do to a Run's list of Attempts.
Extends(s, t) ==
  /\ Len(t) \in {Len(s), Len(s) + 1}
  /\ \A i \in 1..Len(s) :
       /\ t[i].reason = s[i].reason
       /\ t[i].starting_stage = s[i].starting_stage
       /\ t[i].trace_id = s[i].trace_id
       /\ s[i].end_ts = "set" => t[i].end_ts = "set"

\* A Run that was never created has no Attempts.
NoRowsBeforeCreate == \A r \in Runs : runs[r] = NoRun => attempts[r] = <<>>

\* close_attempt seals, and a row appended to the sealed list leaves it as it is.
LEMMA SealThenInsert ==
  ASSUME NEW s \in Seq(AttemptRow), NEW id \in Nat, NEW reason \in Reasons,
         NEW stage \in ALL_STAGES, NEW trace \in Traces
  PROVE  /\ Extends(s, s) /\ Extends(s, close_attempt(s, id))
         /\ Extends(s, insert_attempt(close_attempt(s, id), reason, stage, trace))
  <1> DEFINE c == close_attempt(s, id)
             t == insert_attempt(c, reason, stage, trace)
  <1>1. Len(s) \in Nat
    OBVIOUS
  <1>2. /\ c \in Seq(AttemptRow) /\ Len(c) = Len(s)
        /\ \A i \in 1..Len(s) :
             /\ c[i].trace_id = s[i].trace_id /\ c[i].reason = s[i].reason
             /\ c[i].starting_stage = s[i].starting_stage
             /\ c[i].end_ts = IF i = id THEN "set" ELSE s[i].end_ts
    BY CloseAttempt
  <1> HIDE DEF c
  <1>3. Len(t) = Len(c) + 1 /\ \A i \in 1..Len(c) : t[i] = c[i]
    BY <1>2, InsertAttempt
  <1> HIDE DEF t
  <1>4. Extends(s, c)
    BY <1>1, <1>2 DEF Extends
  <1>5. Extends(s, t)
    BY <1>1, <1>2, <1>3 DEF Extends
  <1>6. Extends(s, s)
    BY <1>1 DEF Extends
  <1>. QED BY <1>4, <1>5, <1>6 DEF c, t

\* The steps that write the table attempts.
LEMMA AttemptsStep ==
  ASSUME IInv, NoRowsBeforeCreate, Next
  PROVE  /\ \A r \in Runs : Extends(attempts[r], attempts'[r])
         /\ NoRowsBeforeCreate'
  <1>0. \A r \in Runs : attempts[r] \in Seq(AttemptRow) /\ runs[r] \in RunRow \cup {NoRun}
    BY DEF IInv, TypeOK
  <1>1. \A r \in Runs : Extends(attempts[r], attempts[r])
    BY <1>0 DEF Extends
  <1>2. \A r \in Runs : runs[r] # NoRun => runs'[r] # NoRun
    <2>1. ASSUME NEW r \in Runs, runs[r] # NoRun PROVE runs'[r] # NoRun
      BY <2>1, StepOnRow, ConstantsAssumption DEF Commits, AdvancesOnly
    <2>. QED BY <2>1
  <1>3. ASSUME NEW q \in Runs, runs[q] # NoRun, NEW s,
               attempts' = [attempts EXCEPT ![q] = s], Extends(attempts[q], s)
        PROVE  /\ \A r \in Runs : Extends(attempts[r], attempts'[r])
               /\ NoRowsBeforeCreate'
    <2>1. attempts'[q] = s /\ \A r \in Runs : r # q => attempts'[r] = attempts[r]
      BY <1>3 DEF IInv, TypeOK
    <2>2. \A r \in Runs : Extends(attempts[r], attempts'[r])
      BY <2>1, <1>1, <1>3
    <2>3. NoRowsBeforeCreate'
      BY <2>1, <1>2, <1>3 DEF NoRowsBeforeCreate
    <2>. QED BY <2>2, <2>3
  <1>4. PICK c \in Clients : ClientStep(c)
    BY DEF Next
  <1>5. CASE UNCHANGED attempts
    BY <1>1, <1>2, <1>5 DEF NoRowsBeforeCreate
  <1>6. ASSUME NEW t \in Tenants, NEW q \in Runs, NEW trace \in Traces,
               NEW cap \in CapacityClasses, CreateRun(c, t, q, trace, cap)
        PROVE  /\ \A r \in Runs : Extends(attempts[r], attempts'[r])
               /\ NoRowsBeforeCreate'
    <2> DEFINE s == insert_attempt(<<>>, "initial", INTAKE, trace)
    <2>1. attempts[q] = <<>> /\ attempts' = [attempts EXCEPT ![q] = s]
      BY <1>6 DEF CreateRun, NoRowsBeforeCreate
    <2>2. Len(s) = 1
      BY DEF insert_attempt
    <2>3. Extends(attempts[q], s)
      BY <2>1, <2>2 DEF Extends
    <2> HIDE DEF s
    <2>4. attempts'[q] = s /\ \A r \in Runs : r # q => attempts'[r] = attempts[r]
      BY <2>1 DEF IInv, TypeOK
    <2>5. \A r \in Runs : Extends(attempts[r], attempts'[r])
      BY <2>3, <2>4, <1>1
    <2>6. runs'[q] # NoRun
      <3> DEFINE new == [tenant_id |-> t, stage |-> INTAKE, capacity_class |-> cap,
                         checkpoint_pointer |-> Null, exec_node |-> Null,
                         trace_id |-> trace, current_attempt_id |-> 1, version |-> 1]
      <3>1. INTAKE \in ALL_STAGES
        BY DEF INTAKE, ALL_STAGES, NON_TERMINAL_STAGES
      <3>2. new \in RunRow
        BY <3>1 DEF RunRow
      <3>3. runs' = [runs EXCEPT ![q] = new]
        BY <1>6 DEF CreateRun
      <3> HIDE DEF new
      <3>4. new # NoRun
        BY <3>2, ConstantsAssumption
      <3>. QED BY <3>3, <3>4 DEF IInv, TypeOK
    <2>7. NoRowsBeforeCreate'
      BY <2>4, <2>6, <1>2 DEF NoRowsBeforeCreate
    <2>. QED BY <2>5, <2>7
  <1>7. ASSUME NEW reason \in AppendReasons, NEW trace \in Traces,
               CommitAppendAttempt(c, reason, trace)
        PROVE  /\ \A r \in Runs : Extends(attempts[r], attempts'[r])
               /\ NoRowsBeforeCreate'
    <2> DEFINE o == op[c]
               q == o.run_id
               id == o.seen.current_attempt_id
               s == insert_attempt(close_attempt(attempts[q], id), reason, o.stage, trace)
    <2>1. /\ q \in Runs /\ runs[q] \in RunRow /\ runs[q] = o.seen
          /\ o.stage \in ALL_STAGES
      BY <1>7, CommitFacts DEF CommitAppendAttempt, committing, IInv, StageOps
    <2>2. attempts' = [attempts EXCEPT ![q] = s]
      BY <1>7 DEF CommitAppendAttempt
    <2>3. id \in Nat /\ reason \in Reasons /\ runs[q] # NoRun
      BY <2>1, ConstantsAssumption DEF RunRow
    <2> HIDE DEF o, q, id
    <2>4. Extends(attempts[q], s)
      BY <2>1, <2>3, <1>0, SealThenInsert
    <2> HIDE DEF s
    <2>. QED BY <2>1, <2>2, <2>3, <2>4, <1>3
  <1>8. CASE CommitTransitionStage(c)
    <2> DEFINE o == op[c]
               q == o.run_id
               id == o.seen.current_attempt_id
               s == IF o.stage \in TERMINAL_STAGES THEN close_attempt(attempts[q], id)
                                                   ELSE attempts[q]
    <2>1. q \in Runs /\ runs[q] \in RunRow /\ runs[q] = o.seen
      BY <1>8, CommitFacts DEF CommitTransitionStage, committing, IInv
    <2>2. attempts' = [attempts EXCEPT ![q] = s]
      BY <1>8 DEF CommitTransitionStage
    <2>3. id \in Nat /\ runs[q] # NoRun
      BY <2>1, ConstantsAssumption DEF RunRow
    <2> HIDE DEF o, q, id
    <2>4. Extends(attempts[q], close_attempt(attempts[q], id))
      BY <2>1, <2>3, <1>0, CloseAttempt DEF Extends
    <2>5. Extends(attempts[q], s)
      BY <2>1, <2>4, <1>1
    <2> HIDE DEF s
    <2>. QED BY <2>1, <2>2, <2>3, <2>5, <1>3
  <1>. QED BY <1>4, <1>5, <1>6, <1>7, <1>8
       DEF ClientStep, GetRun, ListRuns, CallWrite, CommitWriteCheckpoint,
           CommitWriteExecutionLocation, Rollback, Raise, Reply

\* Attempts are append-only for any number of processes: no write, and no failure
\* between two of its statements, rewrites, reopens or drops an Attempt.
THEOREM RegistryAppendOnly == Spec => AttemptsAppendOnly
  <1>1. Init => NoRowsBeforeCreate
    BY DEF Init, NoRowsBeforeCreate
  <1>2. IInv /\ NoRowsBeforeCreate /\ [Next]_vars => NoRowsBeforeCreate'
    BY AttemptsStep DEF vars, NoRowsBeforeCreate
  <1>3. IInv /\ NoRowsBeforeCreate /\ [Next]_vars =>
          [\A r \in Runs : Extends(attempts[r], attempts'[r])]_vars
    BY AttemptsStep
  <1>4. AttemptsAppendOnly <=> [][\A r \in Runs : Extends(attempts[r], attempts'[r])]_vars
    BY DEF AttemptsAppendOnly, Extends
  <1>. QED BY <1>1, <1>2, <1>3, <1>4, RegistryInvariant, PTL DEF Spec
=============================================================================
