------------------------ MODULE GatesAndIndexProofs ------------------------
(***************************************************************************)
(* Theorems about Gates and about RepoIndex: for any number of callers,    *)
(* gates, people and days a gate is cleared only by someone entitled, a    *)
(* decision is final, a sweep leaves no breached gate behind, and the      *)
(* tracker, the audit log and the table of handles tell the same story;    *)
(* for any repository and any history of it an index that claims to be     *)
(* fresh has a record of every file as it is.                              *)
(***************************************************************************)
EXTENDS MCGatesAndIndex, Sequences, FiniteSetTheorems, WellFoundedInduction, TLAPS

\* What a step may do to the tracker's records: an opened gate keeps its opening,
\* and its two flags are only ever set.
Grows(G, H) ==
  \A g \in Gates : G[g].exists = "yes" =>
    /\ H[g].exists = "yes" /\ H[g].opened = G[g].opened
    /\ G[g].escalated = "yes" => H[g].escalated = "yes"
    /\ G[g].actioned = "yes" => H[g].actioned = "yes"

\* A thread that does not move keeps what it relies on.
LEMMA StaysOK ==
  ASSUME NEW G \in [Gates -> GateType], NEW H \in [Gates -> GateType], Grows(G, H),
         NEW r \in ThreadType, CallOK(G, r)
  PROVE  CallOK(H, r)
  <1>1. r.found \subseteq Gates
    BY DEF ThreadType
  <1>2. r.pc \in AtGate => r.gate \in Gates /\ H[r.gate].exists = "yes"
    BY DEF CallOK, Grows
  <1>3. /\ r.pc = "mark" => entitled(H, r.gate, r.actor, r.approver, r.checked, r.late)
        /\ r.pc = "authority" /\ r.late = "yes" => H[r.gate].escalated = "yes"
    BY DEF CallOK, Grows, entitled, AtGate, GateType
  <1>4. r.pc \in Sweeping => \A g \in r.found :
          /\ H[g].exists = "yes"
          /\ g \notin r.todo =>
               \/ ~(r.now >= add_business_days(H[g].opened, Sla[g]))
               \/ H[g].actioned = "yes" \/ H[g].escalated = "yes"
    BY <1>1 DEF CallOK, Grows
  <1>. QED BY <1>2, <1>3, <1>4 DEF CallOK

\* One thread moves, with a record that is right for the new state.
LEMMA ThreadMoves ==
  ASSUME TypeOK, \A t \in Threads : CallOK(gates, thr[t]),
         NEW th \in Threads, NEW r \in ThreadType, thr' = [thr EXCEPT ![th] = r],
         gates' \in [Gates -> GateType], Grows(gates, gates'), CallOK(gates', r)
  PROVE  /\ thr' \in [Threads -> ThreadType]
         /\ \A t \in Threads : CallOK(gates', thr'[t])
  <1>1. /\ thr' \in [Threads -> ThreadType]
        /\ thr'[th] = r
        /\ \A t \in Threads : t # th => thr'[t] = thr[t]
    BY DEF TypeOK
  <1>2. ASSUME NEW t \in Threads PROVE CallOK(gates', thr'[t])
    <2>1. CASE t = th
      BY <2>1, <1>1
    <2>2. CASE t # th
      <3>1. thr[t] \in ThreadType /\ CallOK(gates, thr[t]) /\ gates \in [Gates -> GateType]
        BY DEF TypeOK
      <3>2. CallOK(gates', thr[t])
        BY <3>1, StaysOK
      <3>. QED BY <3>2, <2>2, <1>1
    <2>. QED BY <2>1, <2>2
  <1>. QED BY <1>1, <1>2

\* The records stay as they are.
LEMMA GrowsRefl == ASSUME TypeOK PROVE Grows(gates, gates)
  BY DEF Grows, TypeOK

\* A thread moves and the tracker is not written.
LEMMA LocalMoves ==
  ASSUME IInv, NEW th \in Threads, NEW r \in ThreadType,
         thr' = [thr EXCEPT ![th] = r], gates' = gates, CallOK(gates, r)
  PROVE  /\ thr' \in [Threads -> ThreadType]
         /\ \A t \in Threads : CallOK(gates', thr'[t])
  <1>1. /\ TypeOK /\ \A t \in Threads : CallOK(gates, thr[t])
        /\ gates' \in [Gates -> GateType] /\ Grows(gates, gates') /\ CallOK(gates', r)
    BY GrowsRefl DEF IInv, TypeOK
  <1>. QED BY <1>1, ThreadMoves

\* A thread at rest relies on nothing.
LEMMA IdleOK ==
  ASSUME NEW G PROVE Idle \in ThreadType /\ CallOK(G, Idle)
  BY DEF Idle, ThreadType, PCs, CallOK, AtGate, Sweeping

\* The log stays well-formed.
LEMMA RecordType ==
  ASSUME audit \in [Gates -> [AuditKinds -> Nat]], NEW g \in Gates, NEW k \in AuditKinds,
         record(g, k)
  PROVE  audit' \in [Gates -> [AuditKinds -> Nat]]
  BY DEF record

\* A thread changes only its place.
LEMMA PlaceChange ==
  ASSUME NEW a \in ThreadType, NEW p \in PCs
  PROVE  /\ [a EXCEPT !.pc = p] \in ThreadType
         /\ [a EXCEPT !.pc = p].pc = p
         /\ [a EXCEPT !.pc = p].gate = a.gate
         /\ [a EXCEPT !.pc = p].approver = a.approver
         /\ [a EXCEPT !.pc = p].actor = a.actor
         /\ [a EXCEPT !.pc = p].checked = a.checked
         /\ [a EXCEPT !.pc = p].late = a.late
         /\ [a EXCEPT !.pc = p].now = a.now
         /\ [a EXCEPT !.pc = p].found = a.found
         /\ [a EXCEPT !.pc = p].todo = a.todo
  BY DEF ThreadType

\* The first state.
LEMMA InitIInv == Init => IInv
  <1> SUFFICES ASSUME Init PROVE IInv
    OBVIOUS
  <1>1. Idle \in ThreadType /\ CallOK(gates, Idle)
    BY IdleOK
  <1>2. Unopened \in GateType
    BY DEF Unopened, GateType
  <1>3. TypeOK
    BY <1>1, <1>2, GatesAssumption DEF Init, TypeOK, Uncleared
  <1>4. \A t \in Threads : CallOK(gates, thr[t])
    BY <1>1 DEF Init
  <1>5. (\A g \in Gates : GateOK(g)) /\ ClearedByEntitled
    BY DEF Init, GateOK, ClearedByEntitled, Unopened
  <1>. QED BY <1>3, <1>4, <1>5 DEF IInv

\* The conjuncts about gates when the tracker, the handles and the history are
\* as they were.
LEMMA GatesKept ==
  ASSUME IInv, UNCHANGED <<gates, handle, cleared>>
  PROVE  (\A g \in Gates : GateOK(g))' /\ ClearedByEntitled'
  BY DEF IInv, GateOK, ClearedByEntitled, entitled

\* The steps that write neither the tracker nor the handles: the entries of the
\* log, the evaluation, a refused decision and the walk of a sweep.
LEMMA QuietStep ==
  ASSUME IInv, NEW th \in Threads, NEW r \in ThreadType,
         thr' = [thr EXCEPT ![th] = r], CallOK(gates, r),
         UNCHANGED <<day, gates, handle, cleared>>,
         audit' \in [Gates -> [AuditKinds -> Nat]], decisions' \in Nat
  PROVE  IInv'
  <1>1. /\ thr' \in [Threads -> ThreadType]
        /\ \A t \in Threads : CallOK(gates', thr'[t])
    BY LocalMoves
  <1>2. (\A g \in Gates : GateOK(g))' /\ ClearedByEntitled'
    BY GatesKept
  <1>3. TypeOK'
    BY <1>1 DEF IInv, TypeOK
  <1>. QED BY <1>1, <1>2, <1>3 DEF IInv

\* Entries of the audit log.
LEMMA AuditStep ==
  ASSUME IInv, NEW th \in Threads,
         AuditOpened(th) \/ AuditRejected(th) \/ AuditActioned(th) \/ AuditEscalated(th)
  PROVE  IInv'
  <1>1. thr[th] \in ThreadType /\ CallOK(gates, thr[th]) /\ thr[th].pc \in AtGate
    BY DEF IInv, TypeOK, AuditOpened, AuditRejected, AuditActioned, AuditEscalated, AtGate
  <1>2. thr[th].gate \in Gates
    BY <1>1 DEF CallOK
  <1>3. audit' \in [Gates -> [AuditKinds -> Nat]]
    BY <1>2, RecordType
       DEF IInv, TypeOK, AuditOpened, AuditRejected, AuditActioned, AuditEscalated, AuditKinds
  <1>4. UNCHANGED <<day, gates, handle, cleared>> /\ decisions' \in Nat
    BY DEF IInv, TypeOK, AuditOpened, AuditRejected, AuditActioned, AuditEscalated
  <1>5. CASE AuditRejected(th)
    <2>1. thr' = [thr EXCEPT ![th] = Idle]
      BY <1>5 DEF AuditRejected, returns
    <2>. QED BY <2>1, <1>3, <1>4, IdleOK, QuietStep
  <1>6. ASSUME NEW p \in {"handle", "delete", "sweep"}, at(th, p),
               p = "sweep" => thr[th].pc = "audit_escalated"
        PROVE  IInv'
    <2> DEFINE r == [thr[th] EXCEPT !.pc = p]
    <2>1. thr' = [thr EXCEPT ![th] = r]
      BY <1>6 DEF at
    <2>0. p \in PCs
      BY <1>6 DEF PCs
    <2>2. /\ r \in ThreadType /\ r.pc = p /\ r.gate = thr[th].gate
          /\ r.now = thr[th].now /\ r.found = thr[th].found /\ r.todo = thr[th].todo
      BY <1>1, <2>0, PlaceChange
    <2> HIDE DEF r
    <2>3. CallOK(gates, r)
      BY <1>1, <1>6, <2>2 DEF CallOK, AtGate, Sweeping
    <2>. QED BY <2>1, <2>2, <2>3, <1>3, <1>4, QuietStep
  <1>7. CASE AuditOpened(th)
    BY <1>6, <1>7 DEF AuditOpened
  <1>8. CASE AuditActioned(th)
    BY <1>6, <1>8 DEF AuditActioned
  <1>9. CASE AuditEscalated(th)
    BY <1>6, <1>9 DEF AuditEscalated
  <1>. QED BY <1>5, <1>7, <1>8, <1>9

\* A call ends without having written anything.
LEMMA EndStep ==
  ASSUME IInv, NEW th \in Threads, AlreadyActioned(th) \/ EndSweep(th)
  PROVE  IInv'
  <1>1. /\ thr' = [thr EXCEPT ![th] = Idle] /\ UNCHANGED <<day, gates, handle, cleared>>
        /\ audit' \in [Gates -> [AuditKinds -> Nat]] /\ decisions' \in Nat
    BY DEF IInv, TypeOK, AlreadyActioned, EndSweep, returns
  <1>. QED BY <1>1, IdleOK, QuietStep

\* A decision begins: the gate has a handle, hence was opened.
LEMMA DecideStep ==
  ASSUME IInv, NEW th \in Threads, NEW g \in Gates, NEW p \in People,
         NEW c \in {"no", "yes"}, Decide(th, g, p, c)
  PROVE  IInv'
  <1> DEFINE k == IF KindOf[g] = "change_review" THEN c ELSE "no"
             r == [Idle EXCEPT !.pc = "authority", !.gate = g, !.approver = handle[g],
                               !.actor = p, !.late = gates[g].escalated, !.checked = k]
  <1>1. handle[g] \in People /\ gates[g].exists = "yes"
    BY DEF IInv, TypeOK, GateOK, GateType, Decide
  <1>2. /\ r \in ThreadType /\ r.pc = "authority" /\ r.gate = g /\ r.approver = handle[g]
        /\ r.late = gates[g].escalated
    <2>1. k \in {"no", "yes"} /\ gates[g].escalated \in {"no", "yes"}
      BY DEF IInv, TypeOK, GateType
    <2> HIDE DEF k
    <2>. QED BY <1>1, <2>1 DEF Idle, ThreadType, PCs
  <1>3. /\ thr' = [thr EXCEPT ![th] = r] /\ UNCHANGED <<day, gates, handle, cleared>>
        /\ audit' \in [Gates -> [AuditKinds -> Nat]] /\ decisions' \in Nat
    BY DEF IInv, TypeOK, Decide
  <1> HIDE DEF r
  <1>4. CallOK(gates, r)
    BY <1>1, <1>2 DEF CallOK, AtGate, Sweeping
  <1>. QED BY <1>2, <1>3, <1>4, QuietStep

\* Whoever the evaluation clears is entitled.
LEMMA EvaluateStep ==
  ASSUME IInv, NEW th \in Threads, Evaluate(th)
  PROVE  IInv'
  <1> DEFINE a == thr[th]
             clears == evaluate_gate_clearance(a.gate, a.actor,
                         current_authority(a.gate, a.approver), a.checked)
             p == IF clears THEN "mark" ELSE "reject"
             r == [a EXCEPT !.pc = p]
  <1>1. a \in ThreadType /\ CallOK(gates, a) /\ a.pc = "authority"
    BY DEF IInv, TypeOK, Evaluate
  <1>2. a.gate \in Gates /\ gates[a.gate].exists = "yes"
    BY <1>1 DEF CallOK, AtGate
  <1>3. clears => entitled(gates, a.gate, a.actor, a.approver, a.checked, a.late)
    BY <1>1 DEF evaluate_gate_clearance, current_authority, entitled, unsatisfied_files, CallOK
  <1>4. thr' = [thr EXCEPT ![th] = r]
    BY DEF Evaluate, at
  <1>5. /\ UNCHANGED <<day, gates, handle, cleared>>
        /\ audit' \in [Gates -> [AuditKinds -> Nat]] /\ decisions' \in Nat
    BY DEF IInv, TypeOK, Evaluate
  <1>6. p \in {"mark", "reject"} /\ (p = "mark" => clears)
    OBVIOUS
  <1> HIDE DEF clears, p
  <1>0. p \in PCs
    BY <1>6 DEF PCs
  <1>7. /\ r \in ThreadType /\ r.pc = p /\ r.gate = a.gate /\ r.actor = a.actor
        /\ r.approver = a.approver /\ r.checked = a.checked /\ r.late = a.late
    BY <1>0, <1>1, PlaceChange
  <1> HIDE DEF r, a
  <1>8. CallOK(gates, r)
    BY <1>2, <1>3, <1>6, <1>7 DEF CallOK, AtGate, Sweeping
  <1>. QED BY <1>4, <1>5, <1>7, <1>8, QuietStep

\* A sweep begins with the opened gates that are neither decided nor escalated.
LEMMA SweepStep ==
  ASSUME IInv, NEW th \in Threads, Sweep(th)
  PROVE  IInv'
  <1> DEFINE C == {g \in Gates : unactioned(g)}
             r == [Idle EXCEPT !.pc = "sweep", !.now = day, !.found = C, !.todo = C]
  <1>1. C \subseteq Gates /\ \A g \in C : gates[g].exists = "yes"
    BY DEF unactioned
  <1>2. thr' = [thr EXCEPT ![th] = r]
    BY DEF Sweep
  <1> HIDE DEF C
  <1>3. r \in ThreadType /\ r.pc = "sweep" /\ r.found = C /\ r.todo = C
    BY <1>1 DEF Idle, ThreadType, PCs, IInv, TypeOK
  <1>4. /\ UNCHANGED <<day, gates, handle, cleared>>
        /\ audit' \in [Gates -> [AuditKinds -> Nat]] /\ decisions' \in Nat
    BY DEF IInv, TypeOK, Sweep
  <1> HIDE DEF r
  <1>5. CallOK(gates, r)
    BY <1>1, <1>3 DEF CallOK, AtGate, Sweeping
  <1>. QED BY <1>2, <1>3, <1>4, <1>5, QuietStep

\* A sweep passes over a gate that is in time, decided or escalated.
LEMMA SkipStep ==
  ASSUME IInv, NEW th \in Threads, NEW g \in Gates, Skip(th, g)
  PROVE  IInv'
  <1> DEFINE a == thr[th]
             r == [a EXCEPT !.todo = a.todo \ {g}]
  <1>1. a \in ThreadType /\ CallOK(gates, a) /\ a.pc = "sweep" /\ gates[g] \in GateType
    BY DEF IInv, TypeOK, Skip
  <1>2. /\ thr' = [thr EXCEPT ![th] = r] /\ UNCHANGED <<day, gates, handle, cleared>>
        /\ audit' \in [Gates -> [AuditKinds -> Nat]] /\ decisions' \in Nat
    BY DEF IInv, TypeOK, Skip
  <1>3. /\ r \in ThreadType /\ r.pc = "sweep" /\ r.now = a.now /\ r.found = a.found
        /\ r.todo = a.todo \ {g}
    BY <1>1 DEF ThreadType
  <1>4. g \in a.found =>
          \/ ~(a.now >= add_business_days(gates[g].opened, Sla[g]))
          \/ gates[g].actioned = "yes" \/ gates[g].escalated = "yes"
    BY <1>1 DEF Skip, is_sla_breached, unactioned, CallOK, Sweeping, GateType
  <1> HIDE DEF r, a
  <1>5. CallOK(gates, r)
    BY <1>1, <1>3, <1>4 DEF CallOK, AtGate, Sweeping
  <1>. QED BY <1>2, <1>3, <1>5, QuietStep

\* A gate is opened: its record is new, nobody relies on it yet.
LEMMA OpenStep ==
  ASSUME IInv, NEW th \in Threads, NEW g \in Gates, NEW p \in People, OpenGate(th, g, p)
  PROVE  IInv'
  <1> DEFINE n == [Unopened EXCEPT !.exists = "yes", !.opened = day]
             r == [Idle EXCEPT !.pc = "opened", !.gate = g, !.approver = p]
  <1>1. /\ n \in GateType /\ n.exists = "yes" /\ n.actioned = "no"
    BY DEF Unopened, GateType, IInv, TypeOK
  <1>2. r \in ThreadType /\ r.pc = "opened" /\ r.gate = g
    BY DEF Idle, ThreadType, PCs
  <1>3. /\ gates' = [gates EXCEPT ![g] = n] /\ thr' = [thr EXCEPT ![th] = r]
        /\ gates[g].exists = "no" /\ UNCHANGED <<day, handle, audit, decisions, cleared>>
    BY DEF OpenGate
  <1> HIDE DEF n, r
  <1>4. /\ gates' \in [Gates -> GateType] /\ gates'[g] = n
        /\ \A h \in Gates : h # g => gates'[h] = gates[h]
    BY <1>1, <1>3 DEF IInv, TypeOK
  <1>5. Grows(gates, gates')
    BY <1>3, <1>4 DEF Grows
  <1>6. CallOK(gates', r)
    BY <1>1, <1>2, <1>4 DEF CallOK, AtGate, Sweeping
  <1>7. /\ thr' \in [Threads -> ThreadType]
        /\ \A t \in Threads : CallOK(gates', thr'[t])
    BY <1>2, <1>3, <1>4, <1>5, <1>6, ThreadMoves DEF IInv
  <1>8. TypeOK'
    BY <1>3, <1>4, <1>7 DEF IInv, TypeOK
  <1>9. (\A h \in Gates : GateOK(h))'
    BY <1>1, <1>3, <1>4 DEF IInv, GateOK
  <1>10. ClearedByEntitled'
    BY <1>1, <1>3, <1>4 DEF IInv, ClearedByEntitled, entitled
  <1>. QED BY <1>7, <1>8, <1>9, <1>10 DEF IInv

\* The handle of an opened gate is put in its place or taken away.
LEMMA HandleStep ==
  ASSUME IInv, NEW th \in Threads, PutHandle(th) \/ DeleteHandle(th)
  PROVE  IInv'
  <1> DEFINE g == thr[th].gate
  <1>1. thr[th] \in ThreadType /\ g \in Gates /\ gates[g].exists = "yes"
    BY DEF IInv, TypeOK, CallOK, AtGate, PutHandle, DeleteHandle
  <1>2. /\ thr' = [thr EXCEPT ![th] = Idle]
        /\ UNCHANGED <<day, gates, audit, decisions, cleared>>
    BY DEF PutHandle, DeleteHandle, returns
  <1>3. PICK h \in People \cup {NoOne} : handle' = [handle EXCEPT ![g] = h]
    BY <1>1 DEF PutHandle, DeleteHandle, ThreadType
  <1>4. /\ thr' \in [Threads -> ThreadType]
        /\ \A t \in Threads : CallOK(gates', thr'[t])
    BY <1>2, IdleOK, LocalMoves
  <1>5. TypeOK'
    BY <1>2, <1>3, <1>4 DEF IInv, TypeOK
  <1>6. (\A k \in Gates : GateOK(k))'
    BY <1>1, <1>2, <1>3 DEF IInv, TypeOK, GateOK
  <1>7. ClearedByEntitled'
    BY <1>2 DEF IInv, ClearedByEntitled, entitled
  <1>. QED BY <1>4, <1>5, <1>6, <1>7 DEF IInv

\* A gate is marked by a thread that is entitled, also when a sweep escalated it
\* since the thread was evaluated.
LEMMA MarkStep ==
  ASSUME IInv, NEW th \in Threads, MarkActioned(th)
  PROVE  IInv'
  <1> DEFINE a == thr[th]
             g == a.gate
             n == [gates[g] EXCEPT !.actioned = "yes"]
             r == [a EXCEPT !.pc = "audit_actioned"]
             c == [by |-> a.actor, approver |-> a.approver, checked |-> a.checked,
                   late |-> a.late]
  <1>1. a \in ThreadType /\ CallOK(gates, a) /\ a.pc = "mark"
    BY DEF IInv, TypeOK, MarkActioned
  <1>2. /\ g \in Gates /\ gates[g].exists = "yes"
        /\ entitled(gates, g, a.actor, a.approver, a.checked, a.late)
    BY <1>1 DEF CallOK, AtGate
  <1>3. /\ n \in GateType /\ n.exists = "yes" /\ n.opened = gates[g].opened
        /\ n.escalated = gates[g].escalated /\ n.actioned = "yes"
    <2>1. gates[g] \in GateType
      BY <1>2 DEF IInv, TypeOK
    <2> HIDE DEF g
    <2>. QED BY <1>2, <2>1 DEF GateType
  <1>4. /\ gates' = [gates EXCEPT ![g] = n] /\ thr' = [thr EXCEPT ![th] = r]
        /\ cleared' = [cleared EXCEPT ![g] = c] /\ UNCHANGED <<day, handle, audit, decisions>>
    BY DEF MarkActioned, mark, at
  <1>5. /\ r \in ThreadType /\ r.pc = "audit_actioned" /\ r.gate = g
    BY <1>1 DEF ThreadType, PCs
  <1>6. /\ c \in [by : People \cup {NoOne}, approver : People \cup {NoOne},
                  checked : {"no", "yes"}, late : {"no", "yes"}]
        /\ c.by = a.actor /\ c.approver = a.approver /\ c.checked = a.checked
        /\ c.late = a.late
    BY <1>1 DEF ThreadType
  <1> HIDE DEF n, r, c
  <1>7. /\ gates' \in [Gates -> GateType] /\ gates'[g] = n
        /\ \A h \in Gates : h # g => gates'[h] = gates[h]
    BY <1>2, <1>3, <1>4 DEF IInv, TypeOK
  <1>8. /\ cleared' \in [Gates -> [by : People \cup {NoOne}, approver : People \cup {NoOne},
                                  checked : {"no", "yes"}, late : {"no", "yes"}]]
        /\ cleared'[g] = c
        /\ \A h \in Gates : h # g => cleared'[h] = cleared[h]
    BY <1>2, <1>4, <1>6 DEF IInv, TypeOK
  <1>9. Grows(gates, gates')
    BY <1>3, <1>7 DEF Grows
  <1>10. CallOK(gates', r)
    BY <1>2, <1>3, <1>5, <1>7 DEF CallOK, AtGate, Sweeping
  <1>11. /\ thr' \in [Threads -> ThreadType]
         /\ \A t \in Threads : CallOK(gates', thr'[t])
    BY <1>4, <1>5, <1>7, <1>9, <1>10, ThreadMoves DEF IInv
  <1>12. TypeOK'
    BY <1>4, <1>7, <1>8, <1>11 DEF IInv, TypeOK
  <1>13. (\A h \in Gates : GateOK(h))'
    BY <1>3, <1>4, <1>7 DEF IInv, GateOK
  <1>14. ClearedByEntitled'
    <2>1. ASSUME NEW h \in Gates, gates'[h].actioned = "yes"
          PROVE  entitled(gates', h, cleared'[h].by, cleared'[h].approver, cleared'[h].checked,
                          cleared'[h].late)
      <3>1. CASE h = g
        BY <3>1, <1>2, <1>3, <1>6, <1>7, <1>8 DEF entitled
      <3>2. CASE h # g
        BY <2>1, <3>2, <1>7, <1>8 DEF IInv, ClearedByEntitled, entitled
      <3>. QED BY <3>1, <3>2
    <2>. QED BY <2>1 DEF ClearedByEntitled
  <1>. QED BY <1>11, <1>12, <1>13, <1>14 DEF IInv

\* A sweep escalates a gate: no decision becomes wrong by it.
LEMMA EscalateStep ==
  ASSUME IInv, NEW th \in Threads, NEW g \in Gates, Escalate(th, g)
  PROVE  IInv'
  <1> DEFINE a == thr[th]
             n == [gates[g] EXCEPT !.escalated = "yes", !.since = a.now]
             r == [a EXCEPT !.pc = "audit_escalated", !.gate = g, !.todo = a.todo \ {g}]
  <1>1. /\ a \in ThreadType /\ CallOK(gates, a) /\ a.pc = "sweep"
        /\ gates[g].exists = "yes" /\ gates[g].actioned = "no"
    BY DEF IInv, TypeOK, Escalate, unactioned
  <1>2. /\ n \in GateType /\ n.exists = "yes" /\ n.opened = gates[g].opened
        /\ n.escalated = "yes" /\ n.actioned = gates[g].actioned
    <2>1. gates[g] \in GateType
      BY DEF IInv, TypeOK
    <2>2. a.now \in Nat
      BY <1>1 DEF ThreadType
    <2> HIDE DEF a
    <2>. QED BY <2>1, <2>2, <1>1 DEF GateType
  <1>3. /\ gates' = [gates EXCEPT ![g] = n] /\ thr' = [thr EXCEPT ![th] = r]
        /\ UNCHANGED <<day, handle, audit, decisions, cleared>>
    BY DEF Escalate, escalate
  <1>4. /\ r \in ThreadType /\ r.pc = "audit_escalated" /\ r.gate = g
        /\ r.now = a.now /\ r.found = a.found /\ r.todo = a.todo \ {g}
    BY <1>1 DEF ThreadType, PCs
  <1>5. a.found \subseteq Gates
    BY <1>1 DEF ThreadType
  <1> HIDE DEF n, r, a
  <1>6. /\ gates' \in [Gates -> GateType] /\ gates'[g] = n
        /\ \A h \in Gates : h # g => gates'[h] = gates[h]
    BY <1>2, <1>3 DEF IInv, TypeOK
  <1>7. Grows(gates, gates')
    BY <1>2, <1>6 DEF Grows
  <1>8. CallOK(gates', r)
    BY <1>1, <1>2, <1>4, <1>5, <1>6 DEF CallOK, AtGate, Sweeping
  <1>9. /\ thr' \in [Threads -> ThreadType]
        /\ \A t \in Threads : CallOK(gates', thr'[t])
    BY <1>3, <1>4, <1>6, <1>7, <1>8, ThreadMoves DEF IInv
  <1>10. TypeOK'
    BY <1>3, <1>6, <1>9 DEF IInv, TypeOK
  <1>11. (\A h \in Gates : GateOK(h))'
    BY <1>1, <1>2, <1>3, <1>6 DEF IInv, GateOK
  <1>12. ClearedByEntitled'
    BY <1>1, <1>2, <1>3, <1>6 DEF IInv, ClearedByEntitled, entitled
  <1>. QED BY <1>9, <1>10, <1>11, <1>12 DEF IInv

\* A day passes.
LEMMA DayStep == ASSUME IInv, NextDay PROVE IInv'
  <1>1. TypeOK'
    BY DEF IInv, TypeOK, NextDay
  <1>2. (\A g \in Gates : GateOK(g))' /\ ClearedByEntitled'
    BY GatesKept DEF NextDay
  <1>3. (\A t \in Threads : CallOK(gates, thr[t]))'
    BY DEF IInv, NextDay
  <1>. QED BY <1>1, <1>2, <1>3 DEF IInv

\* Every step keeps the invariant.
LEMMA NextIInv == IInv /\ [Next]_vars => IInv'
  <1> SUFFICES ASSUME IInv, [Next]_vars PROVE IInv'
    OBVIOUS
  <1>1. CASE NextDay
    BY <1>1, DayStep
  <1>2. ASSUME NEW t \in Threads, Call(t) PROVE IInv'
    <2>1. ASSUME NEW g \in Gates, NEW p \in Assignees[g], OpenGate(t, g, p) PROVE IInv'
      BY <2>1, OpenStep, GatesAssumption
    <2>. QED BY <1>2, <2>1, DecideStep, SweepStep DEF Call
  <1>3. ASSUME NEW t \in Threads, Continue(t) PROVE IInv'
    <2>1. CASE AuditOpened(t) \/ AuditRejected(t) \/ AuditActioned(t) \/ AuditEscalated(t)
      BY <2>1, AuditStep
    <2>2. CASE PutHandle(t) \/ DeleteHandle(t)
      BY <2>2, HandleStep
    <2>3. CASE AlreadyActioned(t) \/ EndSweep(t)
      BY <2>3, EndStep
    <2>4. CASE Evaluate(t)
      BY <2>4, EvaluateStep
    <2>5. CASE MarkActioned(t)
      BY <2>5, MarkStep
    <2>6. CASE \E g \in Gates : Escalate(t, g) \/ Skip(t, g)
      BY <2>6, EscalateStep, SkipStep
    <2>. QED BY <1>3, <2>1, <2>2, <2>3, <2>4, <2>5, <2>6 DEF Continue
  <1>4. CASE UNCHANGED vars
    BY <1>4 DEF vars, IInv, TypeOK, GateOK, ClearedByEntitled, entitled
  <1>. QED BY <1>1, <1>2, <1>3, <1>4 DEF Next

\* The invariant of the gates service holds in every reachable state.
THEOREM GatesInvariant == Spec => []IInv
  BY InitIInv, NextIInv, PTL DEF Spec

\* A gate is cleared only by someone entitled (gate_service.py:102-141): never by
\* the identity that triggered the run, by the backup only after the escalation
\* fired, by nobody else when decide was called after it fired, and a change
\* review by one owner of every file.  A decision that is under way when the
\* escalation fires may still be the default approver's: see EscalatedNeedsBackup.
THEOREM EntitledClearance == Spec => []ClearedByEntitled
  <1>1. IInv => ClearedByEntitled
    BY DEF IInv
  <1>. QED BY <1>1, GatesInvariant, PTL

\* A sweep of check_escalations leaves no gate behind that it found past its SLA.
THEOREM CompleteSweep == Spec => []SweepIsComplete
  <1>1. IInv => SweepIsComplete
    BY DEF IInv, SweepIsComplete, CallOK, Sweeping, is_sla_breached, unactioned
  <1>. QED BY <1>1, GatesInvariant, PTL

\* A decision is final: an actioned gate is never escalated, decided or opened
\* again.
THEOREM FinalDecision == Spec => ActionedIsFinal
  <1>1. ASSUME IInv, [Next]_vars, NEW g \in Gates, gates[g].actioned = "yes"
        PROVE  gates'[g] = gates[g] /\ cleared'[g] = cleared[g]
    <2>1. gates \in [Gates -> GateType] /\ cleared \in [Gates -> [by : People \cup {NoOne},
            approver : People \cup {NoOne}, checked : {"no", "yes"}, late : {"no", "yes"}]]
          /\ gates[g].exists = "yes"
      BY <1>1 DEF IInv, TypeOK, GateOK, GateType
    <2>2. CASE UNCHANGED <<gates, cleared>>
      BY <2>2
    <2>3. ASSUME NEW t \in Threads, NEW h \in Gates, NEW p, OpenGate(t, h, p)
          PROVE  gates'[g] = gates[g] /\ cleared'[g] = cleared[g]
      BY <2>1, <2>3 DEF OpenGate
    <2>4. ASSUME NEW t \in Threads, MarkActioned(t)
          PROVE  gates'[g] = gates[g] /\ cleared'[g] = cleared[g]
      BY <1>1, <2>1, <2>4 DEF MarkActioned, mark
    <2>5. ASSUME NEW t \in Threads, NEW h \in Gates, Escalate(t, h)
          PROVE  gates'[g] = gates[g] /\ cleared'[g] = cleared[g]
      BY <1>1, <2>1, <2>5 DEF Escalate, escalate, unactioned
    <2>6. \/ UNCHANGED <<gates, cleared>>
          \/ \E t \in Threads : MarkActioned(t)
          \/ \E t \in Threads, h \in Gates : Escalate(t, h)
          \/ \E t \in Threads, h \in Gates : \E p \in Assignees[h] : OpenGate(t, h, p)
      BY <1>1 DEF Next, vars, NextDay, Call, Continue, Decide, Sweep, AuditOpened, PutHandle,
                  Evaluate, AuditRejected, AlreadyActioned, AuditActioned, DeleteHandle, Skip,
                  AuditEscalated, EndSweep
    <2>. QED BY <2>2, <2>3, <2>4, <2>5, <2>6
  <1>2. IInv /\ [Next]_vars =>
          (\A g \in Gates : gates[g].actioned = "yes" =>
             gates'[g] = gates[g] /\ cleared'[g] = cleared[g])
    BY <1>1
  <1>. QED BY <1>2, GatesInvariant, PTL DEF Spec, ActionedIsFinal

-----------------------------------------------------------------------------
(* business_calendar.py.                                                   *)

\* A set of numbers that is not empty has a least one.
LEMMA LeastNumber ==
  ASSUME NEW S, S \subseteq Nat, S # {}
  PROVE  \E i \in S : \A j \in S : ~(j < i)
  <1>1. PICK i \in S : \A j \in S : <<j, i>> \notin OpToRel(<, Nat)
    BY WFMin, NatLessThanWellFounded, Zenon
  <1>2. \A j \in S : ~(j < i)
    BY <1>1, Zenon DEF OpToRel
  <1>. QED BY <1>2

\* The days the loop of add_business_days goes through.
Walk(f, s, n) ==
  f = [k \in 0 .. n |-> IF k = 0 THEN s ELSE next_business_day(f[k - 1])]

\* The loop's result is the last day of the walk.
LEMMA LastOfWalk ==
  ASSUME NEW s \in Nat, NEW n \in Nat
  PROVE  add_business_days(s, n) = (CHOOSE f : Walk(f, s, n))[n]
  BY DEF add_business_days, Walk

\* The walk exists: one more step extends a walk.
LEMMA WalkExists ==
  ASSUME NEW s \in Nat, NEW n \in Nat
  PROVE  \E f : Walk(f, s, n)
  <1> DEFINE S == {m \in Nat : ~ \E f : Walk(f, s, m)}
  <1> SUFFICES ASSUME S # {} PROVE FALSE
    OBVIOUS
  <1>1. PICK m \in S : \A j \in S : ~(j < m)
    BY LeastNumber
  <1>2. m \in Nat /\ ~ \E f : Walk(f, s, m)
    OBVIOUS
  <1>3. CASE m = 0
    <2> DEFINE f == [k \in 0 .. 0 |-> s]
    <2>1. f = [k \in 0 .. 0 |-> IF k = 0 THEN s ELSE next_business_day(f[k - 1])]
      OBVIOUS
    <2>. QED BY <2>1, <1>2, <1>3 DEF Walk
  <1>4. CASE m # 0
    <2>1. m - 1 \in Nat /\ m - 1 < m
      BY <1>2, <1>4
    <2>2. m - 1 \notin S
      BY <2>1, <1>1
    <2>3. PICK f : Walk(f, s, m - 1)
      BY <2>1, <2>2
    <2> DEFINE h == [k \in 0 .. m |-> IF k = m THEN next_business_day(f[m - 1]) ELSE f[k]]
    <2>4. \A k \in 0 .. m - 1 :
            f[k] = IF k = 0 THEN s ELSE next_business_day(f[k - 1])
      BY <2>3, Zenon DEF Walk
    <2>5. \A k \in 0 .. m - 1 : h[k] = f[k]
      BY <1>2
    <2>6. ASSUME NEW k \in 0 .. m
          PROVE  h[k] = IF k = 0 THEN s ELSE next_business_day(h[k - 1])
      <3>1. CASE k = m
        <4>1. m - 1 \in 0 .. m - 1 /\ h[m] = next_business_day(f[m - 1])
          BY <1>2, <2>1
        <4>. QED BY <3>1, <4>1, <2>5, <1>4
      <3>2. CASE k # m
        <4>1. k \in 0 .. m - 1 /\ (k # 0 => k - 1 \in 0 .. m - 1)
          BY <1>2, <3>2
        <4>. QED BY <4>1, <2>4, <2>5
      <3>. QED BY <3>1, <3>2
    <2>7. h = [k \in 0 .. m |-> h[k]]
      OBVIOUS
    <2> HIDE DEF h
    <2>8. h = [k \in 0 .. m |-> IF k = 0 THEN s ELSE next_business_day(h[k - 1])]
      BY <2>6, <2>7
    <2>. QED BY <2>8, <1>2 DEF Walk
  <1>. QED BY <1>3, <1>4

\* The next business day: later, a weekday, at most three days away.
LEMMA NextBusinessDay ==
  ASSUME NEW d \in Nat
  PROVE  /\ next_business_day(d) \in Nat
         /\ next_business_day(d) > d
         /\ next_business_day(d) % 7 \notin {5, 6}
  <1> DEFINE P(e) == is_business_day(e) /\ \A f \in d + 1 .. e - 1 : ~is_business_day(f)
  <1>1. \E e \in d + 1 .. d + 3 : P(e)
    <2>1. CASE is_business_day(d + 1)
      BY <2>1
    <2>2. CASE ~is_business_day(d + 1) /\ is_business_day(d + 2)
      BY <2>2
    <2>3. CASE ~is_business_day(d + 1) /\ ~is_business_day(d + 2)
      <3>1. is_business_day(d + 3)
        BY <2>3 DEF is_business_day
      <3>2. \A f \in d + 1 .. (d + 3) - 1 : f = d + 1 \/ f = d + 2
        OBVIOUS
      <3>3. P(d + 3)
        BY <2>3, <3>1, <3>2
      <3>. QED BY <3>3
    <2>. QED BY <2>1, <2>2, <2>3
  <1>2. next_business_day(d) = CHOOSE e \in d + 1 .. d + 3 : P(e)
    BY DEF next_business_day
  <1>3. next_business_day(d) \in d + 1 .. d + 3 /\ is_business_day(next_business_day(d))
    BY <1>1, <1>2
  <1>. QED BY <1>3 DEF is_business_day

\* Finitely many days lie between two days, and no fewer if the last is later.
LEMMA WeekdaysGrow ==
  ASSUME NEW s \in Nat, NEW a \in Nat, NEW b \in Nat, a <= b
  PROVE  /\ IsFiniteSet(weekdays(s, a)) /\ IsFiniteSet(weekdays(s, b))
         /\ Cardinality(weekdays(s, a)) \in Nat /\ Cardinality(weekdays(s, b)) \in Nat
         /\ Cardinality(weekdays(s, a)) <= Cardinality(weekdays(s, b))
  <1>1. IsFiniteSet(s + 1 .. b)
    BY FS_Interval
  <1>2. weekdays(s, b) \subseteq s + 1 .. b /\ weekdays(s, a) \subseteq weekdays(s, b)
    BY DEF weekdays
  <1>3. IsFiniteSet(weekdays(s, b))
    BY <1>1, <1>2, FS_Subset
  <1>. QED BY <1>2, <1>3, FS_Subset, FS_CardinalityType

\* Each step of the walk passes one weekday more.
LEMMA WalkCounts ==
  ASSUME NEW s \in Nat, NEW n \in Nat, NEW f, Walk(f, s, n), NEW k \in 0 .. n
  PROVE  f[k] \in Nat /\ f[k] >= s /\ Cardinality(weekdays(s, f[k])) >= k
  <1> DEFINE C(m) == f[m] \in Nat /\ f[m] >= s /\ Cardinality(weekdays(s, f[m])) >= m
             S == {m \in 0 .. n : ~C(m)}
  <1> SUFFICES ASSUME S # {} PROVE FALSE
    OBVIOUS
  <1>1. PICK m \in S : \A j \in S : ~(j < m)
    <2>1. S \subseteq Nat
      OBVIOUS
    <2> HIDE DEF S
    <2>. QED BY <2>1, LeastNumber
  <1>2. m \in 0 .. n /\ ~C(m)
    OBVIOUS
  <1>3. \A j \in 0 .. n : f[j] = IF j = 0 THEN s ELSE next_business_day(f[j - 1])
    BY Zenon DEF Walk
  <1>4. CASE m = 0
    <2>1. f[0] = s
      BY <1>3, <1>2, <1>4
    <2>2. Cardinality(weekdays(s, s)) \in Nat
      BY WeekdaysGrow
    <2>. QED BY <2>1, <2>2, <1>2, <1>4
  <1>5. CASE m # 0
    <2> DEFINE p == m - 1
               d == f[p]
               e == f[m]
    <2>1. p \in 0 .. n /\ p < m /\ p \in Nat /\ m = p + 1
      BY <1>2, <1>5
    <2>2. C(p)
      <3>1. p \notin S
        BY <2>1, <1>1
      <3>. QED BY <3>1, <2>1
    <2>3. e = next_business_day(d)
      BY <1>2, <1>3, <1>5
    <2>4. e \in Nat /\ e > d /\ e % 7 \notin {5, 6}
      BY <2>2, <2>3, NextBusinessDay
    <2>5. d \in Nat /\ d >= s /\ Cardinality(weekdays(s, d)) >= p
      BY <2>2
    <2> HIDE DEF d, e, p
    <2>6. /\ IsFiniteSet(weekdays(s, d)) /\ Cardinality(weekdays(s, d)) \in Nat
          /\ IsFiniteSet(weekdays(s, e)) /\ Cardinality(weekdays(s, e)) \in Nat
      <3>1. d \in Nat /\ e \in Nat /\ d <= e
        BY <2>4, <2>5
      <3>. QED BY <3>1, WeekdaysGrow
    <2>7. /\ e \notin weekdays(s, d)
          /\ weekdays(s, d) \cup {e} \subseteq weekdays(s, e)
      BY <2>4, <2>5 DEF weekdays
    <2>8. Cardinality(weekdays(s, d) \cup {e}) = Cardinality(weekdays(s, d)) + 1
      BY <2>6, <2>7, FS_AddElement
    <2>9. Cardinality(weekdays(s, d) \cup {e}) <= Cardinality(weekdays(s, e))
      BY <2>6, <2>7, FS_Subset
    <2>10. Cardinality(weekdays(s, e)) >= m
      BY <2>1, <2>5, <2>6, <2>8, <2>9
    <2>11. C(m)
      BY <2>4, <2>5, <2>10 DEF e
    <2>. QED BY <2>11, <1>2
  <1>. QED BY <1>4, <1>5

\* add_business_days(s, n), the deadline of an SLA of n business days: between a
\* gate's opening and any day on or after the deadline lie at least n weekdays.
THEOREM DeadlineLeavesTheSla ==
  ASSUME NEW s \in Nat, NEW n \in Nat
  PROVE  /\ add_business_days(s, n) \in Nat /\ add_business_days(s, n) >= s
         /\ \A d \in Nat : d >= add_business_days(s, n) =>
              Cardinality(weekdays(s, d)) >= n
  <1> DEFINE f == CHOOSE f : Walk(f, s, n)
             e == add_business_days(s, n)
  <1>1. Walk(f, s, n)
    BY WalkExists
  <1>2. e = f[n] /\ n \in 0 .. n
    BY LastOfWalk
  <1>3. e \in Nat /\ e >= s /\ Cardinality(weekdays(s, e)) >= n
    BY <1>1, <1>2, WalkCounts
  <1> HIDE DEF e
  <1>4. ASSUME NEW d \in Nat, d >= e PROVE Cardinality(weekdays(s, d)) >= n
    <2>1. /\ Cardinality(weekdays(s, e)) \in Nat /\ Cardinality(weekdays(s, d)) \in Nat
          /\ Cardinality(weekdays(s, e)) <= Cardinality(weekdays(s, d))
      BY <1>3, <1>4, WeekdaysGrow
    <2>. QED BY <2>1, <1>3
  <1>. QED BY <1>3, <1>4 DEF e

-----------------------------------------------------------------------------
(* The records of a gate agree.                                            *)

\* The places where a thread is about to write an entry of the log, those of
\* open_gate before the handle is there, those of decide, and those of decide
\* after the gate is marked.
Logging == {"opened", "audit_actioned", "audit_escalated"}
Opening == {"opened", "handle"}
Deciding == {"authority", "mark", "reject", "audit_actioned", "delete"}
Closing == {"audit_actioned", "delete"}

Workers(p, g) == {t \in Threads : thr[t].pc = p /\ thr[t].gate = g}

\* Finitely many threads are about to write one entry, so that they can be counted.
WorkOK == \A g \in Gates, p \in Logging : IsFiniteSet(Workers(p, g))

\* A gate is being opened by one thread, before it can be decided.
OpeningOK ==
  \A t \in Threads : thr[t].pc \in Opening =>
    /\ thr[t].approver \in People
    /\ handle[thr[t].gate] = NoOne /\ gates[thr[t].gate].actioned = "no"
    /\ \A u \in Threads : thr[u].gate = thr[t].gate =>
         thr[u].pc \notin Deciding /\ (thr[u].pc \in Opening => u = t)

\* Only a marked gate is about to lose its handle.
ClosingOK ==
  \A t \in Threads : thr[t].pc \in Closing => gates[thr[t].gate].actioned = "yes"

\* A handle that is missing or left over has a thread on its way to it.
HandleOK ==
  \A g \in Gates :
    /\ gates[g].exists = "yes" /\ gates[g].actioned = "no" /\ handle[g] = NoOne =>
         \E t \in Threads : thr[t].pc \in Opening /\ thr[t].gate = g
    /\ handle[g] # NoOne /\ gates[g].actioned = "yes" =>
         \E t \in Threads : thr[t].pc \in Closing /\ thr[t].gate = g

\* No sweep runs ahead of the clock.
NowOK == \A t \in Threads : thr[t].now <= day

HandlesOK == OpeningOK /\ ClosingOK /\ HandleOK

RInv == IInv /\ WorkOK /\ AuditExact /\ HandlesOK /\ NowOK /\ EscalatedAfterSla

\* What a step of one thread leaves of the records of the others.
LEMMA OneMoves ==
  ASSUME TypeOK, NEW th \in Threads, NEW r, thr' = [thr EXCEPT ![th] = r]
  PROVE  thr'[th] = r /\ \A t \in Threads : t # th => thr'[t] = thr[t]
  BY DEF TypeOK

\* Whether a thread's record is about to write the entry of place p about g.
At(r, p, g) == IF r.pc = p /\ r.gate = g THEN 1 ELSE 0

\* A step of one thread changes the number of entries to come by its own.
LEMMA WorkCounts ==
  ASSUME TypeOK, WorkOK, NEW th \in Threads, NEW r, thr' = [thr EXCEPT ![th] = r],
         NEW g \in Gates, NEW p \in Logging
  PROVE  /\ IsFiniteSet(Workers(p, g)')
         /\ at_work(p, g) \in Nat /\ at_work(p, g)' \in Nat
         /\ at_work(p, g)' + At(thr[th], p, g) = at_work(p, g) + At(r, p, g)
  <1> DEFINE S == Workers(p, g)
             Others == S \ {th}
             T == Workers(p, g)'
  <1>0. at_work(p, g) = Cardinality(S) /\ at_work(p, g)' = Cardinality(T)
    BY DEF at_work, Workers
  <1>1. thr'[th] = r /\ \A t \in Threads : t # th => thr'[t] = thr[t]
    BY OneMoves
  <1>2. IsFiniteSet(S) /\ Cardinality(S) \in Nat
    BY FS_CardinalityType DEF WorkOK
  <1>3. /\ IsFiniteSet(Others) /\ Cardinality(Others) \in Nat
        /\ Cardinality(Others) = IF th \in S THEN Cardinality(S) - 1 ELSE Cardinality(S)
    BY <1>2, FS_RemoveElement, FS_CardinalityType
  <1>4. At(thr[th], p, g) = IF th \in S THEN 1 ELSE 0
    BY DEF At, Workers
  <1>5. Cardinality(S) = Cardinality(Others) + At(thr[th], p, g) /\ At(thr[th], p, g) \in Nat
    BY <1>2, <1>3, <1>4
  <1>6. CASE r.pc = p /\ r.gate = g
    <2>1. T = Others \cup {th} /\ th \notin Others
      BY <1>1, <1>6 DEF Workers
    <2>2. At(r, p, g) = 1
      BY <1>6 DEF At
    <2> HIDE DEF Others, T, S
    <2>3. IsFiniteSet(T) /\ Cardinality(T) = Cardinality(Others) + 1
      BY <2>1, <1>3, FS_AddElement
    <2>. QED BY <2>2, <2>3, <1>0, <1>2, <1>3, <1>5 DEF T
  <1>7. CASE ~(r.pc = p /\ r.gate = g)
    <2>1. T = Others
      BY <1>1, <1>7 DEF Workers
    <2>2. At(r, p, g) = 0
      BY <1>7 DEF At
    <2> HIDE DEF Others, T, S
    <2>. QED BY <2>1, <2>2, <1>0, <1>2, <1>3, <1>5 DEF T
  <1>. QED BY <1>6, <1>7

\* The entries of the log that AuditExact speaks of: where a thread about to write
\* one is, and whether the event happened.
Told == {"gate_opened", "gate_actioned", "escalated"}

Place(k) ==
  CASE k = "gate_opened" -> "opened" [] k = "gate_actioned" -> "audit_actioned"
    [] OTHER -> "audit_escalated"

Flag(G, k, g) ==
  happened(CASE k = "gate_opened" -> G[g].exists [] k = "gate_actioned" -> G[g].actioned
             [] OTHER -> G[g].escalated)

\* AuditExact, for the three kinds at once.
LEMMA AuditByKind ==
  AuditExact <=>
    \A g \in Gates, k \in Told : audit[g][k] + at_work(Place(k), g) = Flag(gates, k, g)
  BY DEF AuditExact, Told, Place, Flag

\* The same after a step.
LEMMA AuditByKindNext ==
  ASSUME \A g \in Gates, k \in Told :
           \E p \in Logging : p = Place(k) /\ audit'[g][k] + at_work(p, g)' = Flag(gates', k, g)
  PROVE  AuditExact'
  <1>1. ASSUME NEW g \in Gates
        PROVE  audit'[g]["gate_opened"] + at_work("opened", g)' = happened(gates'[g].exists)
    <2>1. PICK p : /\ p = Place("gate_opened")
                   /\ audit'[g]["gate_opened"] + at_work(p, g)' = Flag(gates', "gate_opened", g)
      BY DEF Told
    <2>2. p = "opened" /\ Flag(gates', "gate_opened", g) = happened(gates'[g].exists)
      BY <2>1 DEF Place, Flag
    <2>3. at_work(p, g)' = at_work("opened", g)'
      BY <2>2 DEF at_work
    <2>. QED BY <2>1, <2>2, <2>3
  <1>2. ASSUME NEW g \in Gates
        PROVE  audit'[g]["gate_actioned"] + at_work("audit_actioned", g)' = happened(gates'[g].actioned)
    <2>1. PICK p : /\ p = Place("gate_actioned")
                   /\ audit'[g]["gate_actioned"] + at_work(p, g)' = Flag(gates', "gate_actioned", g)
      BY DEF Told
    <2>2. p = "audit_actioned" /\ Flag(gates', "gate_actioned", g) = happened(gates'[g].actioned)
      BY <2>1 DEF Place, Flag
    <2>3. at_work(p, g)' = at_work("audit_actioned", g)'
      BY <2>2 DEF at_work
    <2>. QED BY <2>1, <2>2, <2>3
  <1>3. ASSUME NEW g \in Gates
        PROVE  audit'[g]["escalated"] + at_work("audit_escalated", g)' = happened(gates'[g].escalated)
    <2>1. PICK p : /\ p = Place("escalated")
                   /\ audit'[g]["escalated"] + at_work(p, g)' = Flag(gates', "escalated", g)
      BY DEF Told
    <2>2. p = "audit_escalated" /\ Flag(gates', "escalated", g) = happened(gates'[g].escalated)
      BY <2>1 DEF Place, Flag
    <2>3. at_work(p, g)' = at_work("audit_escalated", g)'
      BY <2>2 DEF at_work
    <2>. QED BY <2>1, <2>2, <2>3
  <1>. QED BY <1>1, <1>2, <1>3 DEF AuditExact

\* A step of thread th to record r moves what happened, what is logged and what is
\* about to be logged together.
Balanced(th, r, g, k) ==
  audit'[g][k] + At(r, Place(k), g) + Flag(gates, k, g) =
    audit[g][k] + At(thr[th], Place(k), g) + Flag(gates', k, g)

\* The log then stays right.
LEMMA LogStep ==
  ASSUME TypeOK, TypeOK', WorkOK, AuditExact,
         NEW th \in Threads, NEW r, thr' = [thr EXCEPT ![th] = r],
         \A g \in Gates, k \in Told : Balanced(th, r, g, k)
  PROVE  WorkOK' /\ AuditExact'
  <1>1. WorkOK'
    BY WorkCounts DEF WorkOK
  <1>2. ASSUME NEW g \in Gates, NEW k \in Told
        PROVE  \E p \in Logging :
                 p = Place(k) /\ audit'[g][k] + at_work(p, g)' = Flag(gates', k, g)
    <2>1. PICK p \in Logging : p = Place(k)
      BY DEF Logging, Place
    <2>2. PICK m, n, i, j \in Nat :
            /\ m = at_work(p, g) /\ n = at_work(p, g)'
            /\ i = At(thr[th], p, g) /\ j = At(r, p, g)
      <3>1. at_work(p, g) \in Nat /\ at_work(p, g)' \in Nat
        BY WorkCounts
      <3>2. At(thr[th], p, g) \in Nat /\ At(r, p, g) \in Nat
        BY DEF At
      <3>. QED BY <3>1, <3>2
    <2>3. n + i = m + j
      BY <2>2, WorkCounts
    <2>4. PICK a, b, x, y \in Nat :
            /\ a = audit[g][k] /\ b = audit'[g][k]
            /\ x = Flag(gates, k, g) /\ y = Flag(gates', k, g)
      <3>1. audit[g][k] \in Nat /\ audit'[g][k] \in Nat
        BY DEF TypeOK, Told, AuditKinds
      <3>2. Flag(gates, k, g) \in Nat /\ Flag(gates', k, g) \in Nat
        BY DEF Flag, happened
      <3>. QED BY <3>1, <3>2
    <2>5. a + m = x
      BY <2>1, <2>2, <2>4, AuditByKind
    <2>6. b + j + x = a + i + y
      BY <2>1, <2>2, <2>4 DEF Balanced
    <2>7. b + n = y
      BY <2>3, <2>5, <2>6
    <2>. QED BY <2>1, <2>2, <2>4, <2>7
  <1>. QED BY <1>1, <1>2, AuditByKindNext

\* A step that is about no event of the log.
LEMMA QuietLog ==
  ASSUME TypeOK, TypeOK', WorkOK, AuditExact,
         NEW th \in Threads, NEW r, thr' = [thr EXCEPT ![th] = r],
         thr[th].pc \notin Logging, r.pc \notin Logging,
         \A g \in Gates, k \in Told : Flag(gates', k, g) = Flag(gates, k, g),
         \A g \in Gates, k \in Told : audit'[g][k] = audit[g][k]
  PROVE  WorkOK' /\ AuditExact'
  <1>1. ASSUME NEW g \in Gates, NEW k \in Told
        PROVE  Balanced(th, r, g, k)
    <2>1. At(r, Place(k), g) = At(thr[th], Place(k), g)
      BY DEF At, Place, Logging
    <2>. QED BY <2>1 DEF Balanced
  <1>. QED BY <1>1, LogStep

\* A gate is opened, decided or escalated, and the thread is about to say so.
LEMMA EventLog ==
  ASSUME TypeOK, TypeOK', WorkOK, AuditExact,
         NEW th \in Threads, NEW r, thr' = [thr EXCEPT ![th] = r],
         NEW g \in Gates, NEW k \in Told,
         thr[th].pc \notin Logging, r.pc = Place(k), r.gate = g,
         Flag(gates, k, g) = 0, Flag(gates', k, g) = 1, audit' = audit,
         \A h \in Gates, j \in Told :
           h # g \/ j # k => Flag(gates', j, h) = Flag(gates, j, h)
  PROVE  WorkOK' /\ AuditExact'
  <1>1. ASSUME NEW h \in Gates, NEW j \in Told
        PROVE  Balanced(th, r, h, j)
    <2>1. At(thr[th], Place(j), h) = 0
      BY DEF At, Place, Logging
    <2>2. audit[h][j] \in Nat
      BY DEF TypeOK, Told, AuditKinds
    <2>3. CASE h = g /\ j = k
      <3>1. At(r, Place(j), h) = 1
        BY <2>3 DEF At
      <3>. QED BY <2>1, <2>2, <2>3, <3>1 DEF Balanced
    <2>4. CASE h # g \/ j # k
      <3>1. At(r, Place(j), h) = 0
        BY <2>4 DEF At, Place, Told
      <3>2. Flag(gates', j, h) = Flag(gates, j, h)
        BY <2>4
      <3>. QED BY <2>1, <2>2, <3>1, <3>2 DEF Balanced
    <2>. QED BY <2>3, <2>4
  <1>. QED BY <1>1, LogStep

\* A thread writes the entry that was due.
LEMMA EntryLog ==
  ASSUME TypeOK, TypeOK', WorkOK, AuditExact,
         NEW th \in Threads, NEW r, thr' = [thr EXCEPT ![th] = r],
         NEW g \in Gates, NEW k \in Told,
         thr[th].pc = Place(k), thr[th].gate = g, r.pc \notin Logging,
         record(g, k),
         \A h \in Gates, j \in Told : Flag(gates', j, h) = Flag(gates, j, h)
  PROVE  WorkOK' /\ AuditExact'
  <1>1. ASSUME NEW h \in Gates, NEW j \in Told
        PROVE  Balanced(th, r, h, j)
    <2>1. At(r, Place(j), h) = 0
      BY DEF At, Place, Logging
    <2>2. audit[h][j] \in Nat /\ Flag(gates, j, h) \in Nat /\ Flag(gates', j, h) \in Nat
      BY DEF TypeOK, Told, AuditKinds, Flag, happened
    <2>3. audit'[h][j] = IF h = g /\ j = k THEN audit[h][j] + 1 ELSE audit[h][j]
      BY DEF record, TypeOK, Told, AuditKinds
    <2>4. At(thr[th], Place(j), h) = IF h = g /\ j = k THEN 1 ELSE 0
      BY DEF At, Place, Told
    <2>. QED BY <2>1, <2>2, <2>3, <2>4 DEF Balanced
  <1>. QED BY <1>1, LogStep

\* A thread goes on with a gate whose record and handle stay as they are, or turns
\* to one that can be decided.
LEMMA HandlesMove ==
  ASSUME TypeOK, HandlesOK, UNCHANGED <<gates, handle>>,
         NEW th \in Threads, NEW r, thr' = [thr EXCEPT ![th] = r],
         \/ thr[th].pc \notin Opening \cup Closing /\ r.pc \notin Opening \cup Deciding
         \/ thr[th].pc \notin Opening \cup Closing /\ r.pc \in Deciding \ Closing
            /\ handle[r.gate] # NoOne
         \/ /\ r.gate = thr[th].gate /\ r.approver = thr[th].approver
            /\ \/ thr[th].pc \in Opening /\ r.pc \in Opening
               \/ thr[th].pc \in Deciding /\ r.pc \in Deciding
            /\ thr[th].pc \in Closing <=> r.pc \in Closing
  PROVE  HandlesOK'
  <1>1. thr'[th] = r /\ \A t \in Threads : t # th => thr'[t] = thr[t]
    BY OneMoves
  <1>2. OpeningOK'
    BY <1>1 DEF HandlesOK, OpeningOK, Opening, Deciding, Closing
  <1>3. ClosingOK'
    BY <1>1 DEF HandlesOK, ClosingOK, Opening, Deciding, Closing
  <1>4. HandleOK'
    BY <1>1 DEF HandlesOK, HandleOK, Opening, Deciding, Closing
  <1>. QED BY <1>2, <1>3, <1>4 DEF HandlesOK

\* The dates stay right while the tracker's records stay as they are.
LEMMA DatesKept ==
  ASSUME RInv, NEW th \in Threads, NEW r, thr' = [thr EXCEPT ![th] = r],
         r.now <= day, UNCHANGED <<day, gates>>
  PROVE  NowOK' /\ EscalatedAfterSla'
  <1>1. thr'[th] = r /\ \A t \in Threads : t # th => thr'[t] = thr[t]
    BY OneMoves DEF RInv, IInv
  <1>2. NowOK'
    BY <1>1 DEF RInv, NowOK
  <1>3. EscalatedAfterSla'
    BY DEF RInv, EscalatedAfterSla
  <1>. QED BY <1>2, <1>3

\* The ways of a thread that leaves the tracker and the handles alone.
Passes(a, r) ==
  \/ a.pc \notin Opening \cup Closing /\ r.pc \notin Opening \cup Deciding
  \/ a.pc \notin Opening \cup Closing /\ r.pc \in Deciding \ Closing /\ handle[r.gate] # NoOne
  \/ /\ r.gate = a.gate /\ r.approver = a.approver
     /\ \/ a.pc \in Opening /\ r.pc \in Opening
        \/ a.pc \in Deciding /\ r.pc \in Deciding
     /\ a.pc \in Closing <=> r.pc \in Closing

\* The steps that neither write the tracker or a handle nor log one of the three
\* events.
LEMMA QuietRecords ==
  ASSUME RInv, IInv', NEW th \in Threads, NEW r, thr' = [thr EXCEPT ![th] = r],
         UNCHANGED <<day, gates, handle>>, r.now <= day,
         thr[th].pc \notin Logging, r.pc \notin Logging, Passes(thr[th], r),
         \A g \in Gates, k \in Told : audit'[g][k] = audit[g][k]
  PROVE  RInv'
  <1>1. NowOK' /\ EscalatedAfterSla'
    BY DatesKept
  <1>2. \A g \in Gates, k \in Told : Flag(gates', k, g) = Flag(gates, k, g)
    OBVIOUS
  <1>3. WorkOK' /\ AuditExact'
    BY <1>2, QuietLog DEF RInv, IInv
  <1>4. HandlesOK'
    BY HandlesMove DEF RInv, IInv, Passes
  <1>. QED BY <1>1, <1>3, <1>4 DEF RInv

\* A call ends after a rejection, a second decision or a sweep.
LEMMA EndRecords ==
  ASSUME RInv, NEW th \in Threads, AuditRejected(th) \/ AlreadyActioned(th) \/ EndSweep(th)
  PROVE  RInv'
  <1>1. IInv'
    BY AuditStep, EndStep DEF RInv
  <1>2. /\ thr' = [thr EXCEPT ![th] = Idle] /\ UNCHANGED <<day, gates, handle>>
        /\ thr[th].pc \in {"reject", "mark", "sweep"}
    BY DEF AuditRejected, AlreadyActioned, EndSweep, returns
  <1>3. Idle.pc = "idle" /\ Idle.now = 0
    BY DEF Idle
  <1>4. Idle.now <= day /\ thr[th].pc \notin Logging /\ Idle.pc \notin Logging
    BY <1>2, <1>3 DEF RInv, IInv, TypeOK, Logging
  <1>5. Passes(thr[th], Idle)
    BY <1>2, <1>3 DEF Passes, Opening, Closing, Deciding
  <1>6. \A g \in Gates, k \in Told : audit'[g][k] = audit[g][k]
    <2>1. CASE AuditRejected(th)
      <3>1. "gate_rejected" \notin Told
        BY DEF Told
      <3>. QED BY <2>1, <3>1 DEF AuditRejected, record, RInv, IInv, TypeOK, Told, AuditKinds
    <2>2. CASE AlreadyActioned(th) \/ EndSweep(th)
      BY <2>2 DEF AlreadyActioned, EndSweep
    <2>. QED BY <2>1, <2>2
  <1>. QED BY <1>1, <1>2, <1>4, <1>5, <1>6, QuietRecords

\* A decision begins on a gate whose handle is there.
LEMMA DecideRecords ==
  ASSUME RInv, NEW th \in Threads, NEW g \in Gates, NEW p \in People,
         NEW c \in {"no", "yes"}, Decide(th, g, p, c)
  PROVE  RInv'
  <1> DEFINE ck == IF KindOf[g] = "change_review" THEN c ELSE "no"
             r == [Idle EXCEPT !.pc = "authority", !.gate = g, !.approver = handle[g],
                               !.actor = p, !.late = gates[g].escalated, !.checked = ck]
  <1>1. IInv'
    BY DecideStep DEF RInv
  <1>2. r.pc = "authority" /\ r.gate = g /\ r.now = 0
    BY DEF Idle
  <1>3. /\ thr' = [thr EXCEPT ![th] = r] /\ UNCHANGED <<day, gates, handle, audit>>
        /\ thr[th].pc = "idle" /\ handle[g] # NoOne
    BY DEF Decide
  <1> HIDE DEF r
  <1>4. r.now <= day /\ thr[th].pc \notin Logging /\ r.pc \notin Logging
    BY <1>2, <1>3 DEF RInv, IInv, TypeOK, Logging
  <1>5. Passes(thr[th], r)
    BY <1>2, <1>3 DEF Passes, Opening, Closing, Deciding
  <1>6. \A h \in Gates, k \in Told : audit'[h][k] = audit[h][k]
    BY <1>3
  <1>. QED BY <1>1, <1>3, <1>4, <1>5, <1>6, QuietRecords

\* A decision is evaluated.
LEMMA EvaluateRecords ==
  ASSUME RInv, NEW th \in Threads, Evaluate(th)
  PROVE  RInv'
  <1>1. IInv'
    BY EvaluateStep DEF RInv
  <1>2. thr[th] \in ThreadType /\ thr[th].pc = "authority"
    BY DEF RInv, IInv, TypeOK, Evaluate
  <1>3. PICK p \in {"mark", "reject"} : thr' = [thr EXCEPT ![th].pc = p]
    BY DEF Evaluate, at
  <1> DEFINE r == [thr[th] EXCEPT !.pc = p]
  <1>4. thr' = [thr EXCEPT ![th] = r]
    BY <1>3
  <1>5. /\ r.pc = p /\ r.gate = thr[th].gate /\ r.now = thr[th].now
        /\ r.approver = thr[th].approver
    BY <1>2 DEF ThreadType
  <1> HIDE DEF r
  <1>6. r.now <= day /\ thr[th].pc \notin Logging /\ r.pc \notin Logging
    BY <1>2, <1>5 DEF RInv, NowOK, Logging
  <1>7. Passes(thr[th], r)
    BY <1>2, <1>5 DEF Passes, Opening, Closing, Deciding
  <1>8. UNCHANGED <<day, gates, handle, audit>>
    BY DEF Evaluate
  <1>9. \A h \in Gates, k \in Told : audit'[h][k] = audit[h][k]
    BY <1>8
  <1>. QED BY <1>1, <1>4, <1>6, <1>7, <1>8, <1>9, QuietRecords

\* A sweep reads the clock and the gates, or passes over one.
LEMMA SweepRecords ==
  ASSUME RInv, NEW th \in Threads, Sweep(th) \/ \E g \in Gates : Skip(th, g)
  PROVE  RInv'
  <1>1. IInv'
    BY SweepStep, SkipStep DEF RInv
  <1>2. UNCHANGED <<day, gates, handle, audit>> /\ thr[th].pc \in {"idle", "sweep"}
    BY DEF Sweep, Skip
  <1>3. PICK r : thr' = [thr EXCEPT ![th] = r] /\ r.pc = "sweep" /\ r.now <= day
    <2>1. CASE Sweep(th)
      <3> DEFINE r == [Idle EXCEPT !.pc = "sweep", !.now = day,
                         !.found = {g \in Gates : unactioned(g)},
                         !.todo = {g \in Gates : unactioned(g)}]
      <3>1. thr' = [thr EXCEPT ![th] = r]
        BY <2>1 DEF Sweep
      <3>2. r.pc = "sweep" /\ r.now = day /\ day <= day
        BY DEF Idle, RInv, IInv, TypeOK
      <3> HIDE DEF r
      <3>. QED BY <3>1, <3>2
    <2>2. CASE \E g \in Gates : Skip(th, g)
      <3>1. PICK g \in Gates : Skip(th, g)
        BY <2>2
      <3> DEFINE r == [thr[th] EXCEPT !.todo = thr[th].todo \ {g}]
      <3>2. thr' = [thr EXCEPT ![th] = r]
        BY <3>1 DEF Skip
      <3>3. thr[th] \in ThreadType /\ thr[th].pc = "sweep" /\ thr[th].now <= day
        BY <3>1 DEF Skip, RInv, IInv, TypeOK, NowOK
      <3>4. r.pc = "sweep" /\ r.now = thr[th].now
        BY <3>3 DEF ThreadType
      <3> HIDE DEF r
      <3>. QED BY <3>2, <3>3, <3>4
    <2>. QED BY <2>1, <2>2
  <1>4. thr[th].pc \notin Logging /\ r.pc \notin Logging
    BY <1>2, <1>3 DEF Logging
  <1>5. Passes(thr[th], r)
    BY <1>2, <1>3 DEF Passes, Opening, Closing, Deciding
  <1>6. \A h \in Gates, k \in Told : audit'[h][k] = audit[h][k]
    BY <1>2
  <1>. QED BY <1>1, <1>2, <1>3, <1>4, <1>5, <1>6, QuietRecords

\* The three entries are written.
LEMMA EntryRecords ==
  ASSUME RInv, NEW th \in Threads,
         AuditOpened(th) \/ AuditActioned(th) \/ AuditEscalated(th)
  PROVE  RInv'
  <1> DEFINE a == thr[th]
             g == a.gate
  <1>1. IInv'
    BY AuditStep DEF RInv
  <1>2. a \in ThreadType /\ g \in Gates /\ a.now <= day
    BY DEF RInv, IInv, TypeOK, NowOK, CallOK, AtGate, AuditOpened, AuditActioned,
           AuditEscalated
  <1>3. PICK k \in Told, p \in {"handle", "delete", "sweep"} :
          /\ a.pc = Place(k) /\ record(g, k) /\ at(th, p)
          /\ \/ a.pc = "opened" /\ p = "handle"
             \/ a.pc = "audit_actioned" /\ p = "delete"
             \/ a.pc = "audit_escalated" /\ p = "sweep"
    BY DEF AuditOpened, AuditActioned, AuditEscalated, Place, Told
  <1>4. UNCHANGED <<day, gates, handle>>
    BY DEF AuditOpened, AuditActioned, AuditEscalated
  <1> DEFINE r == [a EXCEPT !.pc = p]
  <1>5. thr' = [thr EXCEPT ![th] = r]
    BY <1>3 DEF at
  <1>6. r.pc = p /\ r.gate = g /\ r.now = a.now /\ r.approver = a.approver
    BY <1>2 DEF ThreadType
  <1> HIDE DEF r
  <1>7. NowOK' /\ EscalatedAfterSla'
    BY <1>2, <1>4, <1>5, <1>6, DatesKept
  <1>8. \A h \in Gates, j \in Told : Flag(gates', j, h) = Flag(gates, j, h)
    BY <1>4
  <1>9. r.pc \notin Logging
    BY <1>3, <1>6 DEF Logging
  <1>10. WorkOK' /\ AuditExact'
    BY <1>1, <1>2, <1>3, <1>5, <1>8, <1>9, EntryLog DEF RInv, IInv
  <1>11. HandlesOK'
    <2>1. Passes(a, r)
      BY <1>3, <1>6 DEF Passes, Opening, Closing, Deciding
    <2>. QED BY <2>1, <1>4, <1>5, HandlesMove DEF RInv, IInv, Passes
  <1>. QED BY <1>1, <1>7, <1>10, <1>11 DEF RInv

\* A gate is opened: nobody was at it, and its opener will put the handle.
LEMMA OpenRecords ==
  ASSUME RInv, NEW th \in Threads, NEW g \in Gates, NEW p \in People, OpenGate(th, g, p)
  PROVE  RInv'
  <1> DEFINE n == [Unopened EXCEPT !.exists = "yes", !.opened = day]
             r == [Idle EXCEPT !.pc = "opened", !.gate = g, !.approver = p]
  <1>1. IInv'
    BY OpenStep DEF RInv
  <1>2. n.exists = "yes" /\ n.actioned = "no" /\ n.escalated = "no"
    BY DEF Unopened
  <1>3. r.pc = "opened" /\ r.gate = g /\ r.approver = p /\ r.now = 0
    BY DEF Idle
  <1>4. /\ gates' = [gates EXCEPT ![g] = n] /\ thr' = [thr EXCEPT ![th] = r]
        /\ thr[th].pc = "idle" /\ gates[g].exists = "no"
        /\ UNCHANGED <<day, handle, audit>>
    BY DEF OpenGate
  <1> HIDE DEF n, r
  <1>5. gates'[g] = n /\ \A h \in Gates : h # g => gates'[h] = gates[h]
    BY <1>4 DEF RInv, IInv, TypeOK
  <1>6. thr'[th] = r /\ \A t \in Threads : t # th => thr'[t] = thr[t]
    BY <1>4, OneMoves DEF RInv, IInv
  <1>7. /\ gates[g].escalated = "no" /\ gates[g].actioned = "no" /\ handle[g] = NoOne
        /\ \A t \in Threads : thr[t].pc \in AtGate => thr[t].gate # g
    BY <1>4 DEF RInv, IInv, GateOK, CallOK
  <1>8. NowOK' /\ EscalatedAfterSla'
    <2>1. NowOK'
      BY <1>3, <1>4, <1>6 DEF RInv, IInv, TypeOK, NowOK
    <2>2. EscalatedAfterSla'
      BY <1>2, <1>4, <1>5 DEF RInv, EscalatedAfterSla
    <2>. QED BY <2>1, <2>2
  <1>9. WorkOK' /\ AuditExact'
    <2>1. "gate_opened" \in Told /\ r.pc = Place("gate_opened") /\ thr[th].pc \notin Logging
      BY <1>3, <1>4 DEF Told, Place, Logging
    <2>2. Flag(gates, "gate_opened", g) = 0 /\ Flag(gates', "gate_opened", g) = 1
      BY <1>2, <1>4, <1>5 DEF Flag, happened
    <2>3. ASSUME NEW h \in Gates, NEW j \in Told, h # g \/ j # "gate_opened"
          PROVE  Flag(gates', j, h) = Flag(gates, j, h)
      BY <2>3, <1>2, <1>5, <1>7 DEF Flag, Told
    <2>. QED BY <2>1, <2>2, <2>3, <1>1, <1>3, <1>4, EventLog DEF RInv, IInv
  <1>10. OpeningOK'
    <2>1. \A t \in Threads : thr[t].pc \in Opening \cup Deciding => thr[t].gate # g
      BY <1>7 DEF Opening, Deciding, AtGate
    <2>2. \A t \in Threads : thr[t].pc \in Opening => thr[t].gate \in Gates
      BY DEF RInv, IInv, CallOK, Opening, AtGate
    <2>3. thr'[th].pc \in Opening /\ thr'[th].pc \notin Deciding
      BY <1>3, <1>6 DEF Opening, Deciding
    <2>. QED BY <2>1, <2>2, <2>3, <1>2, <1>3, <1>4, <1>5, <1>6, <1>7
         DEF RInv, HandlesOK, OpeningOK
  <1>11. ClosingOK'
    <2>1. \A t \in Threads : thr[t].pc \in Closing => thr[t].gate # g /\ thr[t].gate \in Gates
      BY <1>7 DEF RInv, IInv, CallOK, Closing, AtGate
    <2>2. thr'[th].pc \notin Closing
      BY <1>3, <1>6 DEF Closing
    <2>. QED BY <2>1, <2>2, <1>5, <1>6 DEF RInv, HandlesOK, ClosingOK
  <1>12. HandleOK'
    <2>1. thr'[th].pc \in Opening /\ thr[th].pc \notin Opening \cup Closing
      BY <1>3, <1>4, <1>6 DEF Opening, Closing
    <2>2. \A h \in Gates : h = g => handle'[h] = NoOne /\ thr'[th].gate = h
      BY <1>3, <1>4, <1>6, <1>7
    <2>3. ASSUME NEW h \in Gates
          PROVE  /\ gates'[h].exists = "yes" /\ gates'[h].actioned = "no"
                    /\ handle'[h] = NoOne =>
                      \E t \in Threads : thr'[t].pc \in Opening /\ thr'[t].gate = h
                 /\ handle'[h] # NoOne /\ gates'[h].actioned = "yes" =>
                      \E t \in Threads : thr'[t].pc \in Closing /\ thr'[t].gate = h
      <3>1. CASE h = g
        BY <3>1, <2>1, <2>2
      <3>2. CASE h # g
        BY <3>2, <2>1, <1>4, <1>5, <1>6 DEF RInv, HandlesOK, HandleOK
      <3>. QED BY <3>1, <3>2
    <2>. QED BY <2>3 DEF HandleOK
  <1>. QED BY <1>1, <1>8, <1>9, <1>10, <1>11, <1>12 DEF RInv, HandlesOK

\* The handle is put by the gate's only opener, or taken from a marked gate.
LEMMA HandleRecords ==
  ASSUME RInv, NEW th \in Threads, PutHandle(th) \/ DeleteHandle(th)
  PROVE  RInv'
  <1> DEFINE a == thr[th]
             g == a.gate
  <1>1. IInv'
    BY HandleStep DEF RInv
  <1>2. /\ thr' = [thr EXCEPT ![th] = Idle] /\ UNCHANGED <<day, gates, audit>>
        /\ a.pc \in {"handle", "delete"}
    BY DEF PutHandle, DeleteHandle, returns
  <1>3. g \in Gates
    BY <1>2 DEF RInv, IInv, CallOK, AtGate
  <1>4. Idle.pc = "idle" /\ Idle.now = 0
    BY DEF Idle
  <1>5. thr'[th] = Idle /\ \A t \in Threads : t # th => thr'[t] = thr[t]
    BY <1>2, OneMoves DEF RInv, IInv
  <1>6. NowOK' /\ EscalatedAfterSla'
    <2>1. Idle.now <= day
      BY <1>4 DEF RInv, IInv, TypeOK
    <2>. QED BY <2>1, <1>2, DatesKept
  <1>7. WorkOK' /\ AuditExact'
    <2>1. thr[th].pc \notin Logging /\ Idle.pc \notin Logging
      BY <1>2, <1>4 DEF Logging
    <2>2. \A h \in Gates, k \in Told :
            audit'[h][k] = audit[h][k] /\ Flag(gates', k, h) = Flag(gates, k, h)
      BY <1>2
    <2>. QED BY <2>1, <2>2, <1>1, <1>2, QuietLog DEF RInv, IInv
  <1>8. \A t \in Threads : thr'[t].pc \in Opening \cup Deciding \cup Closing =>
          t # th /\ thr'[t] = thr[t]
    BY <1>4, <1>5 DEF Opening, Deciding, Closing
  <1>9. ClosingOK'
    BY <1>2, <1>8 DEF RInv, HandlesOK, ClosingOK
  <1>10. CASE PutHandle(th)
    <2>1. a.pc \in Opening /\ a.pc \notin Closing /\ handle' = [handle EXCEPT ![g] = a.approver]
      BY <1>10 DEF PutHandle, Opening, Closing
    <2>2. /\ a.approver \in People /\ gates[g].actioned = "no"
          /\ \A u \in Threads : u # th => ~(thr[u].pc \in Opening /\ thr[u].gate = g)
      BY <2>1 DEF RInv, HandlesOK, OpeningOK
    <2>3. handle'[g] # NoOne /\ \A h \in Gates : h # g => handle'[h] = handle[h]
      BY <2>1, <2>2, <1>3, GatesAssumption DEF RInv, IInv, TypeOK
    <2>4. OpeningOK'
      <3>1. \A t \in Threads : thr[t].pc \in Opening => thr[t].gate \in Gates
        BY DEF RInv, IInv, CallOK, Opening, AtGate
      <3>2. \A t \in Threads : thr'[t].pc \in Opening =>
              t # th /\ thr[t].pc \in Opening /\ thr'[t] = thr[t] /\ thr[t].gate # g
        BY <1>8, <2>2
      <3>. QED BY <3>1, <3>2, <2>3, <1>2, <1>8 DEF RInv, HandlesOK, OpeningOK
    <2>5. HandleOK'
      <3>1. ASSUME NEW h \in Gates
            PROVE  /\ gates'[h].exists = "yes" /\ gates'[h].actioned = "no"
                      /\ handle'[h] = NoOne =>
                        \E t \in Threads : thr'[t].pc \in Opening /\ thr'[t].gate = h
                   /\ handle'[h] # NoOne /\ gates'[h].actioned = "yes" =>
                        \E t \in Threads : thr'[t].pc \in Closing /\ thr'[t].gate = h
        <4>1. CASE h = g
          BY <4>1, <2>2, <2>3, <1>2
        <4>2. CASE h # g
          BY <4>2, <2>3, <1>2, <1>5 DEF RInv, HandlesOK, HandleOK
        <4>. QED BY <4>1, <4>2
      <3>. QED BY <3>1 DEF HandleOK
    <2>. QED BY <2>4, <2>5, <1>1, <1>6, <1>7, <1>9 DEF RInv, HandlesOK
  <1>11. CASE DeleteHandle(th)
    <2>1. a.pc \in Closing /\ a.pc \notin Opening /\ handle' = [handle EXCEPT ![g] = NoOne]
      BY <1>11 DEF DeleteHandle, Opening, Closing
    <2>2. gates[g].actioned = "yes"
      BY <2>1 DEF RInv, HandlesOK, ClosingOK
    <2>3. handle'[g] = NoOne /\ \A h \in Gates : h # g => handle'[h] = handle[h]
      BY <2>1, <1>3 DEF RInv, IInv, TypeOK
    <2>4. OpeningOK'
      <3>1. \A t \in Threads : thr[t].pc \in Opening => thr[t].gate \in Gates
        BY DEF RInv, IInv, CallOK, Opening, AtGate
      <3>. QED BY <3>1, <2>3, <1>2, <1>8 DEF RInv, HandlesOK, OpeningOK
    <2>5. HandleOK'
      <3>1. ASSUME NEW h \in Gates
            PROVE  /\ gates'[h].exists = "yes" /\ gates'[h].actioned = "no"
                      /\ handle'[h] = NoOne =>
                        \E t \in Threads : thr'[t].pc \in Opening /\ thr'[t].gate = h
                   /\ handle'[h] # NoOne /\ gates'[h].actioned = "yes" =>
                        \E t \in Threads : thr'[t].pc \in Closing /\ thr'[t].gate = h
        <4>1. CASE h = g
          BY <4>1, <2>2, <2>3, <1>2
        <4>2. CASE h # g
          BY <4>2, <2>3, <1>2, <1>5 DEF RInv, HandlesOK, HandleOK
        <4>. QED BY <4>1, <4>2
      <3>. QED BY <3>1 DEF HandleOK
    <2>. QED BY <2>4, <2>5, <1>1, <1>6, <1>7, <1>9 DEF RInv, HandlesOK
  <1>. QED BY <1>10, <1>11

\* A gate is marked by a thread that is about to log it and take its handle.
LEMMA MarkRecords ==
  ASSUME RInv, NEW th \in Threads, MarkActioned(th)
  PROVE  RInv'
  <1> DEFINE a == thr[th]
             g == a.gate
             n == [gates[g] EXCEPT !.actioned = "yes"]
             r == [a EXCEPT !.pc = "audit_actioned"]
  <1>1. IInv'
    BY MarkStep DEF RInv
  <1>2. a \in ThreadType /\ a.pc = "mark" /\ g \in Gates /\ a.now <= day
    BY DEF RInv, IInv, TypeOK, NowOK, MarkActioned, CallOK, AtGate
  <1>3. /\ n.exists = gates[g].exists /\ n.opened = gates[g].opened
        /\ n.escalated = gates[g].escalated /\ n.since = gates[g].since
        /\ n.actioned = "yes"
    <2>1. gates[g] \in GateType
      BY <1>2 DEF RInv, IInv, TypeOK
    <2>. QED BY <2>1 DEF GateType
  <1>4. r.pc = "audit_actioned" /\ r.gate = g /\ r.now = a.now
    BY <1>2 DEF ThreadType
  <1>5. /\ gates' = [gates EXCEPT ![g] = n] /\ thr' = [thr EXCEPT ![th] = r]
        /\ gates[g].actioned = "no" /\ UNCHANGED <<day, handle, audit>>
    BY DEF MarkActioned, mark, at
  <1> HIDE DEF n, r
  <1>6. gates'[g] = n /\ \A h \in Gates : h # g => gates'[h] = gates[h]
    BY <1>2, <1>5 DEF RInv, IInv, TypeOK
  <1>7. thr'[th] = r /\ \A t \in Threads : t # th => thr'[t] = thr[t]
    BY <1>5, OneMoves DEF RInv, IInv
  <1>8. NowOK'
    BY <1>2, <1>4, <1>5, <1>7 DEF RInv, NowOK
  <1>9. EscalatedAfterSla'
    <2>1. \A h \in Gates : /\ gates'[h].escalated = gates[h].escalated
                           /\ gates'[h].opened = gates[h].opened
                           /\ gates'[h].since = gates[h].since
      BY <1>3, <1>6
    <2>. QED BY <2>1, <1>5 DEF RInv, EscalatedAfterSla
  <1>10. WorkOK' /\ AuditExact'
    <2>1. /\ "gate_actioned" \in Told /\ r.pc = Place("gate_actioned")
          /\ thr[th].pc \notin Logging
      BY <1>2, <1>4 DEF Told, Place, Logging
    <2>2. Flag(gates, "gate_actioned", g) = 0 /\ Flag(gates', "gate_actioned", g) = 1
      BY <1>3, <1>5, <1>6 DEF Flag, happened
    <2>3. ASSUME NEW h \in Gates, NEW j \in Told, h # g \/ j # "gate_actioned"
          PROVE  Flag(gates', j, h) = Flag(gates, j, h)
      BY <2>3, <1>3, <1>6 DEF Flag, Told
    <2>. QED BY <2>1, <2>2, <2>3, <1>1, <1>2, <1>4, <1>5, EventLog DEF RInv, IInv
  <1>11. /\ a.pc \in Deciding /\ a.pc \notin Opening \cup Closing
         /\ r.pc \in Closing /\ r.pc \in Deciding /\ r.pc \notin Opening
    BY <1>2, <1>4 DEF Opening, Closing, Deciding
  <1>12. OpeningOK'
    <2>1. \A t \in Threads : thr[t].pc \in Opening => thr[t].gate \in Gates /\ thr[t].gate # g
      BY <1>11 DEF RInv, IInv, CallOK, Opening, AtGate, HandlesOK, OpeningOK
    <2>. QED BY <2>1, <1>4, <1>5, <1>6, <1>7, <1>11 DEF RInv, HandlesOK, OpeningOK
  <1>13. ClosingOK'
    <2>1. \A t \in Threads : thr[t].pc \in Closing => thr[t].gate \in Gates
      BY DEF RInv, IInv, CallOK, Closing, AtGate
    <2>. QED BY <2>1, <1>3, <1>4, <1>6, <1>7 DEF RInv, HandlesOK, ClosingOK
  <1>14. HandleOK'
    <2>1. ASSUME NEW h \in Gates
          PROVE  /\ gates'[h].exists = "yes" /\ gates'[h].actioned = "no"
                    /\ handle'[h] = NoOne =>
                      \E t \in Threads : thr'[t].pc \in Opening /\ thr'[t].gate = h
                 /\ handle'[h] # NoOne /\ gates'[h].actioned = "yes" =>
                      \E t \in Threads : thr'[t].pc \in Closing /\ thr'[t].gate = h
      <3>1. CASE h = g
        BY <3>1, <1>3, <1>4, <1>6, <1>7, <1>11
      <3>2. CASE h # g
        BY <3>2, <1>5, <1>6, <1>7, <1>11 DEF RInv, HandlesOK, HandleOK
      <3>. QED BY <3>1, <3>2
    <2>. QED BY <2>1 DEF HandleOK
  <1>. QED BY <1>1, <1>8, <1>9, <1>10, <1>12, <1>13, <1>14 DEF RInv, HandlesOK

\* A sweep escalates a gate whose deadline lies behind the day the sweep read:
\* as many weekdays as the SLA says have passed.
LEMMA EscalateRecords ==
  ASSUME RInv, NEW th \in Threads, NEW g \in Gates, Escalate(th, g)
  PROVE  RInv'
  <1> DEFINE a == thr[th]
             n == [gates[g] EXCEPT !.escalated = "yes", !.since = a.now]
             r == [a EXCEPT !.pc = "audit_escalated", !.gate = g, !.todo = a.todo \ {g}]
  <1>1. IInv'
    BY EscalateStep DEF RInv
  <1>2. /\ a \in ThreadType /\ a.pc = "sweep" /\ a.now <= day /\ a.now \in Nat
        /\ gates[g] \in GateType /\ gates[g].escalated = "no"
        /\ a.now >= add_business_days(gates[g].opened, Sla[g])
    BY DEF RInv, IInv, TypeOK, ThreadType, NowOK, Escalate, unactioned, is_sla_breached
  <1>3. /\ n.exists = gates[g].exists /\ n.opened = gates[g].opened
        /\ n.escalated = "yes" /\ n.since = a.now
        /\ n.actioned = gates[g].actioned
    BY <1>2 DEF GateType
  <1>4. r.pc = "audit_escalated" /\ r.gate = g /\ r.now = a.now
    BY <1>2 DEF ThreadType
  <1>5. /\ gates' = [gates EXCEPT ![g] = n] /\ thr' = [thr EXCEPT ![th] = r]
        /\ UNCHANGED <<day, handle, audit>>
    BY DEF Escalate, escalate
  <1> HIDE DEF n, r
  <1>6. gates'[g] = n /\ \A h \in Gates : h # g => gates'[h] = gates[h]
    BY <1>5 DEF RInv, IInv, TypeOK
  <1>7. thr'[th] = r /\ \A t \in Threads : t # th => thr'[t] = thr[t]
    BY <1>5, OneMoves DEF RInv, IInv
  <1>8. NowOK'
    BY <1>2, <1>4, <1>5, <1>7 DEF RInv, NowOK
  <1>9. EscalatedAfterSla'
    <2>1. gates[g].opened \in Nat /\ Sla[g] \in Nat
      BY <1>2, GatesAssumption DEF GateType
    <2>2. Cardinality(weekdays(gates[g].opened, a.now)) >= Sla[g]
      BY <2>1, <1>2, DeadlineLeavesTheSla
    <2>3. ASSUME NEW h \in Gates, gates'[h].escalated = "yes"
          PROVE  /\ Cardinality(weekdays(gates'[h].opened, gates'[h].since)) >= Sla[h]
                 /\ gates'[h].since <= day'
      <3>1. CASE h = g
        BY <3>1, <2>2, <1>2, <1>3, <1>5, <1>6
      <3>2. CASE h # g
        BY <3>2, <2>3, <1>5, <1>6 DEF RInv, EscalatedAfterSla
      <3>. QED BY <3>1, <3>2
    <2>. QED BY <2>3 DEF EscalatedAfterSla, weekdays
  <1>10. WorkOK' /\ AuditExact'
    <2>1. "escalated" \in Told /\ r.pc = Place("escalated") /\ thr[th].pc \notin Logging
      BY <1>2, <1>4 DEF Told, Place, Logging
    <2>2. Flag(gates, "escalated", g) = 0 /\ Flag(gates', "escalated", g) = 1
      BY <1>2, <1>3, <1>6 DEF Flag, happened
    <2>3. ASSUME NEW h \in Gates, NEW j \in Told, h # g \/ j # "escalated"
          PROVE  Flag(gates', j, h) = Flag(gates, j, h)
      BY <2>3, <1>3, <1>6 DEF Flag, Told
    <2>. QED BY <2>1, <2>2, <2>3, <1>1, <1>4, <1>5, EventLog DEF RInv, IInv
  <1>11. /\ a.pc \notin Opening \cup Closing \cup Deciding
         /\ r.pc \notin Opening \cup Closing \cup Deciding
    BY <1>2, <1>4 DEF Opening, Closing, Deciding
  <1>12. \A h \in Gates : /\ gates'[h].exists = gates[h].exists
                          /\ gates'[h].actioned = gates[h].actioned
    BY <1>3, <1>6
  <1>13. OpeningOK' /\ ClosingOK'
    <2>1. \A t \in Threads : thr[t].pc \in Opening \cup Closing => thr[t].gate \in Gates
      BY DEF RInv, IInv, CallOK, Opening, Closing, AtGate
    <2>2. OpeningOK'
      BY <2>1, <1>5, <1>7, <1>11, <1>12 DEF RInv, HandlesOK, OpeningOK
    <2>3. ClosingOK'
      BY <2>1, <1>7, <1>11, <1>12 DEF RInv, HandlesOK, ClosingOK
    <2>. QED BY <2>2, <2>3
  <1>14. HandleOK'
    BY <1>5, <1>7, <1>11, <1>12 DEF RInv, HandlesOK, HandleOK
  <1>. QED BY <1>1, <1>8, <1>9, <1>10, <1>13, <1>14 DEF RInv, HandlesOK

\* The first state.
LEMMA InitRInv == Init => RInv
  <1> SUFFICES ASSUME Init PROVE RInv
    OBVIOUS
  <1>1. IInv
    BY InitIInv
  <1>2. /\ \A t \in Threads : thr[t] = Idle
        /\ Idle.pc = "idle" /\ Idle.now = 0
    BY DEF Init, Idle
  <1>3. \A g \in Gates, p \in Logging : Workers(p, g) = {}
    BY <1>2 DEF Workers, Logging
  <1>4. \A g \in Gates, p \in Logging : IsFiniteSet(Workers(p, g)) /\ at_work(p, g) = 0
    BY <1>3, FS_EmptySet DEF at_work, Workers
  <1>5. AuditExact
    <2>1. \A g \in Gates : /\ gates[g].exists = "no" /\ gates[g].actioned = "no"
                           /\ gates[g].escalated = "no"
                           /\ \A k \in AuditKinds : audit[g][k] = 0
      BY DEF Init, Unopened
    <2>2. \A g \in Gates : /\ at_work("opened", g) = 0 /\ at_work("audit_actioned", g) = 0
                           /\ at_work("audit_escalated", g) = 0
      BY <1>4 DEF Logging
    <2>. QED BY <2>1, <2>2 DEF AuditExact, AuditKinds, happened
  <1>6. HandlesOK
    BY <1>2 DEF HandlesOK, OpeningOK, ClosingOK, HandleOK, Opening, Closing, Init, Unopened
  <1>7. NowOK
    BY <1>2, GatesAssumption DEF NowOK, Init
  <1>8. EscalatedAfterSla
    BY DEF EscalatedAfterSla, Init, Unopened
  <1>. QED BY <1>1, <1>4, <1>5, <1>6, <1>7, <1>8 DEF RInv, WorkOK

\* The records when nothing but the clock moves, and it moves forward.
LEMMA ClockRecords ==
  ASSUME RInv, IInv', UNCHANGED <<gates, handle, audit, thr>>, day' >= day
  PROVE  RInv'
  <1>1. WorkOK' /\ AuditExact'
    BY DEF RInv, WorkOK, AuditExact, Workers, at_work
  <1>2. HandlesOK'
    BY DEF RInv, HandlesOK, OpeningOK, ClosingOK, HandleOK
  <1>3. day \in Nat /\ day' \in Nat
    BY DEF RInv, IInv, TypeOK
  <1>4. NowOK'
    <2>1. \A t \in Threads : thr[t].now \in Nat
      BY DEF RInv, IInv, TypeOK, ThreadType
    <2>. QED BY <2>1, <1>3 DEF RInv, NowOK
  <1>5. EscalatedAfterSla'
    <2>1. \A g \in Gates : gates[g].since \in Nat
      BY DEF RInv, IInv, TypeOK, GateType
    <2>. QED BY <2>1, <1>3 DEF RInv, EscalatedAfterSla
  <1>. QED BY <1>1, <1>2, <1>4, <1>5 DEF RInv

\* Every step keeps the records in agreement.
LEMMA NextRInv == RInv /\ [Next]_vars => RInv'
  <1> SUFFICES ASSUME RInv, [Next]_vars PROVE RInv'
    OBVIOUS
  <1>0. IInv'
    BY NextIInv DEF RInv
  <1>1. CASE NextDay \/ UNCHANGED vars
    <2>1. UNCHANGED <<gates, handle, audit, thr>> /\ day' >= day
      BY <1>1 DEF NextDay, vars, RInv, IInv, TypeOK
    <2>. QED BY <2>1, <1>0, ClockRecords
  <1>2. ASSUME NEW t \in Threads, Call(t) PROVE RInv'
    <2>1. ASSUME NEW g \in Gates, NEW p \in Assignees[g], OpenGate(t, g, p) PROVE RInv'
      BY <2>1, OpenRecords, GatesAssumption
    <2>. QED BY <1>2, <2>1, DecideRecords, SweepRecords DEF Call
  <1>3. ASSUME NEW t \in Threads, Continue(t) PROVE RInv'
    <2>1. CASE AuditOpened(t) \/ AuditActioned(t) \/ AuditEscalated(t)
      BY <2>1, EntryRecords
    <2>2. CASE AuditRejected(t) \/ AlreadyActioned(t) \/ EndSweep(t)
      BY <2>2, EndRecords
    <2>3. CASE PutHandle(t) \/ DeleteHandle(t)
      BY <2>3, HandleRecords
    <2>4. CASE Evaluate(t)
      BY <2>4, EvaluateRecords
    <2>5. CASE MarkActioned(t)
      BY <2>5, MarkRecords
    <2>6. CASE \E g \in Gates : Escalate(t, g) \/ Skip(t, g)
      BY <2>6, EscalateRecords, SweepRecords
    <2>. QED BY <1>3, <2>1, <2>2, <2>3, <2>4, <2>5, <2>6 DEF Continue
  <1>. QED BY <1>1, <1>2, <1>3 DEF Next

\* RecordsAgree: however calls and sweeps interleave, every opening, decision and
\* escalation is in the audit log once, no escalation came before the SLA's
\* weekdays had passed, and at rest exactly the open gates can be decided.
THEOREM RecordsInAgreement == Spec => []RecordsAgree
  <1>1. RInv => RecordsAgree
    <2> SUFFICES ASSUME RInv PROVE RecordsAgree
      OBVIOUS
    <2>1. TypeOK /\ AuditExact /\ EscalatedAfterSla
      BY DEF RInv, IInv
    <2>2. HandlesMatchGates
      <3> SUFFICES ASSUME \A t \in Threads : thr[t].pc = "idle", NEW g \in Gates
                   PROVE  handle[g] # NoOne <=>
                            gates[g].exists = "yes" /\ gates[g].actioned = "no"
        BY DEF HandlesMatchGates
      <3>1. \A t \in Threads : thr[t].pc \notin Opening \cup Closing
        BY DEF Opening, Closing
      <3>2. gates[g] \in GateType /\ GateOK(g)
        BY DEF RInv, IInv, TypeOK
      <3>. QED BY <3>1, <3>2 DEF RInv, HandlesOK, HandleOK, GateOK, GateType
    <2>. QED BY <2>1, <2>2 DEF RecordsAgree
  <1>. QED BY <1>1, InitRInv, NextRInv, PTL DEF Spec

(***************************************************************************)
(* The index server (RepoIndex).                                           *)
(***************************************************************************)

\* The repository at the start has a text, or none, for every path.
FirstIsRepository == First \in [Paths -> R!AllTexts]

\* The first state.
LEMMA IndexInit ==
  ASSUME FirstIsRepository, R!Init
  PROVE  R!IndexInv
  <1>1. R!NoRecords \in [Paths -> R!AllTexts]
    BY DEF R!NoRecords, R!AllTexts
  <1>2. commits \in Seq([Paths -> R!AllTexts]) /\ Len(commits) = 1
    BY DEF FirstIsRepository, R!Init
  <1>3. R!Idle \in R!OpType
    BY DEF R!Idle, R!OpType
  <1>4. R!IsIndex(index) /\ index.commit = 0
    BY <1>1 DEF R!Init, R!NoIndex, R!IsIndex
  <1>5. hasGit \in BOOLEAN /\ torn \in BOOLEAN
    BY Zenon DEF R!Init
  <1>6. R!IndexTypeOK
    BY <1>2, <1>3, <1>4, <1>5 DEF FirstIsRepository, R!Init, R!IndexTypeOK
  <1>7. R!OpOK /\ R!RecordsOK /\ R!ReadOK /\ R!DerivedOK
    BY DEF R!Init, R!OpOK, R!RecordsOK, R!ReadOK, R!DerivedOK, R!NoIndex, R!Idle
  <1>. QED BY <1>6, <1>7 DEF R!IndexInv

\* A search builds the ranking over the records.
LEMMA SearchStep ==
  ASSUME R!IndexInv, R!Search, UNCHANGED hasGit
  PROVE  R!IndexInv'
  <1>1. /\ index'.records = index.records /\ index'.st = index.st
        /\ index'.commit = index.commit /\ index'.links = index.links
        /\ index'.ranked = <<index.records>> /\ R!IsIndex(index')
    BY DEF R!IndexInv, R!IndexTypeOK, R!IsIndex, R!Search
  <1>2. R!IndexTypeOK'
    BY <1>1 DEF R!IndexInv, R!IndexTypeOK, R!Search
  <1>3. R!OpOK' /\ R!RecordsOK' /\ R!ReadOK'
    BY <1>1 DEF R!IndexInv, R!OpOK, R!RecordsOK, R!ReadOK, R!Search, R!Sources
  <1>4. R!DerivedOK'
    BY <1>1 DEF R!IndexInv, R!OpOK, R!DerivedOK, R!Search
  <1>. QED BY <1>2, <1>3, <1>4 DEF R!IndexInv

\* What a step of the server leaves alone.
Settled == UNCHANGED <<hasGit, tree, commits, head>>

\* A build begins: nothing is recorded, and every file there is will be read.
LEMMA BuildAllStep ==
  ASSUME R!IndexInv, NEW s \in {"building", "ready"}, R!BuildAll(s), op.pc = "idle",
         moved' = {}, UNCHANGED <<off, torn>>, Settled
  PROVE  R!IndexInv'
  <1>1. R!NoRecords \in [Paths -> R!AllTexts]
    BY DEF R!NoRecords, R!AllTexts
  <1>2. /\ index'.records = R!NoRecords /\ index'.st = s
        /\ index'.commit = index.commit /\ R!IsIndex(index')
    BY <1>1 DEF R!IndexInv, R!IndexTypeOK, R!IsIndex, R!BuildAll
  <1>3. R!Discover \subseteq Paths
    BY DEF R!Discover
  <1>4. /\ op' \in R!OpType
        /\ op'.pc = "parse" /\ op'.kind = "build" /\ op'.todo = R!Discover
        /\ op'.looked = Paths /\ op'.deleted = {}
    BY <1>3 DEF R!BuildAll, R!Idle, R!OpType
  <1>5. R!IndexTypeOK'
    BY <1>2, <1>4 DEF R!IndexInv, R!IndexTypeOK, Settled
  <1>6. R!OpOK' /\ R!RecordsOK' /\ R!DerivedOK'
    BY <1>2, <1>3, <1>4 DEF R!OpOK, R!RecordsOK, R!DerivedOK
  <1>7. ASSUME NEW p \in Paths, p \notin Ignored, p \notin R!Discover
        PROVE  index'.records[p] = tree'[p]
    BY <1>2, <1>7 DEF R!Discover, R!NoRecords, Settled
  <1>8. R!ReadOK'
    BY <1>4, <1>7 DEF R!ReadOK
  <1>. QED BY <1>5, <1>6, <1>8 DEF R!IndexInv

\* _resolve_repo.
LEMMA BuildStep ==
  ASSUME R!IndexInv, R!Build, UNCHANGED hasGit
  PROVE  R!IndexInv'
  BY BuildAllStep DEF R!Build, Settled

\* refresh, up to the first file.
LEMMA RefreshStep ==
  ASSUME R!IndexInv, R!Refresh, UNCHANGED hasGit
  PROVE  R!IndexInv'
  <1>. Settled /\ op.pc = "idle" /\ op = R!Idle /\ index.st = "ready" /\ moved' = {}
       /\ UNCHANGED <<off, torn>>
    BY DEF R!IndexInv, R!OpOK, R!Refresh, Settled
  <1>1. CASE /\ index' = [index EXCEPT !.records = R!Without(@, Paths \ R!Discover)]
             /\ op' = [R!Idle EXCEPT !.pc = "parse", !.kind = "hash", !.todo = R!Discover,
                                     !.looked = Paths]
    <2>1. R!Discover \subseteq Paths /\ NoFile \in R!AllTexts
      BY DEF R!Discover, R!AllTexts
    <2>2. /\ index'.records \in [Paths -> R!AllTexts]
          /\ \A p \in Paths \ R!Discover : index'.records[p] = NoFile
          /\ index'.st = "ready" /\ index'.commit = index.commit /\ R!IsIndex(index')
      BY <1>1, <2>1 DEF R!IndexInv, R!IndexTypeOK, R!IsIndex, R!Without
    <2>3. /\ op' \in R!OpType
          /\ op'.pc = "parse" /\ op'.kind = "hash" /\ op'.todo = R!Discover
          /\ op'.looked = Paths /\ op'.deleted = {}
      BY <1>1, <2>1 DEF R!Idle, R!OpType
    <2>4. R!IndexTypeOK'
      BY <2>2, <2>3 DEF R!IndexInv, R!IndexTypeOK, Settled
    <2>5. R!OpOK' /\ R!RecordsOK' /\ R!DerivedOK'
      BY <2>1, <2>2, <2>3 DEF R!OpOK, R!RecordsOK, R!DerivedOK
    <2>6. ASSUME NEW p \in Paths, p \notin Ignored, p \notin R!Discover
          PROVE  index'.records[p] = tree'[p]
      BY <2>2, <2>6 DEF R!Discover, Settled
    <2>7. R!ReadOK'
      BY <2>3, <2>6 DEF R!ReadOK
    <2>. QED BY <2>4, <2>5, <2>7 DEF R!IndexInv
  <1>2. CASE R!BuildAll("ready")
    BY <1>2, BuildAllStep
  <1>3. CASE /\ hasGit /\ index.commit \notin {0, head}
             /\ op' = [R!Idle EXCEPT !.pc = "diff", !.kind = "diff", !.commit = head]
             /\ UNCHANGED index
    <2>0. head \in Nat
      BY DEF R!IndexInv, R!IndexTypeOK
    <2>1. /\ op' \in R!OpType
          /\ op'.pc = "diff" /\ op'.kind = "diff" /\ op'.todo = {}
          /\ op'.looked = {} /\ op'.deleted = {} /\ op'.commit = head
      BY <1>3, <2>0 DEF R!Idle, R!OpType
    <2>2. op.kind = "none" /\ op.looked = {}
      BY DEF R!Idle
    <2>3. R!IndexTypeOK'
      BY <1>3, <2>1 DEF R!IndexInv, R!IndexTypeOK, Settled
    <2>4. R!OpOK' /\ R!ReadOK'
      BY <1>3, <2>1 DEF R!IndexInv, R!IndexTypeOK, R!OpOK, R!ReadOK, Settled
    <2>5. R!RecordsOK' /\ R!DerivedOK'
      BY <1>3, <2>1, <2>2 DEF R!IndexInv, R!RecordsOK, R!DerivedOK, R!Sources, Settled
    <2>. QED BY <2>3, <2>4, <2>5 DEF R!IndexInv
  <1>4. CASE UNCHANGED <<index, op>>
    <2>1. R!IndexTypeOK' /\ R!OpOK' /\ R!RecordsOK' /\ R!DerivedOK'
      BY <1>4 DEF R!IndexInv, R!IndexTypeOK, R!OpOK, R!RecordsOK, R!DerivedOK, R!Sources,
                  Settled
    <2>2. R!ReadOK'
      BY <1>4 DEF R!ReadOK, R!Idle
    <2>. QED BY <2>1, <2>2 DEF R!IndexInv
  <1>. QED BY <1>1, <1>2, <1>3, <1>4 DEF R!Refresh

\* changed_files_since, and GitUnavailable.
LEMMA DiffStep ==
  ASSUME R!IndexInv, R!Diff, UNCHANGED hasGit
  PROVE  R!IndexInv'
  <1>. Settled /\ op.pc = "diff" /\ op.kind = "diff" /\ UNCHANGED <<index, moved, off, torn>>
    BY DEF R!IndexInv, R!OpOK, R!Diff, Settled
  <1>1. CASE op' = [op EXCEPT !.pc = "parse", !.looked = R!Changed \cup R!Deleted,
                              !.todo = R!Changed, !.deleted = R!Deleted]
    <2>1. R!Changed \subseteq Paths /\ R!Deleted \subseteq Paths
      BY DEF R!Changed, R!Deleted
    <2>2. /\ op' \in R!OpType
          /\ op'.pc = "parse" /\ op'.kind = "diff" /\ op'.todo = R!Changed
          /\ op'.looked = R!Changed \cup R!Deleted /\ op'.deleted = R!Deleted
          /\ op'.commit = op.commit
      BY <1>1, <2>1 DEF R!IndexInv, R!IndexTypeOK, R!OpType
    <2>3. R!IndexTypeOK'
      BY <2>2 DEF R!IndexInv, R!IndexTypeOK, Settled
    <2>4. R!OpOK' /\ R!DerivedOK'
      BY <2>2 DEF R!IndexInv, R!OpOK, R!DerivedOK, Settled
    <2>5. R!RecordsOK'
      BY <2>2 DEF R!IndexInv, R!OpOK, R!RecordsOK, R!Sources, Settled
    <2>6. ASSUME NEW p \in Paths, p \notin R!Changed \cup R!Deleted
          PROVE  commits[index.commit][p] = commits[head][p]
      BY <2>6 DEF R!Changed, R!Deleted
    <2>7. R!ReadOK'
      BY <2>2, <2>6 DEF R!IndexInv, R!ReadOK, R!Deleted, Settled
    <2>. QED BY <2>3, <2>4, <2>5, <2>7 DEF R!IndexInv
  <1>2. CASE op' = R!Idle
    <2>1. /\ op' \in R!OpType
          /\ op'.pc = "idle" /\ op'.kind = "none" /\ op'.todo = {}
          /\ op'.looked = {} /\ op'.deleted = {}
      BY <1>2 DEF R!Idle, R!OpType
    <2>2. R!IndexTypeOK'
      BY <2>1 DEF R!IndexInv, R!IndexTypeOK, Settled
    <2>3. R!OpOK' /\ R!DerivedOK'
      BY <1>2, <2>1 DEF R!IndexInv, R!OpOK, R!DerivedOK, Settled
    <2>4. R!RecordsOK' /\ R!ReadOK'
      BY <2>1 DEF R!IndexInv, R!OpOK, R!RecordsOK, R!ReadOK, R!Sources, Settled
    <2>. QED BY <2>2, <2>3, <2>4 DEF R!IndexInv
  <1>. QED BY <1>1, <1>2 DEF R!Diff

\* _parse_file, of one file.
LEMMA ParseStep ==
  ASSUME R!IndexInv, NEW p \in op.todo, R!ParseFile(p), UNCHANGED hasGit
  PROVE  R!IndexInv'
  <1>. /\ Settled /\ op.pc = "parse" /\ op.kind \in {"build", "hash", "diff"}
       /\ UNCHANGED moved /\ p \in Paths /\ p \in op.looked /\ op.todo \subseteq op.looked
       /\ op.looked \subseteq Paths /\ op.deleted \subseteq Paths
    BY DEF R!IndexInv, R!IndexTypeOK, R!OpType, R!OpOK, R!ParseFile, Settled
  <1>1. CASE /\ tree[p] # NoFile /\ op' = [op EXCEPT !.todo = @ \ {p}]
             /\ index' = [index EXCEPT !.records[p] = tree[p]]
             /\ UNCHANGED <<off, torn>>
    <2>1. /\ op' \in R!OpType /\ op'.pc = "parse" /\ op'.kind = op.kind
          /\ op'.todo = op.todo \ {p} /\ op'.looked = op.looked
          /\ op'.deleted = op.deleted /\ op'.commit = op.commit
      BY <1>1 DEF R!IndexInv, R!IndexTypeOK, R!OpType
    <2>2. tree[p] \in R!AllTexts /\ index.records \in [Paths -> R!AllTexts]
      BY DEF R!IndexInv, R!IndexTypeOK, R!IsIndex
    <2>3. /\ index'.records = [index.records EXCEPT ![p] = tree[p]]
          /\ index'.st = index.st /\ index'.commit = index.commit /\ R!IsIndex(index')
      BY <1>1, <2>2 DEF R!IndexInv, R!IndexTypeOK, R!IsIndex
    <2>4. /\ index'.records[p] = tree[p]
          /\ \A q \in Paths : q # p => index'.records[q] = index.records[q]
      BY <2>2, <2>3
    <2>5. R!IndexTypeOK'
      BY <1>1, <2>1, <2>3 DEF R!IndexInv, R!IndexTypeOK, Settled
    <2>6. R!OpOK' /\ R!DerivedOK'
      BY <2>1, <2>3 DEF R!IndexInv, R!OpOK, R!DerivedOK, Settled
    <2>7. R!RecordsOK'
      BY <1>1, <2>1, <2>3, <2>4 DEF R!IndexInv, R!RecordsOK, R!Sources, Settled
    <2>8. R!ReadOK'
      BY <1>1, <2>1, <2>3, <2>4 DEF R!IndexInv, R!ReadOK, Settled
    <2>. QED BY <2>5, <2>6, <2>7, <2>8 DEF R!IndexInv
  <1>2. CASE /\ tree[p] = NoFile /\ op.kind = "diff"
             /\ op' = [[op EXCEPT !.todo = @ \ {p}] EXCEPT !.deleted = @ \cup {p}]
             /\ UNCHANGED <<index, off, torn>>
    <2>1. /\ op' \in R!OpType /\ op'.pc = "parse" /\ op'.kind = op.kind
          /\ op'.todo = op.todo \ {p} /\ op'.looked = op.looked
          /\ op'.deleted = op.deleted \cup {p} /\ op'.commit = op.commit
      BY <1>2 DEF R!IndexInv, R!IndexTypeOK, R!OpType
    <2>2. R!IndexTypeOK'
      BY <1>2, <2>1 DEF R!IndexInv, R!IndexTypeOK, Settled
    <2>3. R!OpOK' /\ R!DerivedOK'
      BY <1>2, <2>1 DEF R!IndexInv, R!OpOK, R!DerivedOK, Settled
    <2>4. R!RecordsOK'
      BY <1>2, <2>1 DEF R!IndexInv, R!RecordsOK, R!Sources, Settled
    <2>5. R!ReadOK'
      BY <1>2, <2>1 DEF R!IndexInv, R!ReadOK, Settled
    <2>. QED BY <2>2, <2>3, <2>4, <2>5 DEF R!IndexInv
  <1>3. CASE op' = R!Idle /\ index.st = "building" /\ index' = R!NoIndex /\ UNCHANGED <<off, torn>>
    <2>1. /\ op' \in R!OpType /\ op'.pc = "idle" /\ op'.kind = "none"
          /\ op'.todo = {} /\ op'.looked = {} /\ op'.deleted = {}
      BY <1>3 DEF R!Idle, R!OpType
    <2>2. R!NoRecords \in [Paths -> R!AllTexts]
      BY DEF R!NoRecords, R!AllTexts
    <2>3. R!IsIndex(index') /\ index'.st = "none" /\ index'.commit = 0
      BY <1>3, <2>2 DEF R!NoIndex, R!IsIndex
    <2>4. R!IndexTypeOK'
      BY <1>3, <2>1, <2>3 DEF R!IndexInv, R!IndexTypeOK, Settled
    <2>5. R!OpOK' /\ R!DerivedOK' /\ R!RecordsOK' /\ R!ReadOK'
      BY <1>3, <2>1, <2>3 DEF R!OpOK, R!DerivedOK, R!RecordsOK, R!ReadOK
    <2>. QED BY <2>4, <2>5 DEF R!IndexInv
  <1>4. CASE /\ op' = R!Idle /\ index.st # "building" /\ off' = off \cup op.looked
             /\ torn' = TRUE /\ UNCHANGED index
    <2>1. /\ op' \in R!OpType /\ op'.pc = "idle" /\ op'.kind = "none"
          /\ op'.todo = {} /\ op'.looked = {} /\ op'.deleted = {}
      BY <1>4 DEF R!Idle, R!OpType
    <2>2. R!IndexTypeOK'
      BY <1>4, <2>1 DEF R!IndexInv, R!IndexTypeOK, Settled
    <2>3. R!OpOK' /\ R!DerivedOK' /\ R!ReadOK'
      BY <1>4, <2>1 DEF R!OpOK, R!DerivedOK, R!ReadOK
    <2>4. R!Sources' = R!Sources \ op.looked
      BY <1>4 DEF R!Sources
    <2>5. R!RecordsOK'
      BY <1>4, <2>1, <2>4 DEF R!IndexInv, R!OpOK, R!RecordsOK, R!Sources, Settled
    <2>. QED BY <2>2, <2>3, <2>5 DEF R!IndexInv
  <1>. QED BY <1>1, <1>2, <1>3, <1>4 DEF R!ParseFile

\* link_references goes over every file.
LEMMA LinkIgnoresParsed ==
  ASSUME NEW records, NEW parsed, NEW old
  PROVE  R!Link(records, parsed, old) = R!Link(records, {}, {})
  BY DEF R!Link

\* The index after _relink.
LEMMA RelinkedIndex ==
  ASSUME R!IndexInv
  PROVE  /\ R!IsIndex(R!Relinked)
         /\ R!Relinked.st = index.st /\ R!Relinked.commit = index.commit
         /\ R!Relinked.ranked = <<>>
         /\ R!Relinked.links = R!Link(R!Relinked.records, {}, {})
         /\ \A p \in Paths :
              R!Relinked.records[p] = IF p \in op.deleted THEN NoFile ELSE index.records[p]
  <1>1. NoFile \in R!AllTexts
    BY DEF R!AllTexts
  <1>2. R!IsIndex(index)
    BY DEF R!IndexInv, R!IndexTypeOK
  <1>3. R!Without(index.records, op.deleted) \in [Paths -> R!AllTexts]
    BY <1>1, <1>2 DEF R!Without, R!IsIndex
  <1>4. R!Link(R!Without(index.records, op.deleted), op.looked, index.links)
          = R!Link(R!Without(index.records, op.deleted), {}, {})
    BY LinkIgnoresParsed
  <1>5. PICK links, records :
          /\ links = R!Link(records, op.looked, index.links)
          /\ records = R!Without(index.records, op.deleted)
          /\ R!Relinked = [index EXCEPT !.records = records, !.ranked = <<>>, !.links = links]
    BY DEF R!Relinked
  <1>6. /\ R!Relinked = [st |-> index.st, records |-> records, links |-> links,
                         ranked |-> <<>>, commit |-> index.commit]
    BY <1>2, <1>5 DEF R!IsIndex
  <1>7. R!IsIndex(R!Relinked)
    BY <1>2, <1>3, <1>5, <1>6 DEF R!IsIndex
  <1>8. \A p \in Paths :
          records[p] = IF p \in op.deleted THEN NoFile ELSE index.records[p]
    BY <1>5 DEF R!Without
  <1>9. links = R!Link(records, {}, {})
    BY <1>4, <1>5
  <1>. QED BY <1>6, <1>7, <1>8, <1>9

\* What an operation leaves of the files it has looked at and that are not
\* off afterwards: the text of the tree, which is that of HEAD.
LEMMA LookedAt ==
  ASSUME R!IndexInv, op.pc \in {"parse", "commit"}, op.todo = {},
         NEW p \in op.looked, p \notin R!OffAfter, p \notin Ignored
  PROVE  /\ p \notin moved
         /\ hasGit => tree[p] = commits[head][p]
         /\ (op.kind = "hash" /\ hasGit /\ index.commit # 0) =>
              tree[p] = commits[index.commit][p]
         /\ p \notin op.deleted => index.records[p] = tree[p]
         /\ p \in op.deleted => tree[p] = NoFile
  <1>1. p \notin moved /\ ~R!Dirty(p) /\ ~R!Ahead(p)
    BY DEF R!OffAfter
  <1>2. p \in op.deleted => hasGit
    BY DEF R!IndexInv, R!OpOK, R!IndexTypeOK, R!OpType
  <1>3. p \in op.deleted => tree[p] = NoFile
    BY <1>1, <1>2 DEF R!IndexInv, R!ReadOK, R!Dirty
  <1>. QED BY <1>1, <1>3 DEF R!IndexInv, R!ReadOK, R!Dirty, R!Ahead

\* The end of an operation: _relink.
LEMMA RelinkStep ==
  ASSUME R!IndexInv, R!Relink, UNCHANGED hasGit
  PROVE  R!IndexInv'
  <1>. /\ Settled /\ op.pc = "parse" /\ op.todo = {} /\ torn' = FALSE /\ UNCHANGED moved
       /\ op.kind \in {"build", "hash", "diff"} /\ op.looked \subseteq Paths
       /\ op.deleted \subseteq op.looked
    BY DEF R!IndexInv, R!IndexTypeOK, R!OpType, R!OpOK, R!Relink, Settled
  <1>0. R!OffAfter \subseteq Paths
    BY DEF R!IndexInv, R!IndexTypeOK, R!OffAfter
  <1>1. CASE op.kind = "build"
    <2>1. index' = R!Relinked /\ op' = [op EXCEPT !.pc = "commit"] /\ UNCHANGED off
      BY <1>1 DEF R!Relink
    <2>2. /\ op' \in R!OpType /\ op'.pc = "commit" /\ op'.kind = "build" /\ op'.todo = {}
          /\ op'.looked = Paths /\ op'.deleted = {} /\ op.deleted = {}
      BY <1>1, <2>1 DEF R!IndexInv, R!IndexTypeOK, R!OpType, R!OpOK
    <2>3. R!IndexTypeOK'
      BY <2>1, <2>2, RelinkedIndex DEF R!IndexInv, R!IndexTypeOK, Settled
    <2>4. R!OpOK' /\ R!RecordsOK' /\ R!DerivedOK'
      BY <2>1, <2>2, RelinkedIndex DEF R!IndexInv, R!OpOK, R!RecordsOK, R!DerivedOK
    <2>5. R!ReadOK'
      BY <1>1, <2>1, <2>2, RelinkedIndex DEF R!IndexInv, R!OpOK, R!ReadOK, Settled
    <2>. QED BY <2>3, <2>4, <2>5 DEF R!IndexInv
  <1>2. CASE op.kind \in {"hash", "diff"}
    <2>1. /\ op' = R!Idle /\ off' = R!OffAfter
          /\ index' = IF op.kind = "diff" THEN [R!Relinked EXCEPT !.commit = op.commit]
                      ELSE R!Relinked
      BY <1>2 DEF R!Relink
    <2>2. /\ op' \in R!OpType /\ op'.pc = "idle" /\ op'.kind = "none"
          /\ op'.todo = {} /\ op'.looked = {} /\ op'.deleted = {}
      BY <2>1 DEF R!Idle, R!OpType
    <2>3. /\ R!IsIndex(index') /\ index'.st = "ready" /\ index'.ranked = <<>>
          /\ index'.links = R!Link(index'.records, {}, {})
          /\ index'.records = R!Relinked.records
          /\ index'.commit = IF op.kind = "diff" THEN op.commit ELSE index.commit
      <3>1. R!IsIndex(R!Relinked) /\ index.st = "ready"
        BY <1>2, RelinkedIndex DEF R!IndexInv, R!OpOK
      <3>2. CASE op.kind = "diff"
        BY <2>1, <3>1, <3>2, RelinkedIndex DEF R!IsIndex
      <3>3. CASE op.kind # "diff"
        BY <2>1, <3>1, <3>3, RelinkedIndex
      <3>. QED BY <3>2, <3>3
    <2>4. index'.commit \in 0..Len(commits)
      BY <1>2, <2>3 DEF R!IndexInv, R!IndexTypeOK, R!OpOK
    <2>5. R!IndexTypeOK'
      BY <1>0, <2>1, <2>2, <2>3, <2>4 DEF R!IndexInv, R!IndexTypeOK, Settled
    <2>6. R!OpOK' /\ R!DerivedOK' /\ R!ReadOK'
      BY <2>1, <2>2, <2>3 DEF R!OpOK, R!DerivedOK, R!ReadOK
    <2>7. ASSUME NEW p \in R!Sources', hasGit, index'.commit # 0
          PROVE  index'.records[p] = commits[index'.commit][p]
      <3>1. p \in Paths /\ p \notin Ignored /\ p \notin R!OffAfter
        BY <2>1 DEF R!Sources
      <3>2. CASE p \in op.looked
        <4>1. /\ p \notin moved /\ tree[p] = commits[head][p]
              /\ op.kind = "hash" /\ index.commit # 0 => tree[p] = commits[index.commit][p]
              /\ p \notin op.deleted => index.records[p] = tree[p]
              /\ p \in op.deleted => tree[p] = NoFile
          BY <2>7, <3>1, <3>2, LookedAt
        <4>2. index'.records[p] = tree[p]
          BY <2>3, <3>1, <4>1, RelinkedIndex
        <4>3. op.kind = "diff" => commits[head][p] = commits[op.commit][p]
          BY <3>1, <4>1 DEF R!IndexInv, R!ReadOK
        <4>. QED BY <1>2, <2>3, <2>7, <4>1, <4>2, <4>3
      <3>3. CASE p \notin op.looked
        <4>1. op.kind = "diff" /\ p \notin moved /\ p \notin off
          BY <1>2, <3>1, <3>3 DEF R!IndexInv, R!OpOK, R!OffAfter
        <4>2. index.records[p] = commits[index.commit][p]
          BY <2>7, <3>1, <3>3, <4>1 DEF R!IndexInv, R!OpOK, R!RecordsOK, R!Sources
        <4>3. commits[index.commit][p] = commits[op.commit][p]
          BY <3>1, <3>3, <4>1 DEF R!IndexInv, R!ReadOK
        <4>4. index'.records[p] = index.records[p]
          BY <2>3, <3>1, <3>3, RelinkedIndex
        <4>. QED BY <2>3, <4>1, <4>2, <4>3, <4>4
      <3>. QED BY <3>2, <3>3
    <2>8. ASSUME NEW p \in R!Sources', ~hasGit
          PROVE  index'.records[p] = tree[p]
      <3>1. p \in Paths /\ p \notin Ignored /\ p \notin R!OffAfter
        BY <2>1 DEF R!Sources
      <3>2. op.kind = "hash" /\ op.looked = Paths /\ op.deleted = {}
        BY <1>2, <2>8 DEF R!IndexInv, R!OpOK
      <3>3. index.records[p] = tree[p]
        BY <3>1, <3>2, LookedAt
      <3>. QED BY <2>3, <3>1, <3>2, <3>3, RelinkedIndex
    <2>9. R!RecordsOK'
      BY <2>2, <2>7, <2>8 DEF R!RecordsOK, Settled
    <2>. QED BY <2>5, <2>6, <2>9 DEF R!IndexInv
  <1>. QED BY <1>1, <1>2

\* The end of a build: the commit is asked for when the files have been read.
LEMMA ReadCommitStep ==
  ASSUME R!IndexInv, R!ReadCommit, UNCHANGED hasGit
  PROVE  R!IndexInv'
  <1>. /\ Settled /\ op.pc = "commit" /\ op.todo = {} /\ op.kind = "build"
       /\ op.looked = Paths /\ op.deleted = {} /\ op' = R!Idle /\ off' = R!OffAfter
       /\ UNCHANGED <<moved, torn>>
    BY DEF R!IndexInv, R!OpOK, R!ReadCommit, Settled
  <1>1. PICK c \in {0, head} :
          /\ index' = [index EXCEPT !.st = "ready", !.commit = c]
          /\ ~hasGit => c = 0
    BY DEF R!ReadCommit
  <1>2. /\ op' \in R!OpType /\ op'.pc = "idle" /\ op'.kind = "none"
        /\ op'.todo = {} /\ op'.looked = {} /\ op'.deleted = {}
    BY DEF R!Idle, R!OpType
  <1>3. /\ R!IsIndex(index') /\ index'.st = "ready" /\ index'.records = index.records
        /\ index'.links = index.links /\ index'.ranked = index.ranked /\ index'.commit = c
    BY <1>1 DEF R!IndexInv, R!IndexTypeOK, R!IsIndex
  <1>4. R!OffAfter \subseteq Paths
    BY DEF R!IndexInv, R!IndexTypeOK, R!OffAfter
  <1>5. R!IndexTypeOK'
    BY <1>2, <1>3, <1>4 DEF R!IndexInv, R!IndexTypeOK, Settled
  <1>6. R!OpOK' /\ R!ReadOK'
    BY <1>2, <1>3 DEF R!OpOK, R!ReadOK
  <1>7. R!DerivedOK'
    BY <1>2, <1>3 DEF R!IndexInv, R!DerivedOK
  <1>8. ASSUME NEW p \in R!Sources'
        PROVE  index'.records[p] = tree[p] /\ (hasGit => tree[p] = commits[head][p])
    <2>1. p \in Paths /\ p \notin Ignored /\ p \notin R!OffAfter
      BY DEF R!Sources
    <2>. QED BY <1>3, <2>1, LookedAt
  <1>9. R!RecordsOK'
    BY <1>1, <1>2, <1>3, <1>8 DEF R!RecordsOK, Settled
  <1>. QED BY <1>5, <1>6, <1>7, <1>9 DEF R!IndexInv

\* The repository changes: commits are only added, and what was touched is
\* remembered.
LEMMA BecomesStep ==
  ASSUME R!IndexInv, NEW t \in [Paths -> R!AllTexts], R!Becomes(t), UNCHANGED hasGit,
         commits' \in Seq([Paths -> R!AllTexts]), head' \in 1..Len(commits'),
         Len(commits') >= Len(commits),
         \A c \in 1..Len(commits) : commits'[c] = commits[c]
  PROVE  R!IndexInv'
  <1>1. PICK touched \in SUBSET Paths :
          /\ touched = {p \in Paths : t[p] # tree[p]
                                          \/ commits'[head'][p] # commits[head][p]}
          /\ tree' = t
          /\ moved' = IF op.pc = "idle" THEN moved ELSE moved \cup touched
          /\ off' = IF hasGit THEN off ELSE off \cup touched
          /\ UNCHANGED <<index, op, torn>>
    BY DEF R!Becomes
  <1>2. \A p \in Paths \ touched : tree'[p] = tree[p] /\ commits'[head'][p] = commits[head][p]
    BY <1>1
  <1>3. R!IndexTypeOK'
    BY <1>1 DEF R!IndexInv, R!IndexTypeOK
  <1>4. R!OpOK' /\ R!DerivedOK'
    BY <1>1 DEF R!IndexInv, R!IndexTypeOK, R!OpOK, R!DerivedOK
  <1>5. R!Sources' \subseteq R!Sources
    BY <1>1 DEF R!Sources
  <1>6. ~hasGit => R!Sources' \cap touched = {}
    BY <1>1 DEF R!Sources
  <1>7. index.commit # 0 => commits'[index.commit] = commits[index.commit]
    BY DEF R!IndexInv, R!IndexTypeOK
  <1>8. R!RecordsOK'
    BY <1>1, <1>2, <1>5, <1>6, <1>7 DEF R!IndexInv, R!RecordsOK, R!Sources
  <1>9. R!ReadOK'
    <2>1. CASE op.pc = "idle"
      BY <2>1, <1>1 DEF R!IndexInv, R!OpOK, R!ReadOK, R!Idle
    <2>2. CASE op.pc # "idle"
      <3>1. moved' = moved \cup touched
        BY <1>1, <2>2
      <3>2. op.kind = "diff" => commits'[op.commit] = commits[op.commit]
        BY DEF R!IndexInv, R!OpOK
      <3>3. op.looked \subseteq Paths /\ op.deleted \subseteq Paths
        BY DEF R!IndexInv, R!IndexTypeOK, R!OpType
      <3>4. (op.kind = "diff" => index.commit # 0)
        BY DEF R!IndexInv, R!OpOK
      <3>. QED BY <1>1, <1>2, <1>7, <3>1, <3>2, <3>3, <3>4 DEF R!IndexInv, R!ReadOK
    <2>. QED BY <2>1, <2>2
  <1>. QED BY <1>3, <1>4, <1>8, <1>9 DEF R!IndexInv

\* A commit, of one path or of a rename.
LEMMA CommittedStep ==
  ASSUME R!IndexInv, NEW changes, R!Committed(changes), UNCHANGED hasGit,
         \A p \in Paths : p \in DOMAIN changes => changes[p] \in R!AllTexts
  PROVE  R!IndexInv'
  <1>1. /\ commits \in Seq([Paths -> R!AllTexts]) /\ head \in 1..Len(commits)
        /\ tree \in [Paths -> R!AllTexts]
    BY DEF R!IndexInv, R!IndexTypeOK
  <1>2. commits[head] \in [Paths -> R!AllTexts]
    BY <1>1
  <1>3. [p \in Paths |-> IF p \in DOMAIN changes THEN changes[p] ELSE tree[p]]
          \in [Paths -> R!AllTexts]
    BY <1>1
  <1>4. PICK new \in [Paths -> R!AllTexts] : commits' = Append(commits, new)
    BY <1>2 DEF R!Committed
  <1>5. /\ commits' \in Seq([Paths -> R!AllTexts]) /\ Len(commits') = Len(commits) + 1
        /\ \A c \in 1..Len(commits) : commits'[c] = commits[c]
    BY <1>1, <1>4
  <1>6. head' \in 1..Len(commits') /\ Len(commits') >= Len(commits)
    BY <1>1, <1>5 DEF R!Committed
  <1>. QED BY <1>3, <1>5, <1>6, BecomesStep DEF R!Committed

\* The change of one file is committed.
LEMMA CommitStep ==
  ASSUME R!IndexInv, NEW p \in Paths, NEW text \in Texts[p] \cup {NoFile},
         R!Commit(p, text), UNCHANGED hasGit
  PROVE  R!IndexInv'
  <1>1. text \in R!AllTexts
    BY DEF R!AllTexts
  <1>2. PICK changes : changes = [q \in {p} |-> text] /\ R!Committed(changes)
    BY DEF R!Commit
  <1>3. \A x \in Paths : x \in DOMAIN changes => changes[x] \in R!AllTexts
    BY <1>1, <1>2
  <1>. QED BY <1>2, <1>3, CommittedStep

\* A rename is committed: one file goes, another comes.
LEMMA RenameStep ==
  ASSUME R!IndexInv, NEW p \in Paths, NEW q \in Paths, R!Rename(p, q), UNCHANGED hasGit
  PROVE  R!IndexInv'
  <1>1. commits[head][p] \in R!AllTexts /\ NoFile \in R!AllTexts
    BY DEF R!IndexInv, R!IndexTypeOK, R!AllTexts
  <1>2. PICK changes : /\ changes = [x \in {p, q} |-> IF x = q THEN commits[head][p] ELSE NoFile]
                       /\ R!Committed(changes)
    BY DEF R!Rename
  <1>3. \A x \in Paths : x \in DOMAIN changes => changes[x] \in R!AllTexts
    BY <1>1, <1>2
  <1>. QED BY <1>2, <1>3, CommittedStep

\* An edit that is not committed, and a reset.
LEMMA EditStep ==
  ASSUME R!IndexInv, NEW p \in Paths, NEW text \in Texts[p] \cup {NoFile},
         R!Edit(p, text), UNCHANGED hasGit
  PROVE  R!IndexInv'
  <1>1. text \in R!AllTexts
    BY DEF R!AllTexts
  <1>2. /\ commits \in Seq([Paths -> R!AllTexts]) /\ head \in 1..Len(commits)
        /\ [tree EXCEPT ![p] = text] \in [Paths -> R!AllTexts]
    BY <1>1 DEF R!IndexInv, R!IndexTypeOK
  <1>3. PICK t \in [Paths -> R!AllTexts] : R!Becomes(t)
    BY <1>2 DEF R!Edit
  <1>4. /\ commits' \in Seq([Paths -> R!AllTexts]) /\ head' \in 1..Len(commits')
        /\ Len(commits') >= Len(commits) /\ \A c \in 1..Len(commits) : commits'[c] = commits[c]
    BY <1>2 DEF R!Edit
  <1>. QED BY <1>3, <1>4, BecomesStep

\* Another commit is checked out, tree and all.
LEMMA CheckoutStep ==
  ASSUME R!IndexInv, NEW c \in DOMAIN commits, R!Checkout(c), UNCHANGED hasGit
  PROVE  R!IndexInv'
  <1>1. /\ commits \in Seq([Paths -> R!AllTexts]) /\ c \in 1..Len(commits)
        /\ commits[c] \in [Paths -> R!AllTexts]
    BY DEF R!IndexInv, R!IndexTypeOK
  <1>. QED BY <1>1, BecomesStep DEF R!Checkout

\* A step of the server or of the repository preserves the invariant.
LEMMA IndexNext ==
  ASSUME R!IndexInv, [R!Next]_(R!indexVars)
  PROVE  R!IndexInv'
  <1>1. CASE R!Next
    <2>. UNCHANGED hasGit
      BY <1>1 DEF R!Next
    <2>1. CASE R!Parse
      BY <2>1, ParseStep DEF R!Parse, R!Earliest
    <2>2. CASE \E p \in Paths, q \in Paths : R!Rename(p, q)
      BY <2>2, RenameStep
    <2>3. CASE \E p \in Paths : \E text \in Texts[p] \cup {NoFile} :
                 R!Commit(p, text) \/ R!Edit(p, text)
      BY <2>3, CommitStep, EditStep
    <2>4. CASE \E c \in DOMAIN commits : R!Checkout(c)
      BY <2>4, CheckoutStep
    <2>. QED BY <1>1, <2>1, <2>2, <2>3, <2>4, SearchStep, BuildStep, RefreshStep, DiffStep,
                RelinkStep, ReadCommitStep DEF R!Next, R!Change
  <1>2. CASE UNCHANGED R!indexVars
    BY <1>2 DEF R!indexVars, R!IndexInv, R!IndexTypeOK, R!OpOK, R!RecordsOK, R!ReadOK,
                R!DerivedOK, R!Sources
  <1>. QED BY <1>1, <1>2

\* The invariant, between operations.
LEMMA IndexInvImpliesFresh ==
  ASSUME R!IndexInv
  PROVE  R!IndexIsFresh /\ R!LinksFollowRecords
  <1>1. R!Rests => op.kind = "none" /\ op.looked = {}
    BY DEF R!Rests, R!IndexInv, R!OpOK, R!Idle
  <1>. QED BY <1>1 DEF R!IndexInv, R!RecordsOK, R!DerivedOK, R!IndexIsFresh,
                       R!LinksFollowRecords, R!Rests

\* RepoIndex.build and refresh, for any repository, any history of commits,
\* renames, resets and uncommitted edits and any git command that fails: what
\* the index at rest knows of a file is what its commit has, or without git
\* what the directory has, unless the file was touched while it was read or
\* read uncommitted; and the ranking of search is that of the same records.
THEOREM IndexFresh ==
  ASSUME FirstIsRepository
  PROVE  R!Spec => []IndexIsFresh
  <1>1. R!Init => R!IndexInv
    BY IndexInit
  <1>2. R!IndexInv /\ [R!Next]_(R!indexVars) => R!IndexInv'
    BY IndexNext
  <1>3. R!IndexInv => IndexIsFresh
    BY IndexInvImpliesFresh DEF IndexIsFresh
  <1>. QED BY <1>1, <1>2, <1>3, PTL DEF R!Spec

\* _relink: after a refresh that parsed only some of the files the links are
\* those a build would have made, so what find_references and find_callers
\* answer depends on the records alone.
THEOREM LinksCurrent ==
  ASSUME FirstIsRepository
  PROVE  R!Spec => []R!LinksFollowRecords
  <1>1. R!Init => R!IndexInv
    BY IndexInit
  <1>2. R!IndexInv /\ [R!Next]_(R!indexVars) => R!IndexInv'
    BY IndexNext
  <1>3. R!IndexInv => R!LinksFollowRecords
    BY IndexInvImpliesFresh
  <1>. QED BY <1>1, <1>2, <1>3, PTL DEF R!Spec
=============================================================================
