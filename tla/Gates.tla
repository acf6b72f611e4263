------------------------------- MODULE Gates -------------------------------
(***************************************************************************)
(* The gates service (services/gates): opening a gate, deciding it, and    *)
(* the sweep that hands gates past their SLA to the backup approver.       *)
(*                                                                         *)
(* Threads call the service at the same time.  The tracker's lock makes    *)
(* one access to its records a step; the handles of open gates and the     *)
(* audit log are written before or after it, in steps of their own.  A     *)
(* decision reads who is entitled in one step and marks the gate in a      *)
(* later one.  A gate id names one opening (the caller's obligation).      *)
(* Identities are normalized: one element of People per human.  Time is    *)
(* counted in days, day 0 a Monday.                                        *)
(***************************************************************************)
EXTENDS Integers, FiniteSets

CONSTANTS
  Threads,        \* callers of the service
  Gates,          \* gate ids
  People,
  KindOf,         \* gate -> "plan_approval" or "change_review"
  TriggeredBy,    \* gate -> the identity that triggered the run
  Assignees,      \* gate -> who may be assignee or reporter of its issue
  Backup,         \* the configured backup approver
  Sla,            \* gate -> sla_business_days
  Files,          \* files of the change, the touched_files of a decision
  Owners,         \* file -> people with a handle that CODEOWNERS names for it
  NoOne, NoGate,
  FirstDay,       \* the day the history starts
  MaxDay,         \* bound: the last day
  MaxDecisions    \* bound: calls of decide

ASSUME GatesAssumption ==
  /\ KindOf \in [Gates -> {"plan_approval", "change_review"}]
  /\ TriggeredBy \in [Gates -> People]
  /\ Assignees \in [Gates -> SUBSET People]
  /\ Backup \in People
  /\ Sla \in [Gates -> Nat]
  /\ Owners \in [Files -> SUBSET People]
  /\ NoOne \notin People /\ NoGate \notin Gates
  /\ FirstDay \in Nat /\ MaxDay \in Nat /\ MaxDecisions \in Nat

VARIABLES
  day,        \* the clock
  gates,      \* EscalationTracker._gates: gate -> record
  handle,     \* GatesService._open_gates: gate -> its default approver, or NoOne
  audit,      \* the audit log: gate and kind -> number of events
  thr,        \* thread -> where it is and what it holds
  decisions,  \* calls of decide so far
  cleared     \* gate -> who cleared it and on what grounds, for the properties

vars == <<day, gates, handle, audit, thr, decisions, cleared>>

AuditKinds == {"gate_opened", "gate_actioned", "gate_rejected", "escalated"}

Unopened == [opened |-> 0, escalated |-> "no", since |-> 0, actioned |-> "no",
             exists |-> "no"]

Uncleared == [by |-> NoOne, approver |-> NoOne, checked |-> "no", late |-> "no"]

\* `checked`: a change review whose touched_files is given, with a CODEOWNERS
\* resolver configured.
\* `late`, for the properties: the gate was escalated when decide was called.
Idle == [pc |-> "idle", gate |-> NoGate, approver |-> NoOne, actor |-> NoOne,
         checked |-> "no", late |-> "no", now |-> 0, found |-> {}, todo |-> {}]

Init ==
  /\ day = FirstDay
  /\ gates = [g \in Gates |-> Unopened]
  /\ handle = [g \in Gates |-> NoOne]
  /\ audit = [g \in Gates |-> [k \in AuditKinds |-> 0]]
  /\ thr = [t \in Threads |-> Idle]
  /\ decisions = 0
  /\ cleared = [g \in Gates |-> Uncleared]

-----------------------------------------------------------------------------
(* business_calendar.py.                                                   *)

\* Mutant: Saturday counts.
is_business_day_six(d) == d % 7 < 6

is_business_day(d) == d % 7 < 5

\* The first business day after d: at most three days later.
next_business_day(d) ==
  CHOOSE e \in d + 1 .. d + 3 :
    is_business_day(e) /\ \A f \in d + 1 .. e - 1 : ~is_business_day(f)

\* The loop of add_business_days, which is also sla_deadline.
add_business_days(start, n) ==
  LET after[k \in 0 .. n] ==
        IF k = 0 THEN start ELSE next_business_day(after[k - 1])
  IN  after[n]

is_sla_breached(g, now) == now >= add_business_days(gates[g].opened, Sla[g])

-----------------------------------------------------------------------------
(* self_approval.py, codeowners.py.                                        *)

\* The touched files that the actor's handles do not cover; a file without an
\* owner is covered by nobody.
unsatisfied_files(actor) == {f \in Files : actor \notin Owners[f]}

\* Three rules, all of which must hold; a change review without a checked
\* ownership requirement does not clear.
evaluate_gate_clearance(g, actor, approver, checked) ==
  /\ actor # TriggeredBy[g]
  /\ actor = approver
  /\ KindOf[g] = "change_review" =>
       checked = "yes" /\ unsatisfied_files(actor) = {}

-----------------------------------------------------------------------------
at(t, pc) == thr' = [thr EXCEPT ![t].pc = pc]

returns(t) == thr' = [thr EXCEPT ![t] = Idle]

record(g, kind) == audit' = [audit EXCEPT ![g][kind] = @ + 1]

(* open_gate.  The approver is the assignee, else the reporter, of the     *)
(* issue at this moment.  When the tracker cannot be read or the           *)
(* repository has no backup the call raises and changes nothing.           *)

OpenGate(t, g, approver) ==
  /\ thr[t].pc = "idle"
  /\ gates[g].exists = "no"
  /\ gates' = [gates EXCEPT ![g] = [Unopened EXCEPT !.exists = "yes", !.opened = day]]
  /\ thr' = [thr EXCEPT ![t] =
       [Idle EXCEPT !.pc = "opened", !.gate = g, !.approver = approver]]
  /\ UNCHANGED <<day, handle, audit, decisions, cleared>>

AuditOpened(t) ==
  /\ thr[t].pc = "opened"
  /\ record(thr[t].gate, "gate_opened")
  /\ at(t, "handle")
  /\ UNCHANGED <<day, gates, handle, decisions, cleared>>

PutHandle(t) ==
  /\ thr[t].pc = "handle"
  /\ handle' = [handle EXCEPT ![thr[t].gate] = thr[t].approver]
  /\ returns(t)
  /\ UNCHANGED <<day, gates, audit, decisions, cleared>>

-----------------------------------------------------------------------------
(* decide.                                                                 *)

\* The handle is found and the credential resolves; otherwise the call raises.
Decide(t, g, actor, checked) ==
  /\ thr[t].pc = "idle"
  /\ decisions < MaxDecisions
  /\ handle[g] # NoOne
  /\ decisions' = decisions + 1
  /\ thr' = [thr EXCEPT ![t] =
       [Idle EXCEPT !.pc = "authority", !.gate = g, !.approver = handle[g],
                    !.actor = actor, !.late = gates[g].escalated,
                    !.checked = IF KindOf[g] = "change_review" THEN checked ELSE "no"]]
  /\ UNCHANGED <<day, gates, handle, audit, cleared>>

\* Mutant: the backup is entitled from the start.
current_authority_backup(g, default_approver) == Backup

\* The default approver, or the backup once the gate is escalated.
current_authority(g, default_approver) ==
  IF gates[g].escalated = "yes" THEN Backup ELSE default_approver

\* current_authority under the lock, then the clearance.
Evaluate(t) ==
  LET g == thr[t].gate
      authority == current_authority(g, thr[t].approver)
  IN  /\ thr[t].pc = "authority"
      /\ IF evaluate_gate_clearance(g, thr[t].actor, authority, thr[t].checked)
           THEN at(t, "mark") ELSE at(t, "reject")
      /\ UNCHANGED <<day, gates, handle, audit, decisions, cleared>>

AuditRejected(t) ==
  /\ thr[t].pc = "reject"
  /\ record(thr[t].gate, "gate_rejected")
  /\ returns(t)
  /\ UNCHANGED <<day, gates, handle, decisions, cleared>>

mark(t, g) ==
  /\ gates' = [gates EXCEPT ![g].actioned = "yes"]
  /\ cleared' = [cleared EXCEPT ![g] =
       [by |-> thr[t].actor, approver |-> thr[t].approver, checked |-> thr[t].checked,
        late |-> thr[t].late]]
  /\ at(t, "audit_actioned")
  /\ UNCHANGED <<day, handle, audit, decisions>>

MarkActioned(t) ==
  /\ thr[t].pc = "mark"
  /\ gates[thr[t].gate].actioned = "no"
  /\ mark(t, thr[t].gate)

AlreadyActioned(t) ==
  /\ thr[t].pc = "mark"
  /\ gates[thr[t].gate].actioned = "yes"
  /\ returns(t)
  /\ UNCHANGED <<day, gates, handle, audit, decisions, cleared>>

AuditActioned(t) ==
  /\ thr[t].pc = "audit_actioned"
  /\ record(thr[t].gate, "gate_actioned")
  /\ at(t, "delete")
  /\ UNCHANGED <<day, gates, handle, decisions, cleared>>

DeleteHandle(t) ==
  /\ thr[t].pc = "delete"
  /\ handle' = [handle EXCEPT ![thr[t].gate] = NoOne]
  /\ returns(t)
  /\ UNCHANGED <<day, gates, audit, decisions, cleared>>

-----------------------------------------------------------------------------
(* check_escalations.                                                      *)

unactioned(g) ==
  gates[g].exists = "yes" /\ gates[g].actioned = "no" /\ gates[g].escalated = "no"

\* Mutant: only gates whose handle is there are looked at.
Sweep_handles(t) ==
  /\ thr[t].pc = "idle"
  /\ thr' = [thr EXCEPT ![t] =
       [Idle EXCEPT !.pc = "sweep", !.now = day,
                    !.found = {g \in Gates : unactioned(g)},
                    !.todo = {g \in Gates : unactioned(g) /\ handle[g] # NoOne}]]
  /\ UNCHANGED <<day, gates, handle, audit, decisions, cleared>>

\* The clock is read, then the candidates, under the lock.
Sweep(t) ==
  /\ thr[t].pc = "idle"
  /\ thr' = [thr EXCEPT ![t] =
       [Idle EXCEPT !.pc = "sweep", !.now = day,
                    !.found = {g \in Gates : unactioned(g)},
                    !.todo = {g \in Gates : unactioned(g)}]]
  /\ UNCHANGED <<day, gates, handle, audit, decisions, cleared>>

escalate(t, g) ==
  /\ gates' = [gates EXCEPT ![g].escalated = "yes", ![g].since = thr[t].now]
  /\ thr' = [thr EXCEPT ![t].pc = "audit_escalated", ![t].gate = g,
                        ![t].todo = @ \ {g}]
  /\ UNCHANGED <<day, handle, audit, decisions, cleared>>

\* Mutant: what was read at the start of the sweep is not read again.
Escalate_unchecked(t, g) ==
  /\ thr[t].pc = "sweep" /\ g \in thr[t].todo
  /\ is_sla_breached(g, thr[t].now)
  /\ escalate(t, g)

\* The SLA is breached, and under the lock the gate is still unactioned and not
\* escalated by another sweep.
Escalate(t, g) ==
  /\ thr[t].pc = "sweep" /\ g \in thr[t].todo
  /\ is_sla_breached(g, thr[t].now)
  /\ unactioned(g)
  /\ escalate(t, g)

\* Not breached, or meanwhile decided or escalated.
Skip(t, g) ==
  /\ thr[t].pc = "sweep" /\ g \in thr[t].todo
  /\ ~(is_sla_breached(g, thr[t].now) /\ unactioned(g))
  /\ thr' = [thr EXCEPT ![t].todo = @ \ {g}]
  /\ UNCHANGED <<day, gates, handle, audit, decisions, cleared>>

AuditEscalated(t) ==
  /\ thr[t].pc = "audit_escalated"
  /\ record(thr[t].gate, "escalated")
  /\ at(t, "sweep")
  /\ UNCHANGED <<day, gates, handle, decisions, cleared>>

EndSweep(t) ==
  /\ thr[t].pc = "sweep" /\ thr[t].todo = {}
  /\ returns(t)
  /\ UNCHANGED <<day, gates, handle, audit, decisions, cleared>>

-----------------------------------------------------------------------------
NextDay ==
  /\ day < MaxDay
  /\ day' = day + 1
  /\ UNCHANGED <<gates, handle, audit, thr, decisions, cleared>>

Call(t) ==
  \/ \E g \in Gates : \E p \in Assignees[g] : OpenGate(t, g, p)
  \/ \E g \in Gates, p \in People, c \in {"no", "yes"} : Decide(t, g, p, c)
  \/ Sweep(t)

Continue(t) ==
  \/ AuditOpened(t) \/ PutHandle(t)
  \/ Evaluate(t) \/ AuditRejected(t) \/ MarkActioned(t) \/ AlreadyActioned(t)
  \/ AuditActioned(t) \/ DeleteHandle(t)
  \/ \E g \in Gates : Escalate(t, g) \/ Skip(t, g)
  \/ AuditEscalated(t) \/ EndSweep(t)

Next == NextDay \/ \E t \in Threads : Call(t) \/ Continue(t)

Spec == Init /\ [][Next]_vars

-----------------------------------------------------------------------------
(* Properties.                                                             *)

PCs ==
  {"idle", "opened", "handle", "authority", "mark", "reject", "audit_actioned",
   "delete", "sweep", "audit_escalated"}

ThreadType ==
  [pc : PCs, gate : Gates \cup {NoGate}, approver : People \cup {NoOne},
   actor : People \cup {NoOne}, checked : {"no", "yes"}, late : {"no", "yes"},
   now : Nat, found : SUBSET Gates, todo : SUBSET Gates]

GateType ==
  [opened : Nat, escalated : {"no", "yes"}, since : Nat, actioned : {"no", "yes"},
   exists : {"no", "yes"}]

\* Every variable has its type.
TypeOK ==
  /\ day \in Nat
  /\ gates \in [Gates -> GateType]
  /\ handle \in [Gates -> People \cup {NoOne}]
  /\ audit \in [Gates -> [AuditKinds -> Nat]]
  /\ thr \in [Threads -> ThreadType]
  /\ decisions \in Nat
  /\ cleared \in [Gates -> [by : People \cup {NoOne}, approver : People \cup {NoOne},
                             checked : {"no", "yes"}, late : {"no", "yes"}]]

\* With the tracker's records in G, the actor may clear gate g whose default
\* approver is given: the backup once the escalation fired, before that the
\* default approver.  `late` is how it stood when the decision was called.
entitled(G, g, actor, approver, checked, late) ==
  /\ actor # TriggeredBy[g]
  /\ actor = approver \/ actor = Backup
  /\ late = "yes" => actor = Backup
  /\ G[g].escalated = "no" => actor = approver
  /\ KindOf[g] = "change_review" =>
       checked = "yes" /\ \A f \in Files : actor \in Owners[f]

\* A gate is cleared by someone entitled, however decisions and sweeps race:
\* never by the identity that triggered the run; by the backup only after the
\* escalation fired; by nobody but the backup when decide was called after it
\* fired; and a change review only by one person who owns every file.
ClearedByEntitled ==
  \A g \in Gates : gates[g].actioned = "yes" =>
    entitled(gates, g, cleared[g].by, cleared[g].approver, cleared[g].checked,
             cleared[g].late)

\* What the state machine of escalation.py:13-14 and current_authority's docstring
\* say: from ESCALATED only the backup's decision leads to ACTIONED.  The code
\* does not keep it: decide reads the authority, and an escalation that fires
\* before mark_actioned is not looked at again.
EscalatedNeedsBackup ==
  \A g \in Gates : gates[g].escalated = "yes" /\ gates[g].actioned = "yes" =>
    cleared[g].by = Backup

\* A decision is final: whatever a sweep read before, a gate that was actioned
\* is not escalated, actioned or opened again.
ActionedIsFinal ==
  [][\A g \in Gates : gates[g].actioned = "yes" =>
       gates'[g] = gates[g] /\ cleared'[g] = cleared[g]]_vars

at_work(pc, g) == Cardinality({t \in Threads : thr[t].pc = pc /\ thr[t].gate = g})

happened(flag) == IF flag = "yes" THEN 1 ELSE 0

\* The audit log tells the story once: one entry for every opening, decision
\* and escalation, none for what did not happen, but for the thread about to
\* write it.  An escalation is never silent and never logged twice.
AuditExact ==
  \A g \in Gates :
    /\ audit[g]["gate_opened"] + at_work("opened", g) = happened(gates[g].exists)
    /\ audit[g]["gate_actioned"] + at_work("audit_actioned", g) = happened(gates[g].actioned)
    /\ audit[g]["escalated"] + at_work("audit_escalated", g) = happened(gates[g].escalated)

\* A sweep leaves nothing behind: every gate it found open and past its SLA is
\* escalated or actioned when the sweep is past it.
SweepIsComplete ==
  \A t \in Threads : thr[t].pc \in {"sweep", "audit_escalated"} =>
    \A g \in thr[t].found \ thr[t].todo :
      is_sla_breached(g, thr[t].now) => ~unactioned(g)

\* The days after the first up to the last that are not Saturday or Sunday.
weekdays(first, last) == {d \in first + 1 .. last : d % 7 \notin {5, 6}}

\* Nobody is passed over early: between opening and escalation lie as many
\* weekdays as the SLA says, and the escalation is not dated in the future.
EscalatedAfterSla ==
  \A g \in Gates : gates[g].escalated = "yes" =>
    /\ Cardinality(weekdays(gates[g].opened, gates[g].since)) >= Sla[g]
    /\ gates[g].since <= day

\* When no call is under way, exactly the gates that were opened and not decided
\* can be decided.
HandlesMatchGates ==
  (\A t \in Threads : thr[t].pc = "idle") =>
    \A g \in Gates :
      handle[g] # NoOne <=> gates[g].exists = "yes" /\ gates[g].actioned = "no"

\* The records of a gate agree (escalation.py, gate_service.py): every event is
\* in the audit log once, an escalation waited for its SLA's weekdays, and the
\* gates that can be decided are the open ones.
RecordsAgree == TypeOK /\ AuditExact /\ EscalatedAfterSla /\ HandlesMatchGates

-----------------------------------------------------------------------------
(* The inductive invariant behind ClearedByEntitled and SweepIsComplete.   *)

AtGate ==
  {"opened", "handle", "authority", "mark", "reject", "audit_actioned", "delete",
   "audit_escalated"}

Sweeping == {"sweep", "audit_escalated"}

\* What a thread with record r relies on, with the tracker's records in G.
CallOK(G, r) ==
  /\ r.pc \in AtGate => r.gate \in Gates /\ G[r.gate].exists = "yes"
  /\ r.pc = "authority" => r.approver \in People
  /\ r.pc = "authority" /\ r.late = "yes" => G[r.gate].escalated = "yes"
  /\ r.pc = "mark" => entitled(G, r.gate, r.actor, r.approver, r.checked, r.late)
  /\ r.pc \in Sweeping => \A g \in r.found :
       /\ G[g].exists = "yes"
       /\ g \notin r.todo =>
            \/ ~(r.now >= add_business_days(G[g].opened, Sla[g]))
            \/ G[g].actioned = "yes" \/ G[g].escalated = "yes"

\* A gate that was not opened is not escalated, decided or open to decisions.
GateOK(g) ==
  gates[g].exists = "no" =>
    gates[g].escalated = "no" /\ gates[g].actioned = "no" /\ handle[g] = NoOne

IInv ==
  /\ TypeOK
  /\ \A t \in Threads : CallOK(gates, thr[t])
  /\ \A g \in Gates : GateOK(g)
  /\ ClearedByEntitled
=============================================================================
