--------------------------- MODULE JobDispatcher ---------------------------
(***************************************************************************)
(* The job dispatcher of one process (services/job-dispatcher): a webhook  *)
(* that passed authentication and tenant resolution asks for capacity, and *)
(* becomes a run or a queued trigger.                                      *)
(*                                                                         *)
(* The HTTP server runs one thread per request.  The first thread of a     *)
(* tenant that asks for capacity leads: it calls the provider; those that  *)
(* come before the leader has left the in-flight table wait for its        *)
(* outcome.  Setting the outcome of a pending request releases everyone    *)
(* who waits on it, in one step: a thread that wakes up later finds the    *)
(* same result.                                                            *)
(***************************************************************************)
EXTENDS Integers, Sequences, FiniteSets

CONSTANTS
  Threads,       \* request threads
  Tenants,       \* tenants
  Triggers,      \* resolved triggers
  TenantOf,      \* trigger -> its tenant
  MaxDeliveries, \* bound: deliveries of one trigger
  NoThread, NoTrigger

ASSUME DispatcherAssumption ==
  /\ TenantOf \in [Triggers -> Tenants]
  /\ MaxDeliveries \in Nat
  /\ NoThread \notin Threads
  /\ NoTrigger \notin Triggers

VARIABLES
  thr,        \* per thread: where it is, its trigger, whom it waits for
  inflight,   \* tenant -> the thread that leads its request, or NoThread
  queue,      \* tenant -> its queued triggers
  runs,       \* trigger -> runs created for it
  delivered,  \* trigger -> webhooks accepted for it
  refused,    \* trigger -> webhooks that ended in an exception
  dropped     \* trigger -> retries that ended in an exception: lost

vars == <<thr, inflight, queue, runs, delivered, refused, dropped>>

Idle == [pc |-> "idle", trigger |-> NoTrigger, leader |-> NoThread,
         outcome |-> "none", from |-> "webhook"]

Init ==
  /\ thr = [th \in Threads |-> Idle]
  /\ inflight = [t \in Tenants |-> NoThread]
  /\ queue = [t \in Tenants |-> <<>>]
  /\ runs = [g \in Triggers |-> 0]
  /\ delivered = [g \in Triggers |-> 0]
  /\ refused = [g \in Triggers |-> 0]
  /\ dropped = [g \in Triggers |-> 0]

Tenant(th) == TenantOf[thr[th].trigger]

-----------------------------------------------------------------------------
(* Entry points.                                                           *)

\* handle_webhook up to the ResolvedTrigger; a request that fails
\* authentication or resolution changes nothing.
HandleWebhook(th, g) ==
  /\ thr[th].pc = "idle"
  /\ delivered[g] < MaxDeliveries
  /\ delivered' = [delivered EXCEPT ![g] = @ + 1]
  /\ thr' = [thr EXCEPT ![th] = [Idle EXCEPT !.pc = "ask", !.trigger = g]]
  /\ UNCHANGED <<inflight, queue, runs, refused, dropped>>

\* Mutant: the oldest trigger is read and stays in the queue.
RetryQueued_peeks(th, t) ==
  /\ thr[th].pc = "idle"
  /\ queue[t] # <<>>
  /\ thr' = [thr EXCEPT ![th] = [Idle EXCEPT !.pc = "ask", !.trigger = Head(queue[t]),
                                             !.from = "retry"]]
  /\ UNCHANGED <<inflight, queue, runs, delivered, refused, dropped>>

\* retry_queued pops the oldest trigger and dispatches it.
RetryQueued(th, t) ==
  /\ thr[th].pc = "idle"
  /\ queue[t] # <<>>
  /\ queue' = [queue EXCEPT ![t] = Tail(@)]
  /\ thr' = [thr EXCEPT ![th] = [Idle EXCEPT !.pc = "ask", !.trigger = Head(queue[t]),
                                             !.from = "retry"]]
  /\ UNCHANGED <<inflight, runs, delivered, refused, dropped>>

-----------------------------------------------------------------------------
(* TenantCapacityCoordinator.request_capacity.                             *)

\* Mutant: the in-flight table is written but not consulted.
RequestCapacity_always_leads(th) ==
  /\ thr[th].pc = "ask"
  /\ inflight' = [inflight EXCEPT ![Tenant(th)] = th]
  /\ thr' = [thr EXCEPT ![th].pc = "lead"]
  /\ UNCHANGED <<queue, runs, delivered, refused, dropped>>

\* Under the lock: join the request in flight, or lead a new one.
RequestCapacity(th) ==
  LET leader == inflight[Tenant(th)]
  IN  /\ thr[th].pc = "ask"
      /\ IF leader # NoThread
           THEN /\ thr' = [thr EXCEPT ![th].pc = "wait", ![th].leader = leader]
                /\ UNCHANGED inflight
           ELSE /\ thr' = [thr EXCEPT ![th].pc = "lead"]
                /\ inflight' = [inflight EXCEPT ![Tenant(th)] = th]
      /\ UNCHANGED <<queue, runs, delivered, refused, dropped>>

\* The provider grants a node, has none (for either reason), or raises.
ProviderAnswers(th, outcome) ==
  /\ thr[th].pc = "lead"
  /\ thr' = [thr EXCEPT ![th].pc = "pop", ![th].outcome = outcome]
  /\ UNCHANGED <<inflight, queue, runs, delivered, refused, dropped>>

\* Mutant: the request stays in the table when the provider raised; a thread that
\* comes later waits for a leader that has gone.
Pop_not_on_exception(th) ==
  /\ thr[th].pc = "pop"
  /\ inflight' = IF thr[th].outcome = "raised" THEN inflight
                 ELSE [inflight EXCEPT ![Tenant(th)] = NoThread]
  /\ thr' = [thr EXCEPT ![th].pc = "publish"]
  /\ UNCHANGED <<queue, runs, delivered, refused, dropped>>

\* Under the lock: the request leaves the table before its outcome is set.
Pop(th) ==
  /\ thr[th].pc = "pop"
  /\ inflight' = [inflight EXCEPT ![Tenant(th)] = NoThread]
  /\ thr' = [thr EXCEPT ![th].pc = "publish"]
  /\ UNCHANGED <<queue, runs, delivered, refused, dropped>>

\* Where a thread goes on with an outcome.
after(outcome) ==
  CASE outcome = "available"   -> "create"
    [] outcome = "unavailable" -> "enqueue"
    [] OTHER                   -> "error"

released(x, th) == x = th \/ (thr[x].pc = "wait" /\ thr[x].leader = th)

\* Mutant: an exception of the provider is not passed on to those who wait.
Publish_keeps_exception(th) ==
  /\ thr[th].pc = "publish"
  /\ thr' = [x \in Threads |->
       IF x = th \/ (released(x, th) /\ thr[th].outcome # "raised")
         THEN [thr[x] EXCEPT !.pc = after(thr[th].outcome), !.outcome = thr[th].outcome,
                             !.leader = NoThread]
         ELSE thr[x]]
  /\ UNCHANGED <<inflight, queue, runs, delivered, refused, dropped>>

\* set_result or set_exception: the leader and all who wait for it go on.
Publish(th) ==
  /\ thr[th].pc = "publish"
  /\ thr' = [x \in Threads |->
       IF released(x, th)
         THEN [thr[x] EXCEPT !.pc = after(thr[th].outcome), !.outcome = thr[th].outcome,
                             !.leader = NoThread]
         ELSE thr[x]]
  /\ UNCHANGED <<inflight, queue, runs, delivered, refused, dropped>>

-----------------------------------------------------------------------------
(* _create_run, _queue_and_notify.                                         *)

CreateRun(th) ==
  /\ thr[th].pc = "create"
  /\ runs' = [runs EXCEPT ![thr[th].trigger] = @ + 1]
  /\ thr' = [thr EXCEPT ![th] = Idle]
  /\ UNCHANGED <<inflight, queue, delivered, refused, dropped>>

\* create_run fails: DispatchError.
CreateRunFails(th) ==
  /\ thr[th].pc = "create"
  /\ thr' = [thr EXCEPT ![th].pc = "error"]
  /\ UNCHANGED <<inflight, queue, runs, delivered, refused, dropped>>

\* The exception leaves the entry point.  A webhook is answered 502 (DispatchError)
\* or not at all (an exception of the provider closes the connection), and its
\* sender knows; after a retry the trigger is in no queue.
Fail(th) ==
  LET g == thr[th].trigger
  IN  /\ thr[th].pc = "error"
      /\ IF thr[th].from = "webhook"
           THEN refused' = [refused EXCEPT ![g] = @ + 1] /\ UNCHANGED dropped
           ELSE dropped' = [dropped EXCEPT ![g] = @ + 1] /\ UNCHANGED refused
      /\ thr' = [thr EXCEPT ![th] = Idle]
      /\ UNCHANGED <<inflight, queue, runs, delivered>>

Enqueue(th) ==
  /\ thr[th].pc = "enqueue"
  /\ queue' = [queue EXCEPT ![Tenant(th)] = Append(@, thr[th].trigger)]
  /\ thr' = [thr EXCEPT ![th].pc = "comment"]
  /\ UNCHANGED <<inflight, runs, delivered, refused, dropped>>

\* The comment is posted, refused, or raises; the trigger stays queued and the
\* request ends.
PostDelayComment(th) ==
  /\ thr[th].pc = "comment"
  /\ thr' = [thr EXCEPT ![th] = Idle]
  /\ UNCHANGED <<inflight, queue, runs, delivered, refused, dropped>>

-----------------------------------------------------------------------------
ThreadStep(th) ==
  \/ RequestCapacity(th)
  \/ \E outcome \in {"available", "unavailable", "raised"} : ProviderAnswers(th, outcome)
  \/ Pop(th) \/ Publish(th)
  \/ CreateRun(th) \/ CreateRunFails(th) \/ Fail(th)
  \/ Enqueue(th) \/ PostDelayComment(th)

Next ==
  \E th \in Threads :
    \/ \E g \in Triggers : HandleWebhook(th, g)
    \/ \E t \in Tenants : RetryQueued(th, t)
    \/ ThreadStep(th)

Spec == Init /\ [][Next]_vars

\* A request thread runs on: the locks are held for a moment, and the provider
\* and the registry return or raise.
FairSpec == Spec /\ \A th \in Threads : WF_vars(ThreadStep(th))

-----------------------------------------------------------------------------
(* Properties.                                                             *)

PCs ==
  {"idle", "ask", "lead", "wait", "pop", "publish", "create", "enqueue", "comment",
   "error"}

ThreadType ==
  [pc : PCs, trigger : Triggers \cup {NoTrigger}, leader : Threads \cup {NoThread},
   outcome : {"none", "available", "unavailable", "raised"},
   from : {"webhook", "retry"}]

\* Every variable has its type; a thread at work has a trigger.
TypeOK ==
  /\ thr \in [Threads -> ThreadType]
  /\ inflight \in [Tenants -> Threads \cup {NoThread}]
  /\ queue \in [Tenants -> Seq(Triggers)]
  /\ runs \in [Triggers -> Nat]
  /\ delivered \in [Triggers -> Nat]
  /\ refused \in [Triggers -> Nat]
  /\ dropped \in [Triggers -> Nat]
  /\ \A th \in Threads : thr[th].pc # "idle" => thr[th].trigger \in Triggers

\* A burst of triggers for one tenant makes one scale-up: no two threads are in
\* the provider for the same tenant.
OneScaleUpPerTenant ==
  \A x, y \in Threads :
    x # y /\ thr[x].pc = "lead" /\ thr[y].pc = "lead" => Tenant(x) # Tenant(y)

\* Nobody is left waiting: whoever waits, waits for a thread that will still
\* publish an outcome, of the waiter's own tenant.
NobodyStranded ==
  \A x \in Threads : thr[x].pc = "wait" =>
    /\ thr[x].leader \in Threads
    /\ thr[thr[x].leader].pc \in {"lead", "pop", "publish"}
    /\ Tenant(thr[x].leader) = Tenant(x)

\* The in-flight table: exactly the threads between joining and leaving it.
TableIsExact ==
  /\ \A x \in Threads : thr[x].pc \in {"lead", "pop"} => inflight[Tenant(x)] = x
  /\ \A t \in Tenants : inflight[t] # NoThread =>
       thr[inflight[t]].pc \in {"lead", "pop"} /\ Tenant(inflight[t]) = t

\* Tenants never share a queue.
QueuesAreTenants ==
  \A t \in Tenants : \A i \in 1 .. Len(queue[t]) : TenantOf[queue[t][i]] = t

Copies(g) ==
  Cardinality({i \in 1 .. Len(queue[TenantOf[g]]) : queue[TenantOf[g]][i] = g})

InHand(g) == {th \in Threads : thr[th].trigger = g /\ thr[th].pc # "comment"}

\* Every accepted webhook is accounted for exactly once: a run, a queue entry, a
\* thread at work on it, a request its sender saw fail, or a retry that raised.
\* None is run twice, and a retry that raised is the only way a trigger is lost
\* (dispatcher.py:147-150).
EveryTriggerAccountedFor ==
  \A g \in Triggers :
    delivered[g] = runs[g] + Copies(g) + Cardinality(InHand(g)) + refused[g] + dropped[g]

\* What tenant_queue.py:20-21 and the posted comment promise, "queued, not dropped":
\* a trigger whose sender was not answered with a failure is a run, in the queue or
\* in a thread's hands.  The code does not keep it: retry_queued takes the trigger
\* out of the queue, and an exception of the dispatch leaves it nowhere.
QueuedNotDropped ==
  \A g \in Triggers :
    delivered[g] - refused[g] <= runs[g] + Copies(g) + Cardinality(InHand(g))

\* Every request comes to its end, those that wait for another thread's outcome
\* included, also when the provider raises.
EveryRequestAnswered == \A th \in Threads : thr[th].pc # "idle" ~> thr[th].pc = "idle"

\* The coordinator (tenant_queue.py): its table is exact, whoever waits will be
\* woken by a leader of the own tenant, and tenants never share a queue.  This
\* conjunction is inductive.
IInv == TypeOK /\ TableIsExact /\ NobodyStranded /\ QueuesAreTenants
=============================================================================
