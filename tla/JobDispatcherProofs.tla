------------------------ MODULE JobDispatcherProofs ------------------------
(***************************************************************************)
(* Theorems about JobDispatcher, for any number of threads, tenants and    *)
(* triggers: coalescing is exact, and every trigger is accounted for.  And *)
(* about IssueTracker, whose relay sends the triggers: for any number of   *)
(* callers, whatever requests are lost, late or retried, the answers are   *)
(* true, no issue is made twice unless creations race, and a dispatch is   *)
(* accepted for an issue that was opted in.                                *)
(***************************************************************************)
EXTENDS JobDispatcher, IssueTracker, FiniteSetTheorems, TLAPS

\* Everything is empty at the start.
LEMMA InitIInv == Init => IInv
  <1> SUFFICES ASSUME Init PROVE IInv
    OBVIOUS
  <1>1. Idle \in ThreadType
    BY DEF Idle, ThreadType, PCs
  <1>2. TypeOK
    BY <1>1, DispatcherAssumption DEF Init, TypeOK, Idle
  <1>3. TableIsExact /\ NobodyStranded /\ QueuesAreTenants
    BY DispatcherAssumption DEF Init, TableIsExact, NobodyStranded, QueuesAreTenants, Idle
  <1>. QED BY <1>2, <1>3 DEF IInv

\* What a step of one thread leaves of the records of the others.
LEMMA Moves ==
  ASSUME TypeOK, NEW th \in Threads, NEW r \in ThreadType,
         thr' = [thr EXCEPT ![th] = r]
  PROVE  /\ thr' \in [Threads -> ThreadType]
         /\ thr'[th] = r
         /\ \A x \in Threads : x # th => thr'[x] = thr[x]
  BY DEF TypeOK

\* The places of request_capacity: a thread there is known to others.
Coordinating == {"lead", "wait", "pop", "publish"}

\* A thread that moves outside request_capacity disturbs nobody.
LEMMA OutsideStep ==
  ASSUME IInv, NEW th \in Threads, NEW r \in ThreadType,
         thr[th].pc \notin Coordinating, r.pc \notin Coordinating,
         r.pc # "idle" => r.trigger \in Triggers,
         thr' = [thr EXCEPT ![th] = r],
         UNCHANGED inflight
  PROVE  /\ thr' \in [Threads -> ThreadType]
         /\ \A x \in Threads : thr'[x].pc # "idle" => thr'[x].trigger \in Triggers
         /\ TableIsExact' /\ NobodyStranded'
  <1>1. /\ thr' \in [Threads -> ThreadType]
        /\ thr'[th] = r
        /\ \A x \in Threads : x # th => thr'[x] = thr[x]
    BY Moves DEF IInv
  <1>2. \A x \in Threads : thr'[x].pc # "idle" => thr'[x].trigger \in Triggers
    BY <1>1 DEF IInv, TypeOK
  <1>3. TableIsExact'
    BY <1>1, DispatcherAssumption DEF IInv, TypeOK, TableIsExact, Tenant, Coordinating
  <1>4. NobodyStranded'
    BY <1>1, DispatcherAssumption DEF IInv, TypeOK, NobodyStranded, Tenant, Coordinating
  <1>. QED BY <1>1, <1>2, <1>3, <1>4

\* A thread keeps its trigger while its place changes.
LEMMA PlaceChange ==
  ASSUME NEW a \in ThreadType, NEW p \in PCs
  PROVE  /\ [a EXCEPT !.pc = p] \in ThreadType
         /\ [a EXCEPT !.pc = p].pc = p
         /\ [a EXCEPT !.pc = p].trigger = a.trigger
  BY DEF ThreadType

\* A webhook is accepted.
LEMMA WebhookStep ==
  ASSUME IInv, NEW th \in Threads, NEW g \in Triggers, HandleWebhook(th, g)
  PROVE  IInv'
  <1> DEFINE r == [Idle EXCEPT !.pc = "ask", !.trigger = g]
  <1>1. r \in ThreadType /\ r.pc = "ask" /\ r.trigger = g
    BY DEF Idle, ThreadType, PCs
  <1>2. thr' = [thr EXCEPT ![th] = r] /\ thr[th].pc = "idle" /\ UNCHANGED inflight
    BY DEF HandleWebhook
  <1> HIDE DEF r
  <1>3. /\ thr' \in [Threads -> ThreadType]
        /\ \A x \in Threads : thr'[x].pc # "idle" => thr'[x].trigger \in Triggers
        /\ TableIsExact' /\ NobodyStranded'
    BY <1>1, <1>2, OutsideStep DEF Coordinating
  <1>4. TypeOK' /\ QueuesAreTenants'
    BY <1>3 DEF IInv, TypeOK, QueuesAreTenants, HandleWebhook
  <1>. QED BY <1>3, <1>4 DEF IInv

\* The oldest queued trigger is taken out of its queue.
LEMMA RetryStep ==
  ASSUME IInv, NEW th \in Threads, NEW t \in Tenants, RetryQueued(th, t)
  PROVE  IInv'
  <1> DEFINE g == Head(queue[t])
             r == [Idle EXCEPT !.pc = "ask", !.trigger = g, !.from = "retry"]
  <1>1. queue[t] \in Seq(Triggers) /\ queue[t] # <<>>
    BY DEF IInv, TypeOK, RetryQueued
  <1>2. g \in Triggers
    BY <1>1
  <1>3. r \in ThreadType /\ r.pc = "ask" /\ r.trigger = g
    BY <1>2 DEF Idle, ThreadType, PCs
  <1>4. thr' = [thr EXCEPT ![th] = r] /\ thr[th].pc = "idle" /\ UNCHANGED inflight
    BY DEF RetryQueued
  <1>5. /\ Tail(queue[t]) \in Seq(Triggers)
        /\ Len(Tail(queue[t])) = Len(queue[t]) - 1
        /\ \A i \in 1 .. Len(queue[t]) - 1 : Tail(queue[t])[i] = queue[t][i + 1]
    BY <1>1
  <1> HIDE DEF g, r
  <1>6. /\ thr' \in [Threads -> ThreadType]
        /\ \A x \in Threads : thr'[x].pc # "idle" => thr'[x].trigger \in Triggers
        /\ TableIsExact' /\ NobodyStranded'
    BY <1>2, <1>3, <1>4, OutsideStep DEF Coordinating
  <1>7. queue' = [queue EXCEPT ![t] = Tail(queue[t])]
    BY DEF RetryQueued
  <1>8. TypeOK'
    BY <1>5, <1>6, <1>7 DEF IInv, TypeOK, RetryQueued
  <1>9. QueuesAreTenants'
    <2>1. ASSUME NEW u \in Tenants, NEW i \in 1 .. Len(queue'[u])
          PROVE  TenantOf[queue'[u][i]] = u
      <3>1. CASE u = t
        <4>1. queue'[u] = Tail(queue[t])
          BY <3>1, <1>7 DEF IInv, TypeOK
        <4>2. Len(queue[t]) \in Nat
          BY <1>1
        <4>3. i \in 1 .. Len(queue[t]) - 1 /\ i + 1 \in 1 .. Len(queue[t])
          BY <4>1, <4>2, <1>5
        <4>. QED BY <4>1, <4>3, <1>5, <3>1 DEF IInv, QueuesAreTenants
      <3>2. CASE u # t
        <4>1. queue'[u] = queue[u]
          BY <3>2, <1>7 DEF IInv, TypeOK
        <4>. QED BY <4>1 DEF IInv, QueuesAreTenants
      <3>. QED BY <3>1, <3>2
    <2>. QED BY <2>1 DEF QueuesAreTenants
  <1>. QED BY <1>6, <1>8, <1>9 DEF IInv

\* A step that ends the work of a thread outside request_capacity.
LEMMA IdleStep ==
  ASSUME IInv, NEW th \in Threads, thr[th].pc \notin Coordinating,
         thr' = [thr EXCEPT ![th] = Idle], UNCHANGED inflight
  PROVE  /\ thr' \in [Threads -> ThreadType]
         /\ \A x \in Threads : thr'[x].pc # "idle" => thr'[x].trigger \in Triggers
         /\ TableIsExact' /\ NobodyStranded'
  <1>1. Idle \in ThreadType /\ Idle.pc = "idle"
    BY DEF Idle, ThreadType, PCs
  <1>. QED BY <1>1, OutsideStep DEF Coordinating

\* The run is created, or not, and the request is answered.
LEMMA AnswerStep ==
  ASSUME IInv, NEW th \in Threads,
         CreateRun(th) \/ Fail(th) \/ PostDelayComment(th)
  PROVE  IInv'
  <1>1. /\ thr[th].pc \in {"create", "error", "comment"}
        /\ thr' = [thr EXCEPT ![th] = Idle] /\ UNCHANGED <<inflight, queue>>
    BY DEF CreateRun, Fail, PostDelayComment
  <1>2. /\ thr' \in [Threads -> ThreadType]
        /\ \A x \in Threads : thr'[x].pc # "idle" => thr'[x].trigger \in Triggers
        /\ TableIsExact' /\ NobodyStranded'
    BY <1>1, IdleStep DEF Coordinating
  <1>3. thr[th].trigger \in Triggers
    BY <1>1 DEF IInv, TypeOK
  <1>4. /\ runs' \in [Triggers -> Nat] /\ delivered' \in [Triggers -> Nat]
        /\ refused' \in [Triggers -> Nat] /\ dropped' \in [Triggers -> Nat]
    <2>1. CASE CreateRun(th)
      BY <2>1, <1>3 DEF IInv, TypeOK, CreateRun
    <2>2. CASE Fail(th)
      BY <2>2, <1>3 DEF IInv, TypeOK, Fail
    <2>3. CASE PostDelayComment(th)
      BY <2>3 DEF IInv, TypeOK, PostDelayComment
    <2>. QED BY <2>1, <2>2, <2>3
  <1>5. TypeOK' /\ QueuesAreTenants'
    BY <1>1, <1>2, <1>4 DEF IInv, TypeOK, QueuesAreTenants
  <1>. QED BY <1>2, <1>5 DEF IInv

\* The registry refuses the run.
LEMMA CreateRunFailsStep ==
  ASSUME IInv, NEW th \in Threads, CreateRunFails(th)
  PROVE  IInv'
  <1> DEFINE r == [thr[th] EXCEPT !.pc = "error"]
  <1>1. thr[th].pc = "create" /\ thr[th] \in ThreadType /\ thr[th].trigger \in Triggers
    BY DEF IInv, TypeOK, CreateRunFails
  <1>2. r \in ThreadType /\ r.pc = "error" /\ r.trigger \in Triggers
    BY <1>1, PlaceChange DEF PCs
  <1>3. thr' = [thr EXCEPT ![th] = r] /\ UNCHANGED inflight
    BY DEF CreateRunFails
  <1> HIDE DEF r
  <1>4. /\ thr' \in [Threads -> ThreadType]
        /\ \A x \in Threads : thr'[x].pc # "idle" => thr'[x].trigger \in Triggers
        /\ TableIsExact' /\ NobodyStranded'
    BY <1>1, <1>2, <1>3, OutsideStep DEF Coordinating
  <1>5. TypeOK' /\ QueuesAreTenants'
    BY <1>4 DEF IInv, TypeOK, QueuesAreTenants, CreateRunFails
  <1>. QED BY <1>4, <1>5 DEF IInv

\* The trigger is queued with its own tenant.
LEMMA EnqueueStep ==
  ASSUME IInv, NEW th \in Threads, Enqueue(th)
  PROVE  IInv'
  <1> DEFINE r == [thr[th] EXCEPT !.pc = "comment"]
             g == thr[th].trigger
             t == Tenant(th)
  <1>1. thr[th].pc = "enqueue" /\ thr[th] \in ThreadType /\ g \in Triggers
    BY DEF IInv, TypeOK, Enqueue
  <1>2. r \in ThreadType /\ r.pc = "comment" /\ r.trigger \in Triggers
    BY <1>1, PlaceChange DEF PCs
  <1>3. thr' = [thr EXCEPT ![th] = r] /\ UNCHANGED inflight
    BY DEF Enqueue
  <1>4. t \in Tenants /\ TenantOf[g] = t
    BY <1>1, DispatcherAssumption DEF Tenant
  <1>5. queue' = [queue EXCEPT ![t] = Append(queue[t], g)]
    BY DEF Enqueue
  <1> HIDE DEF r, g, t
  <1>6. queue[t] \in Seq(Triggers)
    BY <1>4 DEF IInv, TypeOK
  <1>7. /\ Append(queue[t], g) \in Seq(Triggers)
        /\ Len(Append(queue[t], g)) = Len(queue[t]) + 1
        /\ Len(queue[t]) \in Nat
        /\ Append(queue[t], g)[Len(queue[t]) + 1] = g
        /\ \A i \in 1 .. Len(queue[t]) : Append(queue[t], g)[i] = queue[t][i]
    BY <1>6, <1>1
  <1>8. /\ thr' \in [Threads -> ThreadType]
        /\ \A x \in Threads : thr'[x].pc # "idle" => thr'[x].trigger \in Triggers
        /\ TableIsExact' /\ NobodyStranded'
    BY <1>1, <1>2, <1>3, OutsideStep DEF Coordinating
  <1>9. TypeOK'
    BY <1>5, <1>7, <1>8 DEF IInv, TypeOK, Enqueue
  <1>10. QueuesAreTenants'
    <2>1. ASSUME NEW u \in Tenants, NEW i \in 1 .. Len(queue'[u])
          PROVE  TenantOf[queue'[u][i]] = u
      <3>1. CASE u = t
        <4>1. queue'[u] = Append(queue[t], g)
          BY <3>1, <1>5 DEF IInv, TypeOK
        <4>2. i = Len(queue[t]) + 1 \/ i \in 1 .. Len(queue[t])
          BY <4>1, <1>7
        <4>. QED BY <4>1, <4>2, <1>4, <1>7, <3>1 DEF IInv, QueuesAreTenants
      <3>2. CASE u # t
        <4>1. queue'[u] = queue[u]
          BY <3>2, <1>5 DEF IInv, TypeOK
        <4>. QED BY <4>1 DEF IInv, QueuesAreTenants
      <3>. QED BY <3>1, <3>2
    <2>. QED BY <2>1 DEF QueuesAreTenants
  <1>. QED BY <1>8, <1>9, <1>10 DEF IInv

\* A step of one thread that keeps its trigger, and that stays before its
\* publication when it was, strands nobody.
LEMMA WaitersKept ==
  ASSUME IInv, NEW th \in Threads, NEW r \in ThreadType,
         thr' = [thr EXCEPT ![th] = r],
         r.trigger = thr[th].trigger, r.pc # "wait",
         thr[th].pc \in {"lead", "pop", "publish"} => r.pc \in {"lead", "pop", "publish"}
  PROVE  NobodyStranded'
  <1>1. /\ thr'[th] = r
        /\ \A x \in Threads : x # th => thr'[x] = thr[x]
    BY Moves DEF IInv
  <1>2. ASSUME NEW x \in Threads, thr'[x].pc = "wait"
        PROVE  /\ thr'[x].leader \in Threads
               /\ thr'[thr'[x].leader].pc \in {"lead", "pop", "publish"}
               /\ TenantOf[thr'[thr'[x].leader].trigger] = TenantOf[thr'[x].trigger]
    <2>1. x # th /\ thr'[x] = thr[x]
      BY <1>1, <1>2
    <2> DEFINE l == thr[x].leader
    <2>2. /\ l \in Threads /\ thr[l].pc \in {"lead", "pop", "publish"}
          /\ TenantOf[thr[l].trigger] = TenantOf[thr[x].trigger]
      BY <2>1, <1>2 DEF IInv, NobodyStranded, Tenant
    <2> HIDE DEF l
    <2>3. thr'[l].pc \in {"lead", "pop", "publish"} /\ thr'[l].trigger = thr[l].trigger
      BY <2>2, <1>1
    <2>. QED BY <2>1, <2>2, <2>3 DEF l
  <1>. QED BY <1>2 DEF NobodyStranded, Tenant

\* A thread joins the request in flight of its tenant, or leads one.
LEMMA RequestCapacityStep ==
  ASSUME IInv, NEW th \in Threads, RequestCapacity(th)
  PROVE  IInv'
  <1> DEFINE t == Tenant(th)
             l == inflight[t]
  <1>1. /\ thr[th].pc = "ask" /\ thr[th] \in ThreadType
        /\ thr[th].trigger \in Triggers
    BY DEF IInv, TypeOK, RequestCapacity
  <1>2. t \in Tenants /\ TenantOf[thr[th].trigger] = t
    BY <1>1, DispatcherAssumption DEF Tenant
  <1>3. l \in Threads \cup {NoThread}
    BY <1>2 DEF IInv, TypeOK
  <1>4. CASE l # NoThread
    <2> DEFINE r == [thr[th] EXCEPT !.pc = "wait", !.leader = l]
    <2>1. r \in ThreadType /\ r.pc = "wait" /\ r.leader = l /\ r.trigger = thr[th].trigger
      BY <1>1, <1>3 DEF ThreadType, PCs
    <2>2. thr' = [thr EXCEPT ![th] = r] /\ UNCHANGED inflight
      BY <1>4 DEF RequestCapacity
    <2>3. /\ l \in Threads /\ thr[l].pc \in {"lead", "pop"} /\ Tenant(l) = t
      BY <1>2, <1>3, <1>4 DEF IInv, TableIsExact
    <2> HIDE DEF r, l, t
    <2>4. /\ thr' \in [Threads -> ThreadType]
          /\ thr'[th] = r
          /\ \A x \in Threads : x # th => thr'[x] = thr[x]
      BY <2>1, <2>2, Moves DEF IInv
    <2>5. th # l
      BY <2>3, <1>1
    <2>6. TypeOK' /\ QueuesAreTenants'
      BY <2>1, <2>2, <2>4, <1>1 DEF IInv, TypeOK, QueuesAreTenants, RequestCapacity
    <2>7. TableIsExact'
      BY <2>1, <2>2, <2>4, <1>1 DEF IInv, TypeOK, TableIsExact, Tenant
    <2>8. NobodyStranded'
      <3>1. ASSUME NEW x \in Threads, thr'[x].pc = "wait"
            PROVE  /\ thr'[x].leader \in Threads
                   /\ thr'[thr'[x].leader].pc \in {"lead", "pop", "publish"}
                   /\ TenantOf[thr'[thr'[x].leader].trigger] = TenantOf[thr'[x].trigger]
        <4>1. CASE x = th
          BY <4>1, <2>1, <2>3, <2>4, <2>5, <1>2 DEF Tenant
        <4>2. CASE x # th
          <5> DEFINE k == thr[x].leader
          <5>1. /\ k \in Threads /\ thr[k].pc \in {"lead", "pop", "publish"}
                /\ TenantOf[thr[k].trigger] = TenantOf[thr[x].trigger]
            BY <4>2, <3>1, <2>4 DEF IInv, NobodyStranded, Tenant
          <5>2. k # th /\ thr'[k] = thr[k] /\ thr'[x] = thr[x]
            BY <5>1, <4>2, <2>4, <1>1
          <5>. QED BY <5>1, <5>2
        <4>. QED BY <4>1, <4>2
      <3>. QED BY <3>1 DEF NobodyStranded, Tenant
    <2>. QED BY <2>6, <2>7, <2>8 DEF IInv
  <1>5. CASE l = NoThread
    <2> DEFINE r == [thr[th] EXCEPT !.pc = "lead"]
    <2>1. r \in ThreadType /\ r.pc = "lead" /\ r.trigger = thr[th].trigger
      BY <1>1, PlaceChange DEF PCs
    <2>2. thr' = [thr EXCEPT ![th] = r] /\ inflight' = [inflight EXCEPT ![t] = th]
      BY <1>5 DEF RequestCapacity
    <2>3. /\ inflight' \in [Tenants -> Threads \cup {NoThread}] /\ inflight'[t] = th
          /\ \A u \in Tenants : u # t => inflight'[u] = inflight[u]
      BY <2>2, <1>2 DEF IInv, TypeOK
    <2>4. inflight[t] = NoThread
      BY <1>5
    <2> HIDE DEF r, l, t
    <2>5. /\ thr' \in [Threads -> ThreadType]
          /\ thr'[th] = r
          /\ \A x \in Threads : x # th => thr'[x] = thr[x]
      BY <2>1, <2>2, Moves DEF IInv
    <2>6. TypeOK' /\ QueuesAreTenants'
      BY <2>1, <2>3, <2>5, <1>1 DEF IInv, TypeOK, QueuesAreTenants, RequestCapacity
    <2>7. \A x \in Threads : x # th /\ thr[x].pc \in {"lead", "pop"} => Tenant(x) # t
      BY <2>4, DispatcherAssumption DEF IInv, TableIsExact
    <2>8. ASSUME NEW x \in Threads, thr'[x].pc \in {"lead", "pop"}
          PROVE  inflight'[TenantOf[thr'[x].trigger]] = x
      <3>1. CASE x = th
        BY <3>1, <2>1, <2>3, <2>5, <1>2
      <3>2. CASE x # th
        <4>1. thr'[x] = thr[x] /\ thr[x].trigger \in Triggers
          BY <3>2, <2>5, <2>8 DEF IInv, TypeOK
        <4>2. TenantOf[thr[x].trigger] \in Tenants /\ TenantOf[thr[x].trigger] # t
          BY <4>1, <3>2, <2>7, <2>8, DispatcherAssumption DEF Tenant
        <4>. QED BY <4>1, <4>2, <2>3, <2>8 DEF IInv, TableIsExact, Tenant
      <3>. QED BY <3>1, <3>2
    <2>9. ASSUME NEW u \in Tenants, inflight'[u] # NoThread
          PROVE  /\ thr'[inflight'[u]].pc \in {"lead", "pop"}
                 /\ TenantOf[thr'[inflight'[u]].trigger] = u
      <3>1. CASE u = t
        BY <3>1, <2>1, <2>3, <2>5, <1>2
      <3>2. CASE u # t
        <4> DEFINE k == inflight[u]
        <4>1. inflight'[u] = k /\ k \in Threads
          BY <3>2, <2>3, <2>9 DEF IInv, TypeOK
        <4>2. thr[k].pc \in {"lead", "pop"} /\ TenantOf[thr[k].trigger] = u
          BY <4>1, <2>9 DEF IInv, TableIsExact, Tenant
        <4>3. k # th
          BY <4>2, <1>1
        <4>. QED BY <4>1, <4>2, <4>3, <2>5
      <3>. QED BY <3>1, <3>2
    <2>10. NobodyStranded'
      BY <2>1, <2>2, <1>1, WaitersKept
    <2>. QED BY <2>6, <2>8, <2>9, <2>10 DEF IInv, TableIsExact, Tenant
  <1>. QED BY <1>4, <1>5

\* The provider returns to the leader, which still holds its entry.
LEMMA ProviderStep ==
  ASSUME IInv, NEW th \in Threads,
         NEW outcome \in {"available", "unavailable", "raised"},
         ProviderAnswers(th, outcome)
  PROVE  IInv'
  <1> DEFINE r == [thr[th] EXCEPT !.pc = "pop", !.outcome = outcome]
  <1>1. /\ thr[th].pc = "lead" /\ thr[th] \in ThreadType
        /\ thr[th].trigger \in Triggers
    BY DEF IInv, TypeOK, ProviderAnswers
  <1>2. r \in ThreadType /\ r.pc = "pop" /\ r.trigger = thr[th].trigger
    BY <1>1 DEF ThreadType, PCs
  <1>3. thr' = [thr EXCEPT ![th] = r] /\ UNCHANGED inflight
    BY DEF ProviderAnswers
  <1> HIDE DEF r
  <1>4. /\ thr' \in [Threads -> ThreadType]
        /\ thr'[th] = r
        /\ \A x \in Threads : x # th => thr'[x] = thr[x]
    BY <1>2, <1>3, Moves DEF IInv
  <1>5. TypeOK' /\ QueuesAreTenants'
    BY <1>1, <1>2, <1>4 DEF IInv, TypeOK, QueuesAreTenants, ProviderAnswers
  <1>6. TableIsExact'
    BY <1>1, <1>2, <1>3, <1>4 DEF IInv, TypeOK, TableIsExact, Tenant
  <1>7. NobodyStranded'
    BY <1>1, <1>2, <1>3, WaitersKept
  <1>. QED BY <1>5, <1>6, <1>7 DEF IInv

\* The leader leaves the table; those who wait for it still do.
LEMMA PopStep ==
  ASSUME IInv, NEW th \in Threads, Pop(th)
  PROVE  IInv'
  <1> DEFINE r == [thr[th] EXCEPT !.pc = "publish"]
             t == Tenant(th)
  <1>1. /\ thr[th].pc = "pop" /\ thr[th] \in ThreadType
        /\ thr[th].trigger \in Triggers
    BY DEF IInv, TypeOK, Pop
  <1>2. r \in ThreadType /\ r.pc = "publish" /\ r.trigger = thr[th].trigger
    BY <1>1, PlaceChange DEF PCs
  <1>3. thr' = [thr EXCEPT ![th] = r] /\ inflight' = [inflight EXCEPT ![t] = NoThread]
    BY DEF Pop
  <1>4. t \in Tenants /\ TenantOf[thr[th].trigger] = t /\ inflight[t] = th
    BY <1>1, DispatcherAssumption DEF IInv, TableIsExact, Tenant
  <1>5. /\ inflight' \in [Tenants -> Threads \cup {NoThread}] /\ inflight'[t] = NoThread
        /\ \A u \in Tenants : u # t => inflight'[u] = inflight[u]
    BY <1>3, <1>4 DEF IInv, TypeOK
  <1> HIDE DEF r, t
  <1>6. /\ thr' \in [Threads -> ThreadType]
        /\ thr'[th] = r
        /\ \A x \in Threads : x # th => thr'[x] = thr[x]
    BY <1>2, <1>3, Moves DEF IInv
  <1>7. TypeOK' /\ QueuesAreTenants'
    BY <1>1, <1>2, <1>5, <1>6 DEF IInv, TypeOK, QueuesAreTenants, Pop
  <1>8. ASSUME NEW x \in Threads, thr'[x].pc \in {"lead", "pop"}
        PROVE  inflight'[TenantOf[thr'[x].trigger]] = x
    <2>1. x # th /\ thr'[x] = thr[x] /\ thr[x].trigger \in Triggers
      BY <1>2, <1>6, <1>8 DEF IInv, TypeOK
    <2> DEFINE u == TenantOf[thr[x].trigger]
    <2>2. u \in Tenants /\ inflight[u] = x
      BY <2>1, <1>8, DispatcherAssumption DEF IInv, TableIsExact, Tenant
    <2>. QED BY <2>1, <2>2, <1>4, <1>5
  <1>9. ASSUME NEW u \in Tenants, inflight'[u] # NoThread
        PROVE  /\ thr'[inflight'[u]].pc \in {"lead", "pop"}
               /\ TenantOf[thr'[inflight'[u]].trigger] = u
    <2> DEFINE k == inflight[u]
    <2>1. u # t /\ inflight'[u] = k /\ k \in Threads
      BY <1>5, <1>9 DEF IInv, TypeOK
    <2>2. thr[k].pc \in {"lead", "pop"} /\ TenantOf[thr[k].trigger] = u
      BY <2>1, <1>9 DEF IInv, TableIsExact, Tenant
    <2>3. k # th
      BY <2>1, <2>2, <1>4
    <2>. QED BY <2>1, <2>2, <2>3, <1>6
  <1>10. NobodyStranded'
    BY <1>1, <1>2, <1>3, WaitersKept
  <1>. QED BY <1>7, <1>8, <1>9, <1>10 DEF IInv, TableIsExact, Tenant

\* The outcome is published: everyone who waited for this leader goes on, and
\* nobody else waited for it.
LEMMA PublishStep ==
  ASSUME IInv, NEW th \in Threads, Publish(th)
  PROVE  IInv'
  <1> DEFINE p == after(thr[th].outcome)
             new(x) == [thr[x] EXCEPT !.pc = p, !.outcome = thr[th].outcome,
                                      !.leader = NoThread]
  <1>1. thr[th].pc = "publish" /\ thr[th] \in ThreadType
    BY DEF IInv, TypeOK, Publish
  <1>2. p \in {"create", "enqueue", "error"} /\ p \in PCs
    BY DEF after, PCs
  <1>3. ASSUME NEW x \in Threads
        PROVE  /\ new(x) \in ThreadType /\ new(x).pc = p
               /\ new(x).trigger = thr[x].trigger
    <2>1. thr[x] \in ThreadType
      BY DEF IInv, TypeOK
    <2> HIDE DEF p
    <2>. QED BY <1>1, <1>2, <2>1 DEF ThreadType
  <1>4. thr' = [x \in Threads |-> IF released(x, th) THEN new(x) ELSE thr[x]]
    BY DEF Publish
  <1>5. UNCHANGED <<inflight, queue, runs, delivered, refused, dropped>>
    BY DEF Publish
  <1> HIDE DEF new, p
  <1>6. ASSUME NEW x \in Threads
        PROVE  /\ thr'[x] \in ThreadType /\ thr'[x].trigger = thr[x].trigger
               /\ released(x, th) => thr'[x].pc = p
               /\ ~released(x, th) => thr'[x] = thr[x]
    BY <1>3, <1>4 DEF IInv, TypeOK
  <1>7. thr' \in [Threads -> ThreadType]
    <2>1. thr' = [x \in Threads |-> thr'[x]]
      BY <1>4
    <2>. QED BY <1>6, <2>1
  <1>8. ASSUME NEW x \in Threads, released(x, th)
        PROVE  thr[x].pc \in {"publish", "wait"}
    BY <1>1, <1>8 DEF released
  <1>9. ASSUME NEW x \in Threads
        PROVE  thr'[x].pc # "idle" => thr'[x].trigger \in Triggers
    BY <1>6, <1>8 DEF IInv, TypeOK
  <1>10. TypeOK' /\ QueuesAreTenants'
    BY <1>5, <1>7, <1>9 DEF IInv, TypeOK, QueuesAreTenants
  <1>11. TableIsExact'
    <2>1. ASSUME NEW x \in Threads, thr'[x].pc \in {"lead", "pop"}
          PROVE  inflight'[TenantOf[thr'[x].trigger]] = x
      BY <2>1, <1>2, <1>5, <1>6 DEF IInv, TableIsExact, Tenant
    <2>2. ASSUME NEW u \in Tenants, inflight'[u] # NoThread
          PROVE  /\ thr'[inflight'[u]].pc \in {"lead", "pop"}
                 /\ TenantOf[thr'[inflight'[u]].trigger] = u
      <3> DEFINE l == inflight[u]
      <3>1. l \in Threads /\ inflight' = inflight
        BY <2>2, <1>5 DEF IInv, TypeOK
      <3>2. thr[l].pc \in {"lead", "pop"} /\ Tenant(l) = u
        BY <3>1, <2>2 DEF IInv, TableIsExact
      <3>3. ~released(l, th)
        BY <3>1, <3>2, <1>8
      <3>. QED BY <3>1, <3>2, <3>3, <1>6 DEF Tenant
    <2>. QED BY <2>1, <2>2 DEF TableIsExact, Tenant
  <1>12. NobodyStranded'
    <2>1. ASSUME NEW x \in Threads, thr'[x].pc = "wait"
          PROVE  /\ thr'[x].leader \in Threads
                 /\ thr'[thr'[x].leader].pc \in {"lead", "pop", "publish"}
                 /\ TenantOf[thr'[thr'[x].leader].trigger] = TenantOf[thr'[x].trigger]
      <3>1. ~released(x, th) /\ thr'[x] = thr[x]
        BY <2>1, <1>2, <1>6
      <3> DEFINE l == thr[x].leader
      <3>2. /\ l \in Threads /\ thr[l].pc \in {"lead", "pop", "publish"}
            /\ Tenant(l) = Tenant(x)
        BY <3>1, <2>1 DEF IInv, NobodyStranded
      <3>3. l # th
        BY <3>1, <2>1 DEF released
      <3>4. ~released(l, th)
        BY <3>2, <3>3 DEF released
      <3>. QED BY <3>1, <3>2, <3>4, <1>6 DEF Tenant
    <2>. QED BY <2>1 DEF NobodyStranded, Tenant
  <1>. QED BY <1>10, <1>11, <1>12 DEF IInv

\* One step per action of the dispatcher.
LEMMA NextIInv == IInv /\ [Next]_vars => IInv'
  <1> SUFFICES ASSUME IInv, [Next]_vars PROVE IInv'
    OBVIOUS
  <1>1. ASSUME NEW th \in Threads, NEW g \in Triggers, HandleWebhook(th, g)
        PROVE  IInv'
    BY <1>1, WebhookStep
  <1>2. ASSUME NEW th \in Threads, NEW t \in Tenants, RetryQueued(th, t)
        PROVE  IInv'
    BY <1>2, RetryStep
  <1>3. ASSUME NEW th \in Threads, RequestCapacity(th)
        PROVE  IInv'
    BY <1>3, RequestCapacityStep
  <1>4. ASSUME NEW th \in Threads,
               NEW outcome \in {"available", "unavailable", "raised"},
               ProviderAnswers(th, outcome)
        PROVE  IInv'
    BY <1>4, ProviderStep
  <1>5. ASSUME NEW th \in Threads, Pop(th)
        PROVE  IInv'
    BY <1>5, PopStep
  <1>6. ASSUME NEW th \in Threads, Publish(th)
        PROVE  IInv'
    BY <1>6, PublishStep
  <1>7. ASSUME NEW th \in Threads, CreateRun(th) \/ Fail(th) \/ PostDelayComment(th)
        PROVE  IInv'
    BY <1>7, AnswerStep
  <1>8. ASSUME NEW th \in Threads, CreateRunFails(th)
        PROVE  IInv'
    BY <1>8, CreateRunFailsStep
  <1>9. ASSUME NEW th \in Threads, Enqueue(th)
        PROVE  IInv'
    BY <1>9, EnqueueStep
  <1>10. CASE UNCHANGED vars
    BY <1>10 DEF IInv, TypeOK, TableIsExact, NobodyStranded, QueuesAreTenants, Tenant, vars
  <1>. QED
    BY <1>1, <1>2, <1>3, <1>4, <1>5, <1>6, <1>7, <1>8, <1>9, <1>10 DEF Next, ThreadStep

\* The coordinator's invariant holds for any number of request threads.
THEOREM CoordinatorInvariant == Spec => []IInv
  <1>1. Init => IInv
    BY InitIInv
  <1>2. IInv /\ [Next]_vars => IInv'
    BY NextIInv
  <1>. QED BY <1>1, <1>2, PTL DEF Spec

\* Two leaders of one tenant would both be the tenant's entry in the table.
THEOREM OneScaleUp == Spec => []OneScaleUpPerTenant
  <1>1. IInv => OneScaleUpPerTenant
    BY DEF IInv, TableIsExact, OneScaleUpPerTenant
  <1>. QED BY <1>1, CoordinatorInvariant, PTL

\* A thread that waits waits for one that has still to publish.
THEOREM NoStranding == Spec => []NobodyStranded
  <1>1. IInv => NobodyStranded
    BY DEF IInv
  <1>. QED BY <1>1, CoordinatorInvariant, PTL

\* Triggers of different tenants never meet in a queue.
THEOREM SeparateQueues == Spec => []QueuesAreTenants
  <1>1. IInv => QueuesAreTenants
    BY DEF IInv
  <1>. QED BY <1>1, CoordinatorInvariant, PTL

-----------------------------------------------------------------------------
(* Accounting: where every accepted webhook is.                            *)

\* The positions of a trigger in a queue.
PlacesOf(q, g) == {i \in 1 .. Len(q) : q[i] = g}

\* A queue holds finitely many copies of a trigger.
LEMMA PlacesFinite ==
  ASSUME NEW q \in Seq(Triggers), NEW g
  PROVE  IsFiniteSet(PlacesOf(q, g)) /\ Cardinality(PlacesOf(q, g)) \in Nat
  <1>1. IsFiniteSet(1 .. Len(q))
    BY FS_Interval
  <1>2. PlacesOf(q, g) \in SUBSET (1 .. Len(q))
    BY DEF PlacesOf
  <1>. QED BY <1>1, <1>2, FS_Subset, FS_CardinalityType

\* enqueue adds one copy of the trigger it is given and none of any other.
LEMMA EnqueueCounts ==
  ASSUME NEW q \in Seq(Triggers), NEW h \in Triggers, NEW g \in Triggers
  PROVE  Cardinality(PlacesOf(Append(q, h), g)) =
           Cardinality(PlacesOf(q, g)) + (IF h = g THEN 1 ELSE 0)
  <1> DEFINE n == Len(q)
             a == Append(q, h)
  <1>1. n \in Nat /\ Len(a) = n + 1 /\ a[n + 1] = h
    OBVIOUS
  <1>2. \A i \in 1 .. n : a[i] = q[i]
    OBVIOUS
  <1>3. n + 1 \notin PlacesOf(q, g)
    BY <1>1 DEF PlacesOf
  <1>4. IsFiniteSet(PlacesOf(q, g)) /\ Cardinality(PlacesOf(q, g)) \in Nat
    BY PlacesFinite
  <1> HIDE DEF a
  <1>5. \A i : i \in 1 .. n + 1 <=> i \in 1 .. n \/ i = n + 1
    BY <1>1
  <1>6. CASE h = g
    <2>1. PlacesOf(a, g) = PlacesOf(q, g) \cup {n + 1}
      BY <1>1, <1>2, <1>5, <1>6 DEF PlacesOf
    <2>2. Cardinality(PlacesOf(a, g)) = Cardinality(PlacesOf(q, g)) + 1
      BY <2>1, <1>3, <1>4, FS_AddElement
    <2>. QED BY <2>2, <1>6 DEF a
  <1>7. CASE h # g
    <2>1. PlacesOf(a, g) = PlacesOf(q, g)
      BY <1>1, <1>2, <1>5, <1>7 DEF PlacesOf
    <2>. QED BY <2>1, <1>4, <1>7 DEF a
  <1>. QED BY <1>6, <1>7

\* pop takes one copy of the trigger at the head and none of any other: the
\* remaining ones move up by one place.
LEMMA DequeueCounts ==
  ASSUME NEW q \in Seq(Triggers), q # <<>>, NEW g \in Triggers
  PROVE  Cardinality(PlacesOf(q, g)) =
           Cardinality(PlacesOf(Tail(q), g)) + (IF Head(q) = g THEN 1 ELSE 0)
  <1> DEFINE n == Len(q)
             b == Tail(q)
             S == PlacesOf(q, g) \ {1}
             T == PlacesOf(b, g)
             f == [i \in S |-> i - 1]
  <1>1. n \in Nat \ {0} /\ Len(b) = n - 1 /\ q[1] = Head(q) /\ b \in Seq(Triggers)
    OBVIOUS
  <1>2. \A i \in 1 .. n - 1 : b[i] = q[i + 1]
    OBVIOUS
  <1>3. IsFiniteSet(PlacesOf(q, g)) /\ Cardinality(PlacesOf(q, g)) \in Nat
    BY PlacesFinite
  <1>4. IsFiniteSet(S) /\ Cardinality(S) =
          IF 1 \in PlacesOf(q, g) THEN Cardinality(PlacesOf(q, g)) - 1
                                  ELSE Cardinality(PlacesOf(q, g))
    BY <1>3, FS_RemoveElement
  <1>5. 1 \in PlacesOf(q, g) <=> Head(q) = g
    BY <1>1 DEF PlacesOf
  <1> HIDE DEF b
  <1>6. \A i \in S : i \in 2 .. n /\ q[i] = g
    BY <1>1 DEF PlacesOf
  <1>7. \A i \in S : i - 1 \in T
    BY <1>1, <1>2, <1>6 DEF PlacesOf
  <1>8. \A j \in T : j \in Nat /\ j + 1 \in S /\ (j + 1) - 1 = j
    BY <1>1, <1>2 DEF PlacesOf
  <1> HIDE DEF S, T, n
  <1>9. f \in [S -> T]
    BY <1>7
  <1>10. \A i, j \in S : f[i] = f[j] => i = j
    BY <1>6
  <1>11. \A j \in T : \E i \in S : f[i] = j
    BY <1>8
  <1>12. f \in Bijection(S, T)
    <2>1. f \in Injection(S, T)
      BY <1>9, <1>10 DEF Injection, IsInjective
    <2>2. f \in Surjection(S, T)
      BY <1>9, <1>11 DEF Surjection
    <2>. QED BY <2>1, <2>2 DEF Bijection
  <1>13. Cardinality(T) = Cardinality(S)
    BY <1>4, <1>12, FS_Bijection DEF ExistsBijection
  <1>. QED BY <1>3, <1>4, <1>5, <1>13 DEF T, b

\* A thread between two requests holds no trigger, and finitely many threads hold
\* any one: what the accounting needs besides the equation itself.
HandsOK ==
  /\ \A x \in Threads : thr[x].pc = "idle" => thr[x].trigger = NoTrigger
  /\ \A g \in Triggers : IsFiniteSet(InHand(g))

AInv == IInv /\ HandsOK /\ EveryTriggerAccountedFor

\* Whether a thread's record counts as work in hand on a trigger.
Holds(r, g) == IF r.trigger = g /\ r.pc # "comment" THEN 1 ELSE 0

\* A step of one thread changes what is in hand by what that thread puts down
\* and what it takes up.
LEMMA HandCounts ==
  ASSUME IInv, HandsOK, NEW th \in Threads, NEW r \in ThreadType,
         thr' = [thr EXCEPT ![th] = r], NEW g \in Triggers
  PROVE  /\ IsFiniteSet(InHand(g)')
         /\ Cardinality(InHand(g)) \in Nat /\ Cardinality(InHand(g))' \in Nat
         /\ Cardinality(InHand(g))' + Holds(thr[th], g) =
              Cardinality(InHand(g)) + Holds(r, g)
  <1>1. thr'[th] = r /\ \A x \in Threads : x # th => thr'[x] = thr[x]
    BY Moves DEF IInv
  <1> DEFINE S == InHand(g)
             R == S \ {th}
             T == InHand(g)'
  <1>2. IsFiniteSet(S) /\ Cardinality(S) \in Nat
    BY FS_CardinalityType DEF HandsOK
  <1>3. /\ IsFiniteSet(R) /\ Cardinality(R) \in Nat
        /\ Cardinality(R) = IF th \in S THEN Cardinality(S) - 1 ELSE Cardinality(S)
    BY <1>2, FS_RemoveElement, FS_CardinalityType
  <1>4. Holds(thr[th], g) = IF th \in S THEN 1 ELSE 0
    BY DEF Holds, InHand
  <1>5. Cardinality(S) = Cardinality(R) + Holds(thr[th], g)
    BY <1>2, <1>3, <1>4
  <1>6. CASE r.trigger = g /\ r.pc # "comment"
    <2>1. T = R \cup {th}
      BY <1>1, <1>6 DEF InHand
    <2>2. Holds(r, g) = 1
      BY <1>6 DEF Holds
    <2>3. th \notin R
      OBVIOUS
    <2> HIDE DEF R, T, S
    <2>4. IsFiniteSet(T) /\ Cardinality(T) = Cardinality(R) + 1
      BY <2>1, <2>3, <1>3, FS_AddElement
    <2>5. Holds(thr[th], g) \in Nat
      BY DEF Holds
    <2>6. Cardinality(T) \in Nat /\
          Cardinality(T) + Holds(thr[th], g) = Cardinality(S) + Holds(r, g)
      BY <2>2, <2>4, <2>5, <1>3, <1>5
    <2>. QED BY <2>4, <2>6, <1>2 DEF T, S
  <1>7. CASE ~(r.trigger = g /\ r.pc # "comment")
    <2>1. T = R
      BY <1>1, <1>7 DEF InHand
    <2>2. Holds(r, g) = 0
      BY <1>7 DEF Holds
    <2> HIDE DEF R, T, S
    <2>5. Holds(thr[th], g) \in Nat
      BY DEF Holds
    <2>6. Cardinality(T) + Holds(thr[th], g) = Cardinality(S) + Holds(r, g)
      BY <2>1, <2>2, <2>5, <1>3, <1>5
    <2>. QED BY <2>1, <2>6, <1>2, <1>3 DEF T, S
  <1>. QED BY <1>6, <1>7

\* The copies of a trigger in its tenant's queue.
LEMMA CopiesOf ==
  ASSUME IInv, NEW g \in Triggers
  PROVE  /\ TenantOf[g] \in Tenants /\ queue[TenantOf[g]] \in Seq(Triggers)
         /\ Copies(g) = Cardinality(PlacesOf(queue[TenantOf[g]], g))
         /\ Copies(g) \in Nat
  <1>1. TenantOf[g] \in Tenants /\ queue[TenantOf[g]] \in Seq(Triggers)
    BY DispatcherAssumption DEF IInv, TypeOK
  <1>2. Copies(g) = Cardinality(PlacesOf(queue[TenantOf[g]], g))
    BY DEF Copies, PlacesOf
  <1>. QED BY <1>1, <1>2, PlacesFinite

\* The same of the queues after a step.
LEMMA CopiesNext ==
  ASSUME IInv', NEW g \in Triggers
  PROVE  Copies(g)' \in Nat
  <1>1. queue'[TenantOf[g]] \in Seq(Triggers)
    BY DispatcherAssumption DEF IInv, TypeOK
  <1>2. Copies(g)' = Cardinality(PlacesOf(queue'[TenantOf[g]], g))
    BY DEF Copies, PlacesOf
  <1>. QED BY <1>1, <1>2, PlacesFinite

\* Nothing changes a count but the step that moves the trigger: a step that
\* moves one thread and leaves the queues alone keeps the account if the tallies
\* take up what the thread puts down.
LEMMA TallyStep ==
  ASSUME AInv, IInv', NEW th \in Threads, NEW r \in ThreadType,
         thr' = [thr EXCEPT ![th] = r],
         r.pc = "idle" => r.trigger = NoTrigger,
         UNCHANGED queue,
         \A g \in Triggers :
           delivered'[g] + runs[g] + refused[g] + dropped[g] + Holds(thr[th], g) =
             delivered[g] + runs'[g] + refused'[g] + dropped'[g] + Holds(r, g)
  PROVE  AInv'
  <1>1. HandsOK'
    <2>1. \A g \in Triggers : IsFiniteSet(InHand(g)')
      BY HandCounts DEF AInv
    <2>2. thr'[th] = r /\ \A x \in Threads : x # th => thr'[x] = thr[x]
      BY Moves DEF IInv, AInv
    <2>. QED BY <2>1, <2>2 DEF HandsOK, AInv
  <1>2. ASSUME NEW g \in Triggers
        PROVE  delivered'[g] = runs'[g] + Copies(g)' + Cardinality(InHand(g))'
                               + refused'[g] + dropped'[g]
    <2> DEFINE c == Cardinality(InHand(g))
               d == Cardinality(InHand(g))'
               k == Copies(g)
    <2>1. c \in Nat /\ d \in Nat /\ d + Holds(thr[th], g) = c + Holds(r, g)
      BY HandCounts DEF AInv
    <2>2. Copies(g)' = k /\ k \in Nat
      BY CopiesOf DEF Copies, AInv
    <2>3. Holds(thr[th], g) \in Nat /\ Holds(r, g) \in Nat
      BY DEF Holds
    <2>4. /\ delivered[g] \in Nat /\ runs[g] \in Nat /\ refused[g] \in Nat
          /\ dropped[g] \in Nat
          /\ delivered'[g] \in Nat /\ runs'[g] \in Nat /\ refused'[g] \in Nat
          /\ dropped'[g] \in Nat
      BY DEF AInv, IInv, TypeOK
    <2>5. delivered[g] = runs[g] + k + c + refused[g] + dropped[g]
      BY DEF AInv, EveryTriggerAccountedFor
    <2> HIDE DEF c, d, k
    <2>6. delivered'[g] + runs[g] + refused[g] + dropped[g] + Holds(thr[th], g) =
             delivered[g] + runs'[g] + refused'[g] + dropped'[g] + Holds(r, g)
      OBVIOUS
    <2>7. PICK a, b, e, h, i \in Nat :
            a = c /\ b = d /\ e = k /\ h = Holds(thr[th], g) /\ i = Holds(r, g)
      BY <2>1, <2>2, <2>3
    <2>8. PICK v, u, f, p \in Nat :
            v = delivered[g] /\ u = runs[g] /\ f = refused[g] /\ p = dropped[g]
      BY <2>4
    <2>9. PICK v1, u1, f1, p1 \in Nat :
            v1 = delivered'[g] /\ u1 = runs'[g] /\ f1 = refused'[g] /\ p1 = dropped'[g]
      BY <2>4
    <2>10. v = u + e + a + f + p
      BY <2>5, <2>7, <2>8
    <2>11. b + h = a + i
      BY <2>1, <2>7
    <2>12. v1 + u + f + p + h = v + u1 + f1 + p1 + i
      BY <2>6, <2>7, <2>8, <2>9
    <2>13. v1 = u1 + e + b + f1 + p1
      BY <2>10, <2>11, <2>12
    <2>. QED BY <2>2, <2>7, <2>9, <2>13 DEF d
  <1>. QED BY <1>1, <1>2 DEF AInv, EveryTriggerAccountedFor

\* A thread moves on with its trigger: nothing is counted anew.
LEMMA SameHandStep ==
  ASSUME AInv, IInv', NEW th \in Threads, NEW r \in ThreadType,
         thr' = [thr EXCEPT ![th] = r],
         r.trigger = thr[th].trigger, r.pc # "idle", r.pc # "comment",
         thr[th].pc # "comment",
         UNCHANGED <<queue, runs, delivered, refused, dropped>>
  PROVE  AInv'
  <1>1. \A g \in Triggers : Holds(r, g) = Holds(thr[th], g)
    BY DEF Holds
  <1>2. ASSUME NEW g \in Triggers
        PROVE  delivered'[g] + runs[g] + refused[g] + dropped[g] + Holds(thr[th], g) =
                 delivered[g] + runs'[g] + refused'[g] + dropped'[g] + Holds(r, g)
    BY <1>1 DEF AInv, IInv, TypeOK, Holds
  <1>. QED BY <1>2, TallyStep

\* A webhook is accepted: it is delivered and in hand.
LEMMA WebhookAccounted ==
  ASSUME AInv, NEW th \in Threads, NEW g \in Triggers, HandleWebhook(th, g)
  PROVE  AInv'
  <1> DEFINE r == [Idle EXCEPT !.pc = "ask", !.trigger = g]
  <1>1. r \in ThreadType /\ r.pc = "ask" /\ r.trigger = g
    BY DEF Idle, ThreadType, PCs
  <1>2. thr' = [thr EXCEPT ![th] = r] /\ thr[th].pc = "idle"
    BY DEF HandleWebhook
  <1>3. IInv'
    BY WebhookStep DEF AInv
  <1>4. thr[th].trigger = NoTrigger
    BY <1>2 DEF AInv, HandsOK
  <1> HIDE DEF r
  <1>5. ASSUME NEW h \in Triggers
        PROVE  delivered'[h] + runs[h] + refused[h] + dropped[h] + Holds(thr[th], h) =
                 delivered[h] + runs'[h] + refused'[h] + dropped'[h] + Holds(r, h)
    <2>1. Holds(thr[th], h) = 0
      BY <1>4, DispatcherAssumption DEF Holds
    <2>2. Holds(r, h) = IF h = g THEN 1 ELSE 0
      BY <1>1 DEF Holds
    <2>3. delivered'[h] = delivered[h] + (IF h = g THEN 1 ELSE 0)
      BY DEF AInv, IInv, TypeOK, HandleWebhook
    <2>4. /\ delivered[h] \in Nat /\ runs[h] \in Nat /\ refused[h] \in Nat
          /\ dropped[h] \in Nat /\ UNCHANGED <<runs, refused, dropped>>
      BY DEF AInv, IInv, TypeOK, HandleWebhook
    <2>. QED BY <2>1, <2>2, <2>3, <2>4
  <1>. QED BY <1>1, <1>2, <1>3, <1>5, TallyStep DEF HandleWebhook

\* A thread ends its request: the run created for the trigger, the refusal or the
\* drop takes the place of the thread; a queued trigger was no longer in hand.
LEMMA AnswerAccounted ==
  ASSUME AInv, NEW th \in Threads, CreateRun(th) \/ Fail(th) \/ PostDelayComment(th)
  PROVE  AInv'
  <1>1. IInv'
    BY AnswerStep DEF AInv
  <1>2. Idle \in ThreadType /\ Idle.pc = "idle" /\ Idle.trigger = NoTrigger
    BY DEF Idle, ThreadType, PCs
  <1>3. thr' = [thr EXCEPT ![th] = Idle] /\ UNCHANGED queue
    BY DEF CreateRun, Fail, PostDelayComment
  <1>4. ASSUME NEW h \in Triggers
        PROVE  delivered'[h] + runs[h] + refused[h] + dropped[h] + Holds(thr[th], h) =
                 delivered[h] + runs'[h] + refused'[h] + dropped'[h] + Holds(Idle, h)
    <2> DEFINE g == thr[th].trigger
    <2>1. Holds(Idle, h) = 0
      BY <1>2, DispatcherAssumption DEF Holds
    <2>2. /\ delivered[h] \in Nat /\ runs[h] \in Nat /\ refused[h] \in Nat
          /\ dropped[h] \in Nat
      BY DEF AInv, IInv, TypeOK
    <2>3. CASE CreateRun(th)
      <3>1. Holds(thr[th], h) = IF h = g THEN 1 ELSE 0
        BY <2>3 DEF Holds, CreateRun
      <3>2. /\ runs'[h] = runs[h] + (IF h = g THEN 1 ELSE 0)
            /\ UNCHANGED <<delivered, refused, dropped>>
        BY <2>3 DEF AInv, IInv, TypeOK, CreateRun
      <3>. QED BY <3>1, <3>2, <2>1, <2>2
    <2>4. CASE Fail(th)
      <3>1. Holds(thr[th], h) = IF h = g THEN 1 ELSE 0
        BY <2>4 DEF Holds, Fail
      <3>2. CASE thr[th].from = "webhook"
        <4>1. /\ refused'[h] = refused[h] + (IF h = g THEN 1 ELSE 0)
              /\ UNCHANGED <<delivered, runs, dropped>>
          BY <2>4, <3>2 DEF AInv, IInv, TypeOK, Fail
        <4>. QED BY <4>1, <3>1, <2>1, <2>2
      <3>3. CASE thr[th].from # "webhook"
        <4>1. /\ dropped'[h] = dropped[h] + (IF h = g THEN 1 ELSE 0)
              /\ UNCHANGED <<delivered, runs, refused>>
          BY <2>4, <3>3 DEF AInv, IInv, TypeOK, Fail
        <4>. QED BY <4>1, <3>1, <2>1, <2>2
      <3>. QED BY <3>2, <3>3
    <2>5. CASE PostDelayComment(th)
      <3>1. Holds(thr[th], h) = 0
        BY <2>5 DEF Holds, PostDelayComment
      <3>. QED BY <2>5, <3>1, <2>1, <2>2 DEF PostDelayComment
    <2>. QED BY <2>3, <2>4, <2>5
  <1>. QED BY <1>1, <1>2, <1>3, <1>4, TallyStep

\* A thread goes through request_capacity with its trigger in hand.
LEMMA CapacityAccounted ==
  ASSUME AInv, NEW th \in Threads,
         \/ RequestCapacity(th) \/ Pop(th) \/ CreateRunFails(th)
         \/ \E outcome \in {"available", "unavailable", "raised"} :
              ProviderAnswers(th, outcome)
  PROVE  AInv'
  <1>1. IInv'
    BY RequestCapacityStep, PopStep, CreateRunFailsStep, ProviderStep DEF AInv
  <1>2. thr[th] \in ThreadType /\ thr[th].pc # "idle" /\ thr[th].pc # "comment"
    BY DEF AInv, IInv, TypeOK, RequestCapacity, Pop, CreateRunFails, ProviderAnswers
  <1>3. UNCHANGED <<queue, runs, delivered, refused, dropped>>
    BY DEF RequestCapacity, Pop, CreateRunFails, ProviderAnswers
  <1>4. CASE RequestCapacity(th)
    <2> DEFINE l == inflight[Tenant(th)]
               w == [thr[th] EXCEPT !.pc = "wait", !.leader = l]
               d == [thr[th] EXCEPT !.pc = "lead"]
    <2>1. thr[th].trigger \in Triggers
      BY <1>2 DEF AInv, IInv, TypeOK
    <2>2. l \in Threads \cup {NoThread}
      BY <2>1, DispatcherAssumption DEF AInv, IInv, TypeOK, Tenant
    <2>3. w \in ThreadType /\ w.pc = "wait" /\ w.trigger = thr[th].trigger
      BY <1>2, <2>2 DEF ThreadType, PCs
    <2>4. d \in ThreadType /\ d.pc = "lead" /\ d.trigger = thr[th].trigger
      BY <1>2, PlaceChange DEF PCs
    <2>5. thr' = [thr EXCEPT ![th] = w] \/ thr' = [thr EXCEPT ![th] = d]
      BY <1>4 DEF RequestCapacity
    <2> HIDE DEF w, d
    <2>. QED BY <2>3, <2>4, <2>5, <1>1, <1>2, <1>3, SameHandStep
  <1>5. CASE Pop(th)
    <2> DEFINE r == [thr[th] EXCEPT !.pc = "publish"]
    <2>1. r \in ThreadType /\ r.pc = "publish" /\ r.trigger = thr[th].trigger
      BY <1>2, PlaceChange DEF PCs
    <2>2. thr' = [thr EXCEPT ![th] = r]
      BY <1>5 DEF Pop
    <2> HIDE DEF r
    <2>. QED BY <2>1, <2>2, <1>1, <1>2, <1>3, SameHandStep
  <1>6. CASE CreateRunFails(th)
    <2> DEFINE r == [thr[th] EXCEPT !.pc = "error"]
    <2>1. r \in ThreadType /\ r.pc = "error" /\ r.trigger = thr[th].trigger
      BY <1>2, PlaceChange DEF PCs
    <2>2. thr' = [thr EXCEPT ![th] = r]
      BY <1>6 DEF CreateRunFails
    <2> HIDE DEF r
    <2>. QED BY <2>1, <2>2, <1>1, <1>2, <1>3, SameHandStep
  <1>7. CASE \E outcome \in {"available", "unavailable", "raised"} :
               ProviderAnswers(th, outcome)
    <2>1. PICK outcome \in {"available", "unavailable", "raised"} :
            ProviderAnswers(th, outcome)
      BY <1>7
    <2> DEFINE r == [thr[th] EXCEPT !.pc = "pop", !.outcome = outcome]
    <2>2. r \in ThreadType /\ r.pc = "pop" /\ r.trigger = thr[th].trigger
      BY <1>2 DEF ThreadType, PCs
    <2>3. thr' = [thr EXCEPT ![th] = r]
      BY <2>1 DEF ProviderAnswers
    <2> HIDE DEF r
    <2>. QED BY <2>2, <2>3, <1>1, <1>2, <1>3, SameHandStep
  <1>. QED BY <1>4, <1>5, <1>6, <1>7

\* Everyone released keeps the trigger in hand.
LEMMA PublishAccounted ==
  ASSUME AInv, NEW th \in Threads, Publish(th)
  PROVE  AInv'
  <1>1. IInv'
    BY PublishStep DEF AInv
  <1>2. \A x \in Threads : thr[x] \in ThreadType
    BY DEF AInv, IInv, TypeOK
  <1>3. ASSUME NEW x \in Threads
        PROVE  /\ thr'[x].trigger = thr[x].trigger
               /\ thr'[x].pc = "comment" <=> thr[x].pc = "comment"
               /\ thr'[x].pc = "idle" <=> thr[x].pc = "idle"
    <2>1. CASE released(x, th)
      <3> DEFINE p == after(thr[th].outcome)
      <3>1. p \in {"create", "enqueue", "error"}
        BY DEF after
      <3>2. thr[x].pc \in {"publish", "wait"}
        BY <2>1 DEF released, Publish
      <3> HIDE DEF p
      <3>3. thr'[x] = [thr[x] EXCEPT !.pc = p, !.outcome = thr[th].outcome,
                                     !.leader = NoThread]
        BY <2>1 DEF Publish, p
      <3>4. thr'[x].trigger = thr[x].trigger /\ thr'[x].pc = p
        BY <3>3, <1>2 DEF ThreadType
      <3>. QED BY <3>1, <3>2, <3>4
    <2>2. CASE ~released(x, th)
      BY <2>2 DEF Publish
    <2>. QED BY <2>1, <2>2
  <1>4. \A g \in Triggers : InHand(g)' = InHand(g)
    BY <1>3 DEF InHand
  <1>5. HandsOK'
    BY <1>3, <1>4 DEF HandsOK, AInv
  <1>6. \A g \in Triggers : Copies(g)' = Copies(g)
    BY DEF Copies, Publish
  <1>7. EveryTriggerAccountedFor'
    BY <1>4, <1>6 DEF AInv, EveryTriggerAccountedFor, Publish
  <1>. QED BY <1>1, <1>5, <1>7 DEF AInv

\* The arithmetic of a trigger moving between a thread's hands and its queue.
LEMMA HandedOver ==
  ASSUME AInv, IInv', HandsOK', NEW g \in Triggers,
         UNCHANGED <<runs, delivered, refused, dropped>>,
         Copies(g)' + Cardinality(InHand(g))' = Copies(g) + Cardinality(InHand(g))
  PROVE  delivered'[g] = runs'[g] + Copies(g)' + Cardinality(InHand(g))'
                         + refused'[g] + dropped'[g]
  <1>1. Copies(g) \in Nat
    BY CopiesOf DEF AInv
  <1>2. Copies(g)' \in Nat
    BY CopiesNext
  <1>3. Cardinality(InHand(g)) \in Nat
    BY FS_CardinalityType DEF AInv, HandsOK
  <1>4. Cardinality(InHand(g))' \in Nat
    BY FS_CardinalityType DEF HandsOK
  <1>5. PICK c, d, k, l \in Nat :
          /\ c = Cardinality(InHand(g)) /\ d = Cardinality(InHand(g))'
          /\ k = Copies(g) /\ l = Copies(g)'
    BY <1>1, <1>2, <1>3, <1>4
  <1>6. PICK v, u, f, p \in Nat :
          v = delivered[g] /\ u = runs[g] /\ f = refused[g] /\ p = dropped[g]
    BY DEF AInv, IInv, TypeOK
  <1>7. v = u + k + c + f + p
    BY <1>5, <1>6 DEF AInv, EveryTriggerAccountedFor
  <1>8. l + d = k + c
    BY <1>5
  <1>9. v = u + l + d + f + p
    BY <1>7, <1>8
  <1>. QED BY <1>5, <1>6, <1>9

\* retry_queued takes the oldest trigger from the queue into a thread's hands.
LEMMA RetryAccounted ==
  ASSUME AInv, NEW th \in Threads, NEW t \in Tenants, RetryQueued(th, t)
  PROVE  AInv'
  <1> DEFINE q == queue[t]
             h == Head(q)
             r == [Idle EXCEPT !.pc = "ask", !.trigger = h, !.from = "retry"]
  <1>1. q \in Seq(Triggers) /\ q # <<>>
    BY DEF AInv, IInv, TypeOK, RetryQueued
  <1>2. h \in Triggers /\ h = q[1] /\ 1 \in 1 .. Len(q)
    BY <1>1
  <1>3. TenantOf[h] = t
    BY <1>2 DEF AInv, IInv, QueuesAreTenants
  <1>4. r \in ThreadType /\ r.pc = "ask" /\ r.trigger = h
    BY <1>2 DEF Idle, ThreadType, PCs
  <1>5. /\ thr' = [thr EXCEPT ![th] = r] /\ thr[th].pc = "idle"
        /\ UNCHANGED <<runs, delivered, refused, dropped>>
    BY DEF RetryQueued
  <1>6. /\ queue'[t] = Tail(q)
        /\ \A u \in Tenants : u # t => queue'[u] = queue[u]
    BY DEF RetryQueued, AInv, IInv, TypeOK
  <1>7. IInv'
    BY RetryStep DEF AInv
  <1>8. thr[th].trigger = NoTrigger
    BY <1>5 DEF AInv, HandsOK
  <1> HIDE DEF q, h, r
  <1>9. HandsOK'
    <2>1. \A g \in Triggers : IsFiniteSet(InHand(g)')
      BY <1>4, <1>5, HandCounts DEF AInv
    <2>2. thr'[th] = r /\ \A x \in Threads : x # th => thr'[x] = thr[x]
      BY <1>4, <1>5, Moves DEF IInv, AInv
    <2>. QED BY <2>1, <2>2, <1>4 DEF HandsOK, AInv
  <1>10. ASSUME NEW g \in Triggers
         PROVE  Copies(g)' + Cardinality(InHand(g))' = Copies(g) + Cardinality(InHand(g))
    <2> DEFINE one == IF h = g THEN 1 ELSE 0
    <2>1. /\ Cardinality(InHand(g)) \in Nat /\ Cardinality(InHand(g))' \in Nat
          /\ Cardinality(InHand(g))' + Holds(thr[th], g) =
               Cardinality(InHand(g)) + Holds(r, g)
      BY <1>4, <1>5, HandCounts DEF AInv
    <2>2. Holds(thr[th], g) = 0 /\ Holds(r, g) = one
      BY <1>4, <1>8, DispatcherAssumption DEF Holds
    <2>3. Copies(g) \in Nat /\ Copies(g)' \in Nat
      BY <1>7, CopiesOf, CopiesNext DEF AInv
    <2>4. Copies(g) = Copies(g)' + one
      <3>1. CASE TenantOf[g] = t
        <4>1. Copies(g) = Cardinality(PlacesOf(q, g))
          BY <3>1 DEF Copies, PlacesOf, q
        <4>2. Copies(g)' = Cardinality(PlacesOf(Tail(q), g))
          BY <3>1, <1>6 DEF Copies, PlacesOf
        <4>. QED BY <4>1, <4>2, <1>1, DequeueCounts DEF h
      <3>2. CASE TenantOf[g] # t
        <4>1. one = 0
          BY <3>2, <1>3
        <4>2. queue'[TenantOf[g]] = queue[TenantOf[g]]
          BY <3>2, <1>6, DispatcherAssumption
        <4>3. Copies(g)' = Copies(g)
          BY <4>2 DEF Copies
        <4>. QED BY <4>1, <4>3, <2>3
      <3>. QED BY <3>1, <3>2
    <2>. QED BY <2>1, <2>2, <2>3, <2>4
  <1>11. EveryTriggerAccountedFor'
    BY <1>5, <1>7, <1>9, <1>10, HandedOver DEF EveryTriggerAccountedFor
  <1>. QED BY <1>7, <1>9, <1>11 DEF AInv

\* _queue_and_notify puts the trigger down in its tenant's queue.
LEMMA EnqueueAccounted ==
  ASSUME AInv, NEW th \in Threads, Enqueue(th)
  PROVE  AInv'
  <1> DEFINE h == thr[th].trigger
             t == TenantOf[h]
             q == queue[t]
             r == [thr[th] EXCEPT !.pc = "comment"]
  <1>1. thr[th].pc = "enqueue" /\ thr[th] \in ThreadType /\ h \in Triggers
    BY DEF AInv, IInv, TypeOK, Enqueue
  <1>2. t \in Tenants /\ q \in Seq(Triggers)
    BY <1>1, DispatcherAssumption DEF AInv, IInv, TypeOK
  <1>3. r \in ThreadType /\ r.pc = "comment" /\ r.trigger = h
    BY <1>1, PlaceChange DEF PCs
  <1>4. /\ thr' = [thr EXCEPT ![th] = r]
        /\ UNCHANGED <<runs, delivered, refused, dropped>>
    BY DEF Enqueue
  <1>5. /\ queue'[t] = Append(q, h)
        /\ \A u \in Tenants : u # t => queue'[u] = queue[u]
    BY <1>2 DEF Enqueue, AInv, IInv, TypeOK, Tenant
  <1>6. IInv'
    BY EnqueueStep DEF AInv
  <1>7. ASSUME NEW g \in Triggers
        PROVE  Holds(thr[th], g) = (IF h = g THEN 1 ELSE 0) /\ Holds(r, g) = 0
    BY <1>1, <1>3 DEF Holds
  <1> HIDE DEF q, h, r, t
  <1>8. HandsOK'
    <2>1. \A g \in Triggers : IsFiniteSet(InHand(g)')
      BY <1>3, <1>4, HandCounts DEF AInv
    <2>2. thr'[th] = r /\ \A x \in Threads : x # th => thr'[x] = thr[x]
      BY <1>3, <1>4, Moves DEF IInv, AInv
    <2>. QED BY <2>1, <2>2, <1>3 DEF HandsOK, AInv
  <1>9. ASSUME NEW g \in Triggers
        PROVE  Copies(g)' + Cardinality(InHand(g))' = Copies(g) + Cardinality(InHand(g))
    <2> DEFINE one == IF h = g THEN 1 ELSE 0
    <2>1. /\ Cardinality(InHand(g)) \in Nat /\ Cardinality(InHand(g))' \in Nat
          /\ Cardinality(InHand(g))' + Holds(thr[th], g) =
               Cardinality(InHand(g)) + Holds(r, g)
      BY <1>3, <1>4, HandCounts DEF AInv
    <2>2. Copies(g) \in Nat /\ Copies(g)' \in Nat
      BY <1>6, CopiesOf, CopiesNext DEF AInv
    <2>3. Copies(g)' = Copies(g) + one
      <3>1. CASE TenantOf[g] = t
        <4>1. Copies(g) = Cardinality(PlacesOf(q, g))
          BY <3>1 DEF Copies, PlacesOf, q
        <4>2. Copies(g)' = Cardinality(PlacesOf(Append(q, h), g))
          BY <3>1, <1>5 DEF Copies, PlacesOf
        <4>3. h \in Triggers
          BY <1>1
        <4>. QED BY <4>1, <4>2, <4>3, <1>2, EnqueueCounts
      <3>2. CASE TenantOf[g] # t
        <4>1. one = 0
          BY <3>2 DEF t
        <4>2. queue'[TenantOf[g]] = queue[TenantOf[g]]
          BY <3>2, <1>5, DispatcherAssumption
        <4>3. Copies(g)' = Copies(g)
          BY <4>2 DEF Copies
        <4>. QED BY <4>1, <4>3, <2>2
      <3>. QED BY <3>1, <3>2
    <2>. QED BY <2>1, <2>2, <2>3, <1>7
  <1>10. EveryTriggerAccountedFor'
    BY <1>4, <1>6, <1>8, <1>9, HandedOver DEF EveryTriggerAccountedFor
  <1>. QED BY <1>6, <1>8, <1>10 DEF AInv

\* At the start nothing is delivered and nothing is anywhere.
LEMMA InitAInv == Init => AInv
  <1> SUFFICES ASSUME Init PROVE AInv
    OBVIOUS
  <1>1. IInv
    BY InitIInv
  <1>2. ASSUME NEW g \in Triggers
        PROVE  InHand(g) = {} /\ PlacesOf(queue[TenantOf[g]], g) = {}
    BY DispatcherAssumption DEF Init, InHand, PlacesOf, Idle
  <1>3. \A g \in Triggers : Cardinality(InHand(g)) = 0 /\ Copies(g) = 0
    BY <1>1, <1>2, CopiesOf, FS_EmptySet
  <1>4. HandsOK
    BY <1>2, FS_EmptySet DEF HandsOK, Init, Idle
  <1>5. EveryTriggerAccountedFor
    BY <1>3 DEF EveryTriggerAccountedFor, Init
  <1>. QED BY <1>1, <1>4, <1>5 DEF AInv

\* One step per action of the dispatcher.
LEMMA NextAInv == AInv /\ [Next]_vars => AInv'
  <1> SUFFICES ASSUME AInv, [Next]_vars PROVE AInv'
    OBVIOUS
  <1>1. ASSUME NEW th \in Threads, NEW g \in Triggers, HandleWebhook(th, g)
        PROVE  AInv'
    BY <1>1, WebhookAccounted
  <1>2. ASSUME NEW th \in Threads, NEW t \in Tenants, RetryQueued(th, t)
        PROVE  AInv'
    BY <1>2, RetryAccounted
  <1>3. ASSUME NEW th \in Threads, ThreadStep(th)
        PROVE  AInv'
    BY <1>3, CapacityAccounted, PublishAccounted, AnswerAccounted, EnqueueAccounted
       DEF ThreadStep
  <1>4. CASE UNCHANGED vars
    <2>1. IInv'
      BY <1>4, NextIInv DEF AInv
    <2>2. \A g \in Triggers : InHand(g)' = InHand(g) /\ Copies(g)' = Copies(g)
      BY <1>4 DEF InHand, Copies, vars
    <2>. QED BY <1>4, <2>1, <2>2 DEF AInv, HandsOK, EveryTriggerAccountedFor, vars
  <1>. QED BY <1>1, <1>2, <1>3, <1>4 DEF Next

\* EveryTriggerAccountedFor: through any interleaving of webhooks, retries,
\* coalesced scale-ups and failures, each accepted webhook is exactly one of a
\* run, a queue entry, work in a thread's hands, a refusal or a dropped retry.
THEOREM EveryTriggerCounted == Spec => []EveryTriggerAccountedFor
  <1>1. Init => AInv
    BY InitAInv
  <1>2. AInv /\ [Next]_vars => AInv'
    BY NextAInv
  <1>3. AInv => EveryTriggerAccountedFor
    BY DEF AInv
  <1>. QED BY <1>1, <1>2, <1>3, PTL DEF Spec

(***************************************************************************)
(* The issue tracker (IssueTracker).                                       *)
(***************************************************************************)

\* What a write may do to the issues: none goes, none changes its type, summary
\* or epic or the field that names it, and no link is lost.
Evolves(I, J) ==
  /\ DOMAIN I \subseteq DOMAIN J
  /\ \A k \in DOMAIN I : Equal(J[k], I[k]) /\ J[k].link = I[k].link
  /\ \A k \in DOMAIN I : I[k].blockers \subseteq J[k].blockers

\* No issue is opted in that was not.
LabelsKept(I, J) ==
  \A k \in DOMAIN J : J[k].opted = "yes" => k \in DOMAIN I /\ I[k].opted = "yes"

\* A sequence is a sequence over its own range.
LEMMA SeqOverItsRange ==
  ASSUME NEW S, NEW J \in Seq(S)
  PROVE  J \in Seq(Range(J))
  <1>1. PICK n \in Nat : n = Len(J) /\ DOMAIN J = 1..n /\ J \in [1..n -> S]
    OBVIOUS
  <1>2. PICK R : R = Range(J)
    OBVIOUS
  <1>3. \A j \in 1..n : J[j] \in R
    BY <1>1, <1>2 DEF Range
  <1>4. J \in [1..n -> R]
    BY <1>1, <1>3
  <1>5. J \in Seq(R)
    BY <1>4
  <1>. QED BY <1>2, <1>5

\* J is I with issue k replaced by x; J is I with x added.
Replaces(I, J, k, x) ==
  /\ IssuesOK(J) /\ DOMAIN J = DOMAIN I
  /\ J[k] = x /\ \A j \in DOMAIN I : j # k => J[j] = I[j]

Adds(I, J, x) ==
  /\ IssuesOK(J) /\ Len(I) \in Nat /\ DOMAIN I = 1..Len(I)
  /\ DOMAIN J = 1..(Len(I) + 1)
  /\ J[Len(I) + 1] = x /\ \A j \in DOMAIN I : J[j] = I[j]

\* One issue changes.
LEMMA IssueReplaced ==
  ASSUME NEW I, IssuesOK(I), NEW k \in DOMAIN I, NEW x, IsIssue(x),
         x.blockers \subseteq DOMAIN I, x.comments \in Nat
  PROVE  Replaces(I, [I EXCEPT ![k] = x], k, x)
  <1>1. I \in Seq(Range(I))
    BY DEF IssuesOK
  <1>2. PICK S : S = Range(I) \cup {x}
    OBVIOUS
  <1>3. I \in Seq(S) /\ DOMAIN I = 1..Len(I) /\ Len(I) \in Nat
    BY <1>1, <1>2
  <1>. PICK J : J = [I EXCEPT ![k] = x]
    OBVIOUS
  <1>4. /\ DOMAIN J = DOMAIN I /\ J[k] = x /\ \A j \in DOMAIN I : j # k => J[j] = I[j]
    BY <1>3
  <1>5. J \in Seq(S)
    BY <1>2, <1>3
  <1>6. J \in Seq(Range(J))
    BY <1>5, SeqOverItsRange
  <1>. QED BY <1>4, <1>6 DEF IssuesOK, Replaces

\* One issue is added, after the others.
LEMMA IssueAdded ==
  ASSUME NEW I, IssuesOK(I), NEW x, IsIssue(x), x.blockers = {}, x.comments \in Nat
  PROVE  Adds(I, Append(I, x), x)
  <1>1. I \in Seq(Range(I))
    BY DEF IssuesOK
  <1>2. PICK S : S = Range(I) \cup {x}
    OBVIOUS
  <1>3. I \in Seq(S) /\ x \in S /\ DOMAIN I = 1..Len(I) /\ Len(I) \in Nat
    BY <1>1, <1>2
  <1>. PICK J : J = Append(I, x)
    OBVIOUS
  <1>4. /\ J \in Seq(S) /\ DOMAIN J = 1..(Len(I) + 1) /\ J[Len(I) + 1] = x
        /\ \A j \in DOMAIN I : J[j] = I[j]
    BY <1>3
  <1>5. J \in Seq(Range(J))
    BY <1>4, SeqOverItsRange
  <1>. QED BY <1>3, <1>4, <1>5 DEF IssuesOK, Adds

\* The record of a creation.
NewIssue(w) ==
  [type |-> w.type, summary |-> w.summary, epic |-> w.epic, link |-> w.link,
   status |-> "Backlog", opted |-> "no", archived |-> FALSE, blockers |-> {}, comments |-> 0]

\* What Jira makes of a creation.
LEMMA CreateApplied ==
  ASSUME IssuesOK(issues), NEW w, Accepts(w), w.kind = "create",
         NEW J, J = Applied(w)
  PROVE  /\ IssuesOK(J) /\ Evolves(issues, J) /\ LabelsKept(issues, J)
         /\ Len(issues) + 1 \in DOMAIN J /\ Len(issues) + 1 \notin DOMAIN issues
         /\ J[Len(issues) + 1] = NewIssue(w)
         /\ \A k \in DOMAIN J : k # Len(issues) + 1 => k \in DOMAIN issues /\ J[k] = issues[k]
  <1>1. J = Append(issues, NewIssue(w))
    BY DEF Applied, NewIssue
  <1>2. /\ IsIssue(NewIssue(w)) /\ NewIssue(w).blockers = {} /\ NewIssue(w).comments \in Nat
        /\ NewIssue(w).opted = "no"
    BY DEF NewIssue, IsIssue
  <1>3. /\ IssuesOK(J) /\ Len(issues) \in Nat /\ DOMAIN issues = 1..Len(issues)
        /\ DOMAIN J = 1..(Len(issues) + 1) /\ J[Len(issues) + 1] = NewIssue(w)
        /\ \A j \in DOMAIN issues : J[j] = issues[j]
    <2>1. PICK x : x = NewIssue(w)
      OBVIOUS
    <2>2. Adds(issues, Append(issues, x), x)
      BY <1>2, <2>1, IssueAdded
    <2>. QED BY <1>1, <2>1, <2>2 DEF Adds
  <1>4. /\ Len(issues) + 1 \in DOMAIN J /\ Len(issues) + 1 \notin DOMAIN issues
        /\ DOMAIN issues \subseteq DOMAIN J
        /\ \A k \in DOMAIN J : k # Len(issues) + 1 => k \in DOMAIN issues
    BY <1>3
  <1>5. Evolves(issues, J)
    BY <1>3, <1>4 DEF Evolves, Equal
  <1>6. LabelsKept(issues, J)
    BY <1>2, <1>3, <1>4 DEF LabelsKept
  <1>. QED BY <1>3, <1>4, <1>5, <1>6

\* What Jira makes of any other write: it changes one issue, and that not much.
LEMMA ChangeApplied ==
  ASSUME IssuesOK(issues), NEW w, Accepts(w), w.kind # "create",
         NEW J, J = Applied(w)
  PROVE  /\ IssuesOK(J) /\ Evolves(issues, J) /\ LabelsKept(issues, J)
         /\ DOMAIN J = DOMAIN issues
         /\ w.kind = "link" => w.blocker \in J[w.key].blockers
  <1>1. w.key \in DOMAIN issues /\ (w.kind = "link" => w.blocker \in DOMAIN issues)
    BY DEF Accepts, Names, Keys
  <1>2. PICK x : x = issues[w.key]
    OBVIOUS
  <1>3. IsIssue(x) /\ x.blockers \subseteq DOMAIN issues /\ x.comments \in Nat
    BY <1>1, <1>2 DEF IssuesOK
  <1>4. ASSUME NEW y, J = [issues EXCEPT ![w.key] = y], IsIssue(y), Equal(y, x),
               y.link = x.link, y.opted = x.opted, x.blockers \subseteq y.blockers,
               y.blockers \subseteq DOMAIN issues, y.comments \in Nat
        PROVE  /\ IssuesOK(J) /\ Evolves(issues, J) /\ LabelsKept(issues, J)
               /\ DOMAIN J = DOMAIN issues /\ J[w.key] = y
    <2>1. /\ IssuesOK(J) /\ DOMAIN J = DOMAIN issues /\ J[w.key] = y
          /\ \A j \in DOMAIN issues : j # w.key => J[j] = issues[j]
      <3>1. PICK k \in DOMAIN issues : k = w.key
        BY <1>1
      <3>2. Replaces(issues, [issues EXCEPT ![k] = y], k, y)
        BY <1>4, IssueReplaced
      <3>. QED BY <1>4, <3>1, <3>2 DEF Replaces
    <2>2. Evolves(issues, J) /\ LabelsKept(issues, J)
      BY <1>1, <1>2, <1>4, <2>1 DEF Evolves, LabelsKept, Equal
    <2>. QED BY <2>1, <2>2
  <1>5. CASE w.kind = "link"
    <2>1. PICK y : y = [x EXCEPT !.blockers = @ \cup {w.blocker}]
      OBVIOUS
    <2>2. J = [issues EXCEPT ![w.key] = y]
      BY <1>1, <1>2, <1>5, <2>1 DEF Applied
    <2>3. /\ IsIssue(y) /\ Equal(y, x) /\ y.link = x.link /\ y.opted = x.opted
          /\ y.blockers = x.blockers \cup {w.blocker} /\ y.comments = x.comments
      BY <1>3, <2>1 DEF IsIssue, Equal
    <2>. QED BY <1>1, <1>3, <1>4, <1>5, <2>2, <2>3
  <1>6. CASE w.kind = "status"
    <2>1. PICK y : y = [x EXCEPT !.status = w.to]
      OBVIOUS
    <2>2. J = [issues EXCEPT ![w.key] = y]
      BY <1>1, <1>2, <1>6, <2>1 DEF Applied
    <2>3. /\ IsIssue(y) /\ Equal(y, x) /\ y.link = x.link /\ y.opted = x.opted
          /\ y.blockers = x.blockers /\ y.comments = x.comments
      BY <1>3, <2>1 DEF IsIssue, Equal
    <2>. QED BY <1>1, <1>3, <1>4, <1>6, <2>2, <2>3
  <1>7. CASE w.kind = "comment"
    <2>1. PICK y : y = [x EXCEPT !.comments = @ + 1]
      OBVIOUS
    <2>2. J = [issues EXCEPT ![w.key] = y]
      BY <1>1, <1>2, <1>7, <2>1 DEF Applied
    <2>3. /\ IsIssue(y) /\ Equal(y, x) /\ y.link = x.link /\ y.opted = x.opted
          /\ y.blockers = x.blockers /\ y.comments \in Nat
      BY <1>3, <2>1 DEF IsIssue, Equal
    <2>. QED BY <1>1, <1>3, <1>4, <1>7, <2>2, <2>3
  <1>8. CASE w.kind \notin {"link", "status", "comment"}
    <2>1. J = issues
      BY <1>8 DEF Applied
    <2>. QED BY <1>8, <2>1 DEF Evolves, LabelsKept, Equal
  <1>. QED BY <1>5, <1>6, <1>7, <1>8

\* An operation that does not move keeps what it relies on.
LEMMA OpStays ==
  ASSUME NEW o, NEW c, NEW I, NEW J, NEW g, OpOK(o, c, I, g), Evolves(I, J),
         LabelsKept(I, J)
  PROVE  OpOK(o, c, J, g)
  <1>1. ASSUME o.key \in DOMAIN I, SameAs(I[o.key], o.req)
        PROVE  o.key \in DOMAIN J /\ SameAs(J[o.key], o.req)
    BY <1>1 DEF Evolves, Equal, SameAs
  <1>2. Linked(o, I) => Linked(o, J)
    BY <1>1 DEF Evolves, Linked
  <1>3. OptedIn(o, I, g) => OptedIn(o, J, g)
    BY DEF Evolves, Equal, OptedIn
  <1>4. Truthful(o, I, g) => Truthful(o, J, g)
    BY <1>1, <1>2 DEF Truthful
  <1>5. o.key \in DOMAIN J /\ J[o.key].opted = "yes" => o.key \in DOMAIN I /\ I[o.key].opted = "yes"
    BY DEF LabelsKept
  <1>. QED BY <1>2, <1>3, <1>4, <1>5 DEF OpOK

\* A write is applied that was fresh when it was sent: every other creation of
\* the same summary that is past its search makes it a race.
LEMMA WriteLands ==
  ASSUME TrackerInv, NEW w, Accepts(w), issues' = Applied(w),
         FreshWrite(w, issues, raced), raced \subseteq raced', late' \subseteq late,
         w.kind = "create" =>
           /\ \A d \in Callers : opOf'[d].pc = "create" /\ opOf'[d].req.summary = w.summary =>
                w.summary \in raced'
           /\ \A l \in late' : l.write.kind = "create" /\ l.write.summary = w.summary =>
                w.summary \in raced',
         opOf' = [d \in Callers |-> opOf'[d]],
         \A d \in Callers : OpOK(opOf'[d], d, issues', config),
         \A d \in Callers : opOf'[d].pc = "create" => opOf'[d] = opOf[d],
         UNCHANGED <<config, sent, accepted, now>>, faults' \in 0..MaxFaults,
         edits' \in 0..MaxEdits
  PROVE  TrackerInv'
  <1>1. PICK J : J = Applied(w)
    OBVIOUS
  <1>2. IssuesOK(issues)
    BY DEF TrackerInv
  <1>3. IssuesOK(J) /\ Evolves(issues, J)
    BY <1>1, <1>2, CreateApplied, ChangeApplied
  <1>4. \A d \in sent : OptedIn(d, J, config)
    BY <1>3 DEF TrackerInv, OptedIn, Evolves, Equal
  <1>5. CASE w.kind = "create"
    <2>1. PICK n : n = Len(issues) + 1
      OBVIOUS
    <2>2. /\ n \in DOMAIN J /\ n \notin DOMAIN issues
          /\ J[n].type = w.type /\ J[n].summary = w.summary /\ J[n].epic = w.epic
          /\ \A k \in DOMAIN J : k # n => k \in DOMAIN issues /\ J[k] = issues[k]
      <3>1. /\ n \in DOMAIN J /\ n \notin DOMAIN issues /\ J[n] = NewIssue(w)
            /\ \A k \in DOMAIN J : k # n => k \in DOMAIN issues /\ J[k] = issues[k]
        BY <1>1, <1>2, <1>5, <2>1, CreateApplied
      <3>. QED BY <3>1 DEF NewIssue
    <2>3. ASSUME NEW d \in Callers PROVE PendingOK(opOf'[d], J, raced')
      <3>1. SUFFICES ASSUME opOf'[d].pc = "create", opOf'[d].req.summary \notin raced',
                            NEW k \in DOMAIN J, SameAs(J[k], opOf'[d].req), Searchable(J[k])
                     PROVE  FALSE
        BY DEF PendingOK
      <3>2. CASE k = n
        BY <1>5, <2>2, <3>1, <3>2 DEF SameAs
      <3>3. CASE k # n
        <4>1. PendingOK(opOf'[d], issues, raced) /\ opOf'[d].req.summary \notin raced
          BY <3>1 DEF TrackerInv
        <4>. QED BY <2>2, <3>1, <3>3, <4>1 DEF PendingOK
      <3>. QED BY <3>2, <3>3
    <2>4. ASSUME NEW l \in late' PROVE FreshWrite(l.write, J, raced')
      <3>1. SUFFICES ASSUME l.write.kind = "create", l.write.summary \notin raced',
                            NEW k \in DOMAIN J, Equal(J[k], l.write), Searchable(J[k])
                     PROVE  FALSE
        BY DEF FreshWrite
      <3>2. CASE k = n
        BY <1>5, <2>2, <3>1, <3>2 DEF Equal
      <3>3. CASE k # n
        <4>1. FreshWrite(l.write, issues, raced) /\ l.write.summary \notin raced
          BY <3>1 DEF TrackerInv
        <4>. QED BY <2>2, <3>1, <3>3, <4>1 DEF FreshWrite
      <3>. QED BY <3>2, <3>3
    <2>5. ASSUME NEW j \in DOMAIN J, NEW k \in DOMAIN J, j # k, Equal(J[j], J[k]),
                 Searchable(J[j]), Searchable(J[k])
          PROVE  J[j].summary \in raced'
      <3>1. CASE j # n /\ k # n
        BY <2>2, <2>5, <3>1 DEF TrackerInv, NoDuplicateUnlessRaced, Keys
      <3>2. CASE j = n
        <4>1. Equal(issues[k], w) /\ k \in DOMAIN issues /\ Searchable(issues[k])
          BY <2>2, <2>5, <3>2 DEF Equal
        <4>. QED BY <1>5, <2>2, <3>2, <4>1 DEF FreshWrite
      <3>3. CASE k = n
        <4>1. /\ Equal(issues[j], w) /\ j \in DOMAIN issues /\ J[j].summary = w.summary
              /\ Searchable(issues[j])
          BY <2>2, <2>5, <3>3 DEF Equal
        <4>. QED BY <1>5, <4>1 DEF FreshWrite
      <3>. QED BY <3>1, <3>2, <3>3
    <2>6. NoDuplicateUnlessRaced'
      BY <1>1, <2>5 DEF NoDuplicateUnlessRaced, Keys
    <2>. QED BY <1>1, <1>3, <1>4, <2>3, <2>4, <2>6 DEF TrackerInv
  <1>6. CASE w.kind # "create"
    <2>1. DOMAIN J = DOMAIN issues /\ \A k \in DOMAIN issues : Equal(J[k], issues[k]) /\ J[k].link = issues[k].link
      BY <1>1, <1>2, <1>6, ChangeApplied DEF Evolves
    <2>2. ASSUME NEW d \in Callers PROVE PendingOK(opOf'[d], J, raced')
      BY <2>1 DEF TrackerInv, PendingOK, SameAs, Equal, Searchable
    <2>3. ASSUME NEW l \in late' PROVE FreshWrite(l.write, J, raced')
      BY <2>1 DEF TrackerInv, FreshWrite, Equal, Searchable
    <2>4. NoDuplicateUnlessRaced'
      BY <1>1, <2>1 DEF TrackerInv, NoDuplicateUnlessRaced, Keys, Equal, Searchable
    <2>. QED BY <1>1, <1>3, <1>4, <2>2, <2>3, <2>4 DEF TrackerInv
  <1>. QED BY <1>5, <1>6

\* One operation moves, and no issue changes.
LEMMA OpMoves ==
  ASSUME TrackerInv, NEW c \in Callers, NEW n, SetOp(c, n),
         OpOK(n, c, issues, config), PendingOK(n, issues, raced),
         UNCHANGED <<config, issues, raced, accepted, now, edits>>, faults' \in 0..MaxFaults,
         \A l \in late' : FreshWrite(l.write, issues, raced),
         sent \subseteq sent',
         \A d \in sent' : OptedIn(d, issues, config) /\ d.timestamp \in Nat
  PROVE  TrackerInv'
  <1>1. /\ opOf' = [d \in Callers |-> opOf'[d]] /\ opOf'[c] = n
        /\ \A d \in Callers : d # c => opOf'[d] = opOf[d]
    BY DEF TrackerInv, SetOp
  <1>2. /\ \A d \in Callers : OpOK(opOf'[d], d, issues, config)
        /\ \A d \in Callers : PendingOK(opOf'[d], issues, raced)
    BY <1>1 DEF TrackerInv
  <1>. QED BY <1>1, <1>2 DEF TrackerInv, NoDuplicateUnlessRaced, Keys

\* The operation n is operation o at its end, with answer a.
Ended(n, o, a) ==
  /\ IsOp(n) /\ n.pc = "idle" /\ n.left = <<>> /\ n.answer = a
  /\ n.req = o.req /\ n.key = o.key /\ n.did = o.did /\ n.opted = o.opted

\* An operation ends with an answer.
LEMMA DoneEnds ==
  ASSUME NEW o, IsOp(o), NEW a \in Answers
  PROVE  Ended(Done(o, a), o, a)
  <1>1. PICK n : n = Done(o, a)
    OBVIOUS
  <1>2. n = [pc |-> "idle", req |-> o.req, key |-> o.key, left |-> <<>>, prev |-> "none",
             answer |-> a, code |-> o.code, did |-> o.did, opted |-> o.opted]
    BY <1>1 DEF Done, IsOp
  <1>3. <<>> \in Seq(Nat)
    OBVIOUS
  <1>. QED BY <1>1, <1>2, <1>3 DEF Ended, IsOp

\* An operation ends with an error (_error_result).
LEMMA ErrorEnds ==
  ASSUME NEW o, IsOp(o), NEW code
  PROVE  Ended(ErrorResult(o, code), o, "error")
  <1>1. PICK n : n = Done(o, "error")
    OBVIOUS
  <1>2. Ended(n, o, "error")
    BY <1>1, DoneEnds DEF Answers
  <1>3. PICK m : m = [n EXCEPT !.code = code]
    OBVIOUS
  <1>4. m = ErrorResult(o, code)
    BY <1>1, <1>3 DEF ErrorResult
  <1>5. m = [pc |-> n.pc, req |-> n.req, key |-> n.key, left |-> n.left, prev |-> n.prev,
             answer |-> n.answer, code |-> code, did |-> n.did, opted |-> n.opted]
    BY <1>2, <1>3 DEF Ended, IsOp
  <1>6. Ended(m, o, "error")
    BY <1>2, <1>5 DEF Ended, IsOp
  <1>. QED BY <1>4, <1>6

\* An error may be answered at any point, before or after a write.
LEMMA ErrorAnswered ==
  ASSUME NEW o, NEW c, NEW I, NEW g, NEW J, OpOK(o, c, I, g), o.pc # "idle",
         NEW n, IsOp(n), n.pc = "idle", n.answer = "error", n.req = o.req,
         n.did = o.did \/ (n.req.tool = "transition-status" => n.req.target \in Targets(g))
  PROVE  OpOK(n, c, J, g)
  <1>1. o.req \in Requests[c]
    BY DEF OpOK
  <1>2. (n.req.tool = "transition-status" /\ n.req.target \notin Targets(g)) => n.did = {}
    BY DEF OpOK
  <1>3. Truthful(n, J, g)
    BY <1>2 DEF Truthful
  <1>. QED BY <1>1, <1>3 DEF OpOK

\* _request with a write: `next' is right once the write is applied.
LEMMA SendStep ==
  ASSUME Site, TrackerInv, NEW c \in Callers, NEW w, NEW next, Send(c, w, next),
         opOf[c].pc # "idle",
         opOf[c].req.tool = "transition-status" => opOf[c].req.target \in Targets(config),
         FreshWrite(w, issues, raced),
         Accepts(w) =>
           LET n == [next EXCEPT !.did = @ \cup {w.kind}] IN
           OpOK(n, c, Applied(w), config) /\ n.pc # "create"
  PROVE  TrackerInv'
  <1>. PICK o : o = opOf[c]
    OBVIOUS
  <1>1. /\ OpOK(o, c, issues, config) /\ o.pc # "idle" /\ IsOp(o) /\ MaxFaults \in Nat
        /\ faults \in 0..MaxFaults /\ IssuesOK(issues)
        /\ UNCHANGED <<config, sent, accepted, now, edits>>
    BY DEF TrackerInv, OpOK, Send, Site
  <1>2. ASSUME Accepts(w), issues' = Applied(w), Raced(c, w), NEW n, SetOp(c, n),
               OpOK(n, c, issues', config), n.pc # "create", UNCHANGED late,
               faults' \in 0..MaxFaults
        PROVE  TrackerInv'
    <2>1. Evolves(issues, issues') /\ LabelsKept(issues, issues')
      <3>1. PICK J : J = Applied(w)
        OBVIOUS
      <3>2. Evolves(issues, J) /\ LabelsKept(issues, J)
        BY <1>1, <1>2, <3>1, CreateApplied, ChangeApplied
      <3>. QED BY <1>2, <3>1, <3>2
    <2>2. /\ opOf' = [d \in Callers |-> opOf'[d]] /\ opOf'[c] = n
          /\ \A d \in Callers : d # c => opOf'[d] = opOf[d]
      BY <1>2 DEF TrackerInv, SetOp
    <2>3. ASSUME NEW d \in Callers PROVE OpOK(opOf'[d], d, issues', config)
      <3>1. CASE d = c
        BY <1>2, <2>2, <3>1
      <3>2. CASE d # c
        <4>1. PICK p, J : p = opOf[d] /\ J = issues'
          OBVIOUS
        <4>2. OpOK(p, d, issues, config) /\ Evolves(issues, J) /\ LabelsKept(issues, J)
          BY <2>1, <4>1 DEF TrackerInv
        <4>3. OpOK(p, d, J, config)
          BY <4>2, OpStays
        <4>. QED BY <2>2, <3>2, <4>1, <4>3
      <3>. QED BY <3>1, <3>2
    <2>4. \A d \in Callers : opOf'[d].pc = "create" => opOf'[d] = opOf[d] /\ d # c
      BY <1>2, <2>2
    <2>5. raced \subseteq raced'
      BY <1>2 DEF Raced
    <2>6. w.kind = "create" =>
           /\ \A d \in Callers : opOf'[d].pc = "create" /\ opOf'[d].req.summary = w.summary =>
                w.summary \in raced'
           /\ \A l \in late' : l.write.kind = "create" /\ l.write.summary = w.summary =>
                w.summary \in raced'
      BY <1>2, <2>4 DEF Raced, RacesWith
    <2>7. edits' \in 0..MaxEdits
      BY <1>1 DEF TrackerInv
    <2>. QED BY <1>1, <1>2, <2>2, <2>3, <2>4, <2>5, <2>6, <2>7, WriteLands
  <1>3. ASSUME NEW n, SetOp(c, n), Ended(n, o, "error"), UNCHANGED <<issues, raced>>,
               faults' \in 0..MaxFaults,
               \A l \in late' : FreshWrite(l.write, issues, raced)
        PROVE  TrackerInv'
    <2>1. OpOK(n, c, issues, config) /\ PendingOK(n, issues, raced)
      BY <1>1, <1>3, ErrorAnswered DEF Ended, PendingOK
    <2>2. \A d \in sent' : OptedIn(d, issues, config) /\ d.timestamp \in Nat
      BY <1>1 DEF TrackerInv
    <2>. QED BY <1>1, <1>3, <2>1, <2>2, OpMoves
  <1>4. CASE /\ Accepts(w)
             /\ issues' = Applied(w) /\ Raced(c, w)
             /\ SetOp(c, [next EXCEPT !.did = @ \cup {w.kind}])
             /\ UNCHANGED <<late, faults>>
    BY <1>1, <1>2, <1>4
  <1>5. CASE /\ Accepts(w) /\ faults < MaxFaults
             /\ issues' = Applied(w) /\ Raced(c, w)
             /\ SetOp(c, [ErrorResult(opOf[c], "upstream-unavailable")
                              EXCEPT !.did = @ \cup {w.kind}])
             /\ faults' = faults + 1 /\ UNCHANGED late
    <2>1. PICK e : e = ErrorResult(o, "upstream-unavailable")
      OBVIOUS
    <2>2. Ended(e, o, "error")
      BY <1>1, <2>1, ErrorEnds
    <2>3. PICK n : n = [e EXCEPT !.did = @ \cup {w.kind}]
      OBVIOUS
    <2>4. IsOp(n) /\ n.pc = "idle" /\ n.answer = "error" /\ n.req = o.req
      BY <2>2, <2>3 DEF Ended, IsOp
    <2>5. PICK J : J = issues'
      OBVIOUS
    <2>6. OpOK(n, c, J, config)
      BY <1>1, <2>4, ErrorAnswered
    <2>7. SetOp(c, n) /\ faults' \in 0..MaxFaults
      BY <1>1, <1>5, <2>1, <2>3
    <2>. QED BY <1>2, <1>5, <2>4, <2>5, <2>6, <2>7
  <1>6. CASE /\ faults < MaxFaults
             /\ late' = late \cup {[by |-> c, nth |-> ops[c], write |-> w]}
             /\ SetOp(c, ErrorResult(opOf[c], "upstream-unavailable"))
             /\ faults' = faults + 1 /\ UNCHANGED <<issues, raced>>
    <2>1. \A l \in late' : FreshWrite(l.write, issues, raced)
      BY <1>6 DEF TrackerInv
    <2>2. Ended(ErrorResult(o, "upstream-unavailable"), o, "error")
      BY <1>1, ErrorEnds
    <2>. QED BY <1>1, <1>3, <1>6, <2>1, <2>2
  <1>7. CASE \E status \in {"404", "403", "429"} :
             /\ faults < MaxFaults
             /\ SetOp(c, ErrorResult(opOf[c], FromHttpResponse(status)))
             /\ faults' = faults + 1 /\ UNCHANGED <<issues, late, raced>>
    <2>1. PICK code : /\ SetOp(c, ErrorResult(o, code))
                      /\ faults' \in 0..MaxFaults /\ UNCHANGED <<issues, late, raced>>
      BY <1>1, <1>7
    <2>2. Ended(ErrorResult(o, code), o, "error")
      BY <1>1, ErrorEnds
    <2>. QED BY <1>3, <2>1, <2>2 DEF TrackerInv
  <1>8. CASE /\ SetOp(c, ErrorResult(opOf[c], FromHttpResponse(Refusal(w))))
             /\ UNCHANGED <<issues, late, raced, faults>>
    <2>1. PICK code : SetOp(c, ErrorResult(o, code))
      BY <1>8
    <2>2. Ended(ErrorResult(o, code), o, "error")
      BY <1>1, ErrorEnds
    <2>. QED BY <1>1, <1>3, <1>8, <2>1, <2>2 DEF TrackerInv
  <1>. QED BY <1>4, <1>5, <1>6, <1>7, <1>8 DEF Send

\* The operation n is operation o at step p; n is operation o with write k noted.
Moved(n, o, p) ==
  /\ IsOp(n) /\ n.pc = p /\ n.left = o.left /\ n.answer = o.answer
  /\ n.req = o.req /\ n.key = o.key /\ n.did = o.did /\ n.opted = o.opted

Noted(n, o, k) ==
  /\ IsOp(n) /\ n.pc = o.pc /\ n.left = o.left /\ n.answer = o.answer
  /\ n.req = o.req /\ n.key = o.key /\ n.did = o.did \cup {k} /\ n.opted = o.opted

\* The next step of an operation, whatever status it has read on the way.
LEMMA StepMoves ==
  ASSUME NEW o, IsOp(o), NEW p, NEW s
  PROVE  /\ Moved([o EXCEPT !.pc = p], o, p)
         /\ Moved([o EXCEPT !.pc = p, !.prev = s], o, p)
  <1>1. PICK n : n = [o EXCEPT !.pc = p]
    OBVIOUS
  <1>2. n = [pc |-> p, req |-> o.req, key |-> o.key, left |-> o.left, prev |-> o.prev,
             answer |-> o.answer, code |-> o.code, did |-> o.did, opted |-> o.opted]
    BY <1>1 DEF IsOp
  <1>3. PICK m : m = [o EXCEPT !.pc = p, !.prev = s]
    OBVIOUS
  <1>4. m = [pc |-> p, req |-> o.req, key |-> o.key, left |-> o.left, prev |-> s,
             answer |-> o.answer, code |-> o.code, did |-> o.did, opted |-> o.opted]
    BY <1>3 DEF IsOp
  <1>5. o.left \in Seq(Nat) /\ o.answer \in Answers
    BY DEF IsOp
  <1>6. Moved(n, o, p)
    BY <1>2, <1>5 DEF Moved, IsOp
  <1>7. Moved(m, o, p)
    BY <1>4, <1>5 DEF Moved, IsOp
  <1>. QED BY <1>1, <1>3, <1>6, <1>7

\* A write that was answered is noted in the operation.
LEMMA WriteNoted ==
  ASSUME NEW o, IsOp(o), NEW k
  PROVE  Noted([o EXCEPT !.did = @ \cup {k}], o, k)
  <1>1. PICK n : n = [o EXCEPT !.did = @ \cup {k}]
    OBVIOUS
  <1>2. n = [pc |-> o.pc, req |-> o.req, key |-> o.key, left |-> o.left, prev |-> o.prev,
             answer |-> o.answer, code |-> o.code, did |-> o.did \cup {k}, opted |-> o.opted]
    BY <1>1 DEF IsOp
  <1>3. o.left \in Seq(Nat) /\ o.answer \in Answers
    BY DEF IsOp
  <1>. QED BY <1>1, <1>2, <1>3 DEF Noted, IsOp

\* An operation on one issue, or on none, whose end claims nothing.
LEMMA PlainAnswered ==
  ASSUME NEW o, NEW c, NEW I, NEW g, OpOK(o, c, I, g), o.pc # "idle", NEW a, a # "none",
         o.did = {}, o.req.tool \notin {"create-epic", "create-story"},
         o.req.tool = "transition-status" => a # "ok",
         NEW n, Ended(n, o, a), NEW R
  PROVE  OpOK(n, c, I, g) /\ PendingOK(n, I, R)
  <1>1. Truthful(n, I, g)
    BY DEF Ended, Truthful
  <1>2. o.req \in Requests[c]
    BY DEF OpOK
  <1>3. OpOK(n, c, I, g)
    BY <1>1, <1>2 DEF OpOK, Ended
  <1>. QED BY <1>3 DEF Ended, PendingOK

\* _request with a read: `next' is right for the issues as they are.
LEMMA FetchStep ==
  ASSUME Site, TrackerInv, NEW c \in Callers, NEW next, Fetch(c, next),
         opOf[c].pc # "idle", OpOK(next, c, issues, config), PendingOK(next, issues, raced)
  PROVE  TrackerInv'
  <1>. PICK o : o = opOf[c]
    OBVIOUS
  <1>1. /\ OpOK(o, c, issues, config) /\ o.pc # "idle" /\ IsOp(o) /\ MaxFaults \in Nat
        /\ faults \in 0..MaxFaults
        /\ UNCHANGED <<config, issues, late, raced, sent, accepted, now, edits>>
        /\ \A l \in late : FreshWrite(l.write, issues, raced)
        /\ \A d \in sent : OptedIn(d, issues, config) /\ d.timestamp \in Nat
    BY DEF TrackerInv, OpOK, Fetch, Site
  <1>2. CASE SetOp(c, next) /\ UNCHANGED faults
    BY <1>1, <1>2, OpMoves
  <1>3. CASE \E status \in {"404", "403", "429", "500"} :
               /\ faults < MaxFaults
               /\ SetOp(c, ErrorResult(opOf[c], FromHttpResponse(status)))
               /\ faults' = faults + 1
    <2>1. PICK code : SetOp(c, ErrorResult(o, code)) /\ faults' \in 0..MaxFaults
      BY <1>1, <1>3
    <2>2. PICK n : n = ErrorResult(o, code)
      OBVIOUS
    <2>3. Ended(n, o, "error")
      BY <1>1, <2>2, ErrorEnds
    <2>4. OpOK(n, c, issues, config) /\ PendingOK(n, issues, raced)
      BY <1>1, <2>3, ErrorAnswered DEF Ended, PendingOK
    <2>. QED BY <1>1, <2>1, <2>2, <2>4, OpMoves
  <1>. QED BY <1>2, <1>3 DEF Fetch

\* An operation moves without a request.
LEMMA QuietStep ==
  ASSUME TrackerInv, NEW c \in Callers, NEW n, SetOp(c, n),
         OpOK(n, c, issues, config), PendingOK(n, issues, raced),
         UNCHANGED <<config, issues, late, raced, sent, accepted, now, faults, edits>>
  PROVE  TrackerInv'
  <1>1. /\ \A l \in late : FreshWrite(l.write, issues, raced) /\ faults \in 0..MaxFaults
        /\ \A d \in sent : OptedIn(d, issues, config) /\ d.timestamp \in Nat
    BY DEF TrackerInv
  <1>2. faults \in 0..MaxFaults
    BY DEF TrackerInv
  <1>. QED BY <1>1, <1>2, OpMoves

\* on_call_tool
LEMMA CallToolKeeps ==
  ASSUME Site, TrackerInv, NEW c \in Callers, NEW r \in Requests[c], OnCallTool(c, r)
  PROVE  TrackerInv'
  <1>a. PICK label : label = IF r.key \in Keys THEN issues[r.key].opted ELSE "no"
    OBVIOUS
  <1>b. PICK o : o = [NoOperation EXCEPT !.req = r, !.key = r.key, !.opted = label]
    OBVIOUS
  <1>1. /\ IsOp(o) /\ o.pc = "idle" /\ o.req = r /\ o.key = r.key /\ o.left = <<>>
        /\ o.did = {} /\ o.answer = "none" /\ o.opted = label
    <2>1. o = [pc |-> "idle", req |-> r, key |-> r.key, left |-> <<>>, prev |-> "none",
               answer |-> "none", code |-> "none", did |-> {}, opted |-> label]
      BY <1>b DEF NoOperation
    <2>2. <<>> \in Seq(Nat)
      OBVIOUS
    <2>. QED BY <2>1, <2>2 DEF IsOp, Answers
  <1>2. r.key \in DOMAIN issues /\ issues[r.key].opted = "yes" => o.opted = "yes"
    BY <1>a, <1>1 DEF Keys
  <1>3. UNCHANGED <<config, issues, late, raced, sent, accepted, now, faults, edits>>
    BY DEF OnCallTool
  <1>4. ASSUME NEW a \in {"error", "malformed", "raised"}, NEW n, Ended(n, o, a)
        PROVE  OpOK(n, c, issues, config) /\ PendingOK(n, issues, raced)
    <2>1. Truthful(n, issues, config)
      BY <1>1, <1>4 DEF Ended, Truthful
    <2>. QED BY <1>1, <1>4, <2>1 DEF Ended, OpOK, PendingOK
  <1>5. CASE SetOp(c, ErrorResult(o, "not-found"))
    <2>1. PICK n : n = ErrorResult(o, "not-found")
      OBVIOUS
    <2>2. Ended(n, o, "error")
      BY <1>1, <2>1, ErrorEnds
    <2>. QED BY <1>3, <1>4, <1>5, <2>1, <2>2, QuietStep
  <1>6. ASSUME NEW a \in {"malformed", "raised"}, SetOp(c, Done(o, a)) PROVE TrackerInv'
    <2>1. PICK n : n = Done(o, a)
      OBVIOUS
    <2>2. Ended(n, o, a)
      BY <1>1, <1>6, <2>1, DoneEnds DEF Answers
    <2>. QED BY <1>3, <1>4, <1>6, <2>1, <2>2, QuietStep
  <1>7. CASE r.tool \in Tools /\ SetOp(c, [o EXCEPT !.pc = FirstStep(r)])
    <2>1. PICK p : p = FirstStep(r)
      OBVIOUS
    <2>2. PICK n : n = [o EXCEPT !.pc = p]
      OBVIOUS
    <2>3. Moved(n, o, p)
      BY <1>1, <2>2, StepMoves
    <2>4. \/ p = "search" /\ r.tool \in {"create-epic", "create-story"}
          \/ p = "status" /\ r.tool = "transition-status"
          \/ p = "comment" /\ r.tool = "post-comment"
          \/ /\ p \in {"get", "assignee", "rovo", "refetch"}
             /\ r.tool \in {"get-issue", "assign", "confluence", "event"}
      BY <1>7, <2>1 DEF FirstStep, Tools
    <2>5. OpOK(n, c, issues, config)
      BY <1>1, <1>2, <2>3, <2>4 DEF Moved, OpOK
    <2>6. PendingOK(n, issues, raced)
      BY <2>3, <2>4 DEF Moved, PendingOK
    <2>. QED BY <1>3, <1>7, <2>1, <2>2, <2>5, <2>6, QuietStep
  <1>8. \/ SetOp(c, ErrorResult(o, "not-found"))
        \/ SetOp(c, Done(o, "malformed"))
        \/ SetOp(c, Done(o, "raised"))
        \/ r.tool \in Tools /\ SetOp(c, [o EXCEPT !.pc = FirstStep(r)])
    <2>1. SetOp(c,
            CASE r.tool \notin Tools -> ErrorResult(o, "not-found")
              [] r.tool \in Tools /\ ~r.valid -> Done(o, "malformed")
              [] r.tool \in Tools /\ r.valid /\ ~config.complete -> Done(o, "raised")
              [] OTHER -> [o EXCEPT !.pc = FirstStep(r)])
      BY <1>a, <1>b DEF OnCallTool
    <2>. QED BY <2>1
  <1>. QED BY <1>5, <1>6, <1>7, <1>8

\* What an operation under way may rely on.
LEMMA UnderWay ==
  ASSUME TrackerInv, NEW c \in Callers, NEW o, o = opOf[c], o.pc # "idle"
  PROVE  /\ OpOK(o, c, issues, config) /\ IsOp(o) /\ o.answer = "none"
         /\ o.req \in Requests[c] /\ PendingOK(o, issues, raced) /\ IssuesOK(issues)
         /\ o.key \in DOMAIN issues /\ issues[o.key].opted = "yes" => o.opted = "yes"
         /\ (o.req.tool = "transition-status" /\ o.req.target \notin Targets(config)) =>
              o.did = {}
  <1>1. OpOK(o, c, issues, config) /\ PendingOK(o, issues, raced) /\ IssuesOK(issues)
    BY DEF TrackerInv
  <1>. QED BY <1>1 DEF OpOK

\* The search of a creation: nothing found is what the creation relies on.
LEMMA SearchKeeps ==
  ASSUME Site, TrackerInv, NEW c \in Callers, Search(c)
  PROVE  TrackerInv'
  <1>1. PICK o : o = opOf[c]
    OBVIOUS
  <1>2. o.pc = "search"
    BY <1>1 DEF Search
  <1>3. /\ OpOK(o, c, issues, config) /\ IsOp(o) /\ o.answer = "none"
        /\ o.req \in Requests[c]
        /\ o.key \in DOMAIN issues /\ issues[o.key].opted = "yes" => o.opted = "yes"
    BY <1>1, <1>2, UnderWay
  <1>4. o.req.tool \in {"create-epic", "create-story"} /\ o.did = {}
    BY <1>2, <1>3 DEF OpOK
  <1>5. CASE FindExisting(o.req) = {}
    <2>1. PICK n : n = [o EXCEPT !.pc = "create"]
      OBVIOUS
    <2>2. Moved(n, o, "create")
      BY <1>3, <2>1, StepMoves
    <2>3. Fetch(c, n)
      BY <1>1, <1>5, <2>1 DEF Search
    <2>4. OpOK(n, c, issues, config)
      BY <1>3, <1>4, <2>2 DEF Moved, OpOK
    <2>5. PendingOK(n, issues, raced)
      BY <1>5, <2>2 DEF Moved, PendingOK, FindExisting, Same, Searchable, Keys
    <2>. QED BY <1>1, <1>2, <2>3, <2>4, <2>5, FetchStep
  <1>6. CASE FindExisting(o.req) # {}
    <2>1. PICK k \in FindExisting(o.req) : Fetch(c, [Done(o, "empty") EXCEPT !.key = k])
      BY <1>1, <1>6 DEF Search
    <2>2. k \in DOMAIN issues /\ SameAs(issues[k], o.req)
      BY <2>1 DEF FindExisting, Same, Keys
    <2>3. PICK m : m = Done(o, "empty")
      OBVIOUS
    <2>4. Ended(m, o, "empty")
      BY <1>3, <2>3, DoneEnds DEF Answers
    <2>5. PICK n : n = [m EXCEPT !.key = k]
      OBVIOUS
    <2>6. n = [pc |-> m.pc, req |-> m.req, key |-> k, left |-> m.left, prev |-> m.prev,
               answer |-> m.answer, code |-> m.code, did |-> m.did, opted |-> m.opted]
      BY <2>4, <2>5 DEF Ended, IsOp
    <2>7. /\ IsOp(n) /\ n.pc = "idle" /\ n.req = o.req /\ n.key = k /\ n.answer = "empty"
          /\ n.did = {}
      BY <1>4, <2>4, <2>6 DEF Ended, IsOp
    <2>8. Truthful(n, issues, config)
      BY <2>2, <2>7 DEF Truthful
    <2>9. OpOK(n, c, issues, config) /\ PendingOK(n, issues, raced)
      BY <1>3, <2>7, <2>8 DEF OpOK, PendingOK
    <2>. QED BY <1>1, <1>2, <2>1, <2>3, <2>5, <2>9, FetchStep
  <1>. QED BY <1>5, <1>6

\* What a creation sends is fresh, because its search found nothing or because
\* it was raced since.
LEMMA CreationIsFresh ==
  ASSUME NEW o, NEW R, NEW I, PendingOK(o, I, R), o.pc = "create", NEW w,
         w.summary = o.req.summary,
         \/ o.req.tool = "create-epic" /\ w.type = "Epic"
         \/ o.req.tool = "create-story" /\ w.type = "Story" /\ w.epic = o.req.epic
  PROVE  FreshWrite(w, I, R)
  BY DEF PendingOK, FreshWrite, Equal, SameAs

\* create_epic
LEMMA CreateEpicKeeps ==
  ASSUME Site, TrackerInv, NEW c \in Callers, CreateEpic(c)
  PROVE  TrackerInv'
  <1>1. PICK o : o = opOf[c]
    OBVIOUS
  <1>2. o.pc = "create" /\ o.req.tool = "create-epic"
    BY <1>1 DEF CreateEpic
  <1>3. /\ OpOK(o, c, issues, config) /\ IsOp(o) /\ o.req \in Requests[c]
        /\ PendingOK(o, issues, raced) /\ IssuesOK(issues)
    BY <1>1, <1>2, UnderWay
  <1>4. PICK w : w = [kind |-> "create", type |-> "Epic", summary |-> o.req.summary, epic |-> 0,
                      link |-> "none"]
    OBVIOUS
  <1>5. w.kind = "create" /\ w.type = "Epic" /\ w.summary = o.req.summary
    BY <1>4
  <1>6. PICK e : e = Done(o, "ok")
    OBVIOUS
  <1>7. Ended(e, o, "ok") /\ o.did = {}
    BY <1>2, <1>3, <1>6, DoneEnds DEF Answers, OpOK
  <1>8. PICK k : k = Len(issues) + 1
    OBVIOUS
  <1>9. PICK m : m = [e EXCEPT !.key = k]
    OBVIOUS
  <1>10. m = [pc |-> e.pc, req |-> e.req, key |-> k, left |-> e.left, prev |-> e.prev,
              answer |-> e.answer, code |-> e.code, did |-> e.did, opted |-> e.opted]
    BY <1>7, <1>9 DEF Ended, IsOp
  <1>11. /\ IsOp(m) /\ m.pc = "idle" /\ m.req = o.req /\ m.key = k /\ m.answer = "ok"
         /\ m.left = <<>>
    BY <1>7, <1>10 DEF Ended, IsOp
  <1>12. Send(c, w, m)
    BY <1>1, <1>4, <1>6, <1>8, <1>9 DEF CreateEpic
  <1>13. FreshWrite(w, issues, raced)
    BY <1>2, <1>3, <1>5, CreationIsFresh
  <1>14. ASSUME Accepts(w), NEW n, n = [m EXCEPT !.did = @ \cup {w.kind}]
         PROVE  OpOK(n, c, Applied(w), config) /\ n.pc # "create"
    <2>1. Noted(n, m, w.kind)
      BY <1>11, <1>14, WriteNoted
    <2>2. PICK J : J = Applied(w)
      OBVIOUS
    <2>3. k \in DOMAIN J /\ J[k] = NewIssue(w)
      BY <1>3, <1>5, <1>8, <1>14, <2>2, CreateApplied
    <2>4. SameAs(J[k], o.req)
      BY <1>2, <1>5, <2>3 DEF NewIssue, SameAs
    <2>5. ToSet(o.req.deps) = {}
      BY <1>2, <1>3 DEF Site, ToSet
    <2>6. Truthful(n, J, config)
      BY <1>2, <1>11, <2>1, <2>3, <2>4, <2>5 DEF Noted, Truthful, Linked
    <2>7. OpOK(n, c, J, config) /\ n.pc # "create"
      BY <1>2, <1>3, <1>11, <2>1, <2>6 DEF Noted, OpOK
    <2>. QED BY <2>2, <2>7
  <1>. QED BY <1>1, <1>2, <1>12, <1>13, <1>14, SendStep

\* The story's answer, or its next link, once its issue J[o.key] is there.
LEMMA StoryGoesOn ==
  ASSUME NEW o, IsOp(o), NEW c, NEW J, NEW g, Linked(o, J), o.answer = "none",
         o.req \in Requests[c], o.req.tool = "create-story",
         o.key \in DOMAIN J /\ J[o.key].opted = "yes" => o.opted = "yes",
         NEW k, NEW n, n = [AfterLink(o) EXCEPT !.did = @ \cup {k}]
  PROVE  OpOK(n, c, J, g) /\ n.pc # "create"
  <1>1. CASE o.left = <<>>
    <2>1. PICK e : e = Done(o, "ok")
      OBVIOUS
    <2>2. Ended(e, o, "ok")
      BY <2>1, DoneEnds DEF Answers
    <2>3. n = [e EXCEPT !.did = @ \cup {k}]
      BY <1>1, <2>1 DEF AfterLink
    <2>4. Noted(n, e, k)
      BY <2>2, <2>3, WriteNoted DEF Ended
    <2>5. Truthful(n, J, g)
      BY <1>1, <2>2, <2>4 DEF Ended, Noted, Truthful, Linked
    <2>. QED BY <2>2, <2>4, <2>5 DEF Ended, Noted, OpOK
  <1>2. CASE o.left # <<>>
    <2>1. PICK e : e = [o EXCEPT !.pc = "link"]
      OBVIOUS
    <2>2. Moved(e, o, "link")
      BY <2>1, StepMoves
    <2>3. n = [e EXCEPT !.did = @ \cup {k}]
      BY <1>2, <2>1 DEF AfterLink
    <2>4. Noted(n, e, k)
      BY <2>2, <2>3, WriteNoted DEF Moved
    <2>5. Linked(n, J)
      BY <2>2, <2>4 DEF Moved, Noted, Linked
    <2>. QED BY <1>2, <2>2, <2>4, <2>5 DEF Moved, Noted, OpOK
  <1>. QED BY <1>1, <1>2

\* create_story
LEMMA CreateStoryKeeps ==
  ASSUME Site, TrackerInv, NEW c \in Callers, CreateStory(c)
  PROVE  TrackerInv'
  <1>1. PICK o : o = opOf[c]
    OBVIOUS
  <1>2. o.pc = "create" /\ o.req.tool = "create-story"
    BY <1>1 DEF CreateStory
  <1>3. /\ OpOK(o, c, issues, config) /\ IsOp(o) /\ o.req \in Requests[c]
        /\ PendingOK(o, issues, raced) /\ IssuesOK(issues) /\ o.answer = "none"
    BY <1>1, <1>2, UnderWay
  <1>4. PICK w : w = [kind |-> "create", type |-> "Story", summary |-> o.req.summary,
                      epic |-> o.req.epic, link |-> config.epicLink]
    OBVIOUS
  <1>5. w.kind = "create" /\ w.type = "Story" /\ w.summary = o.req.summary /\ w.epic = o.req.epic
    BY <1>4
  <1>6. PICK k : k = Len(issues) + 1
    OBVIOUS
  <1>7. PICK m : m = [o EXCEPT !.key = k, !.left = o.req.deps]
    OBVIOUS
  <1>8. m = [pc |-> o.pc, req |-> o.req, key |-> k, left |-> o.req.deps, prev |-> o.prev,
             answer |-> o.answer, code |-> o.code, did |-> o.did, opted |-> o.opted]
    BY <1>3, <1>7 DEF IsOp
  <1>9. o.req.deps \in Seq(Nat)
    BY <1>3 DEF Site
  <1>10. /\ IsOp(m) /\ m.req = o.req /\ m.key = k /\ m.left = o.req.deps
         /\ m.answer = "none"
    BY <1>3, <1>8, <1>9 DEF IsOp
  <1>11. Send(c, w, AfterLink(m))
    BY <1>1, <1>4, <1>6, <1>7 DEF CreateStory
  <1>12. FreshWrite(w, issues, raced)
    BY <1>2, <1>3, <1>5, CreationIsFresh
  <1>13. ASSUME Accepts(w), NEW n, n = [AfterLink(m) EXCEPT !.did = @ \cup {w.kind}]
         PROVE  OpOK(n, c, Applied(w), config) /\ n.pc # "create"
    <2>1. PICK J : J = Applied(w)
      OBVIOUS
    <2>2. k \in DOMAIN J /\ J[k] = NewIssue(w)
      BY <1>3, <1>5, <1>6, <1>13, <2>1, CreateApplied
    <2>3. SameAs(J[k], o.req) /\ J[k].opted = "no"
      BY <1>2, <1>5, <2>2 DEF NewIssue, SameAs
    <2>4. Linked(m, J)
      BY <1>10, <2>2, <2>3 DEF Linked
    <2>5. OpOK(n, c, J, config) /\ n.pc # "create"
      BY <1>2, <1>3, <1>10, <1>13, <2>3, <2>4, StoryGoesOn
    <2>. QED BY <2>1, <2>5
  <1>. QED BY <1>1, <1>2, <1>11, <1>12, <1>13, SendStep

\* create_story without an id for the custom field: nothing was sent.
LEMMA NoEpicFieldKeeps ==
  ASSUME TrackerInv, NEW c \in Callers, NoEpicField(c)
  PROVE  TrackerInv'
  <1>1. PICK o : o = opOf[c]
    OBVIOUS
  <1>2. o.pc = "create"
    BY <1>1 DEF NoEpicField
  <1>3. OpOK(o, c, issues, config) /\ IsOp(o) /\ o.req \in Requests[c]
    BY <1>1, <1>2, UnderWay
  <1>4. o.did = {}
    BY <1>2, <1>3 DEF OpOK
  <1>5. PICK n : n = Done(o, "raised")
    OBVIOUS
  <1>6. Ended(n, o, "raised")
    BY <1>3, <1>5, DoneEnds DEF Answers
  <1>7. Truthful(n, issues, config)
    BY <1>4, <1>6 DEF Ended, Truthful
  <1>8. OpOK(n, c, issues, config) /\ PendingOK(n, issues, raced)
    BY <1>3, <1>4, <1>6, <1>7 DEF Ended, OpOK, PendingOK
  <1>9. /\ SetOp(c, n)
        /\ UNCHANGED <<config, issues, late, raced, sent, accepted, now, faults, edits>>
    BY <1>1, <1>5 DEF NoEpicField
  <1>. QED BY <1>8, <1>9, QuietStep

\* _create_blocks_link: one link less to make.
LEMMA CreateBlocksLinkKeeps ==
  ASSUME Site, TrackerInv, NEW c \in Callers, CreateBlocksLink(c)
  PROVE  TrackerInv'
  <1>1. PICK o : o = opOf[c]
    OBVIOUS
  <1>2. o.pc = "link"
    BY <1>1 DEF CreateBlocksLink
  <1>3. /\ OpOK(o, c, issues, config) /\ IsOp(o) /\ o.req \in Requests[c]
        /\ IssuesOK(issues) /\ o.answer = "none"
        /\ o.key \in DOMAIN issues /\ issues[o.key].opted = "yes" => o.opted = "yes"
    BY <1>1, <1>2, UnderWay
  <1>4. o.req.tool = "create-story" /\ o.left # <<>> /\ Linked(o, issues)
    BY <1>2, <1>3 DEF OpOK
  <1>5. PICK w : w = [kind |-> "link", key |-> o.key, blocker |-> Head(o.left)]
    OBVIOUS
  <1>6. w.kind = "link" /\ w.key = o.key /\ w.blocker = Head(o.left)
    BY <1>5
  <1>7. o.left \in Seq(Nat) /\ Tail(o.left) \in Seq(Nat)
    BY <1>3, <1>4 DEF IsOp
  <1>8. ToSet(o.left) \subseteq {Head(o.left)} \cup ToSet(Tail(o.left))
    <2>1. SUFFICES ASSUME NEW i \in DOMAIN o.left
                   PROVE  o.left[i] \in {Head(o.left)} \cup ToSet(Tail(o.left))
      BY DEF ToSet
    <2>2. CASE i = 1
      BY <1>4, <1>7, <2>2
    <2>3. CASE i # 1
      <3>1. i - 1 \in DOMAIN Tail(o.left) /\ Tail(o.left)[i - 1] = o.left[i]
        BY <1>4, <1>7, <2>1, <2>3
      <3>. QED BY <3>1 DEF ToSet
    <2>. QED BY <2>2, <2>3
  <1>9. PICK m : m = [o EXCEPT !.left = Tail(o.left)]
    OBVIOUS
  <1>10. m = [pc |-> o.pc, req |-> o.req, key |-> o.key, left |-> Tail(o.left), prev |-> o.prev,
              answer |-> o.answer, code |-> o.code, did |-> o.did, opted |-> o.opted]
    BY <1>3, <1>9 DEF IsOp
  <1>11. /\ IsOp(m) /\ m.req = o.req /\ m.key = o.key /\ m.left = Tail(o.left)
         /\ m.answer = "none" /\ m.opted = o.opted
    BY <1>3, <1>7, <1>10 DEF IsOp
  <1>12. Send(c, w, AfterLink(m))
    BY <1>1, <1>5, <1>9 DEF CreateBlocksLink, LinksLeft
  <1>13. FreshWrite(w, issues, raced)
    BY <1>6 DEF FreshWrite
  <1>14. ASSUME Accepts(w), NEW n, n = [AfterLink(m) EXCEPT !.did = @ \cup {w.kind}]
         PROVE  OpOK(n, c, Applied(w), config) /\ n.pc # "create"
    <2>1. PICK J : J = Applied(w)
      OBVIOUS
    <2>2. /\ Evolves(issues, J) /\ LabelsKept(issues, J) /\ w.blocker \in J[w.key].blockers
      BY <1>3, <1>6, <1>14, <2>1, ChangeApplied
    <2>3. Linked(o, J)
      BY <1>4, <2>2 DEF Linked, Evolves, Equal, SameAs
    <2>4. Linked(m, J)
      BY <1>6, <1>8, <1>11, <2>2, <2>3 DEF Linked
    <2>5. m.key \in DOMAIN J /\ J[m.key].opted = "yes" => m.opted = "yes"
      BY <1>3, <1>11, <2>2 DEF LabelsKept
    <2>6. OpOK(n, c, J, config) /\ n.pc # "create"
      BY <1>3, <1>4, <1>11, <1>14, <2>4, <2>5, StoryGoesOn
    <2>. QED BY <2>1, <2>6
  <1>. QED BY <1>1, <1>2, <1>4, <1>12, <1>13, <1>14, SendStep

\* get_issue
LEMMA GetIssueKeeps ==
  ASSUME Site, TrackerInv, NEW c \in Callers, GetIssue(c)
  PROVE  TrackerInv'
  <1>1. PICK o : o = opOf[c]
    OBVIOUS
  <1>2. o.pc = "get"
    BY <1>1 DEF GetIssue
  <1>3. OpOK(o, c, issues, config) /\ IsOp(o)
    BY <1>1, <1>2, UnderWay
  <1>4. o.req.tool \in {"get-issue", "assign", "confluence", "event"} /\ o.did = {}
    BY <1>2, <1>3 DEF OpOK
  <1>5. CASE o.key \in Keys
    <2>1. PICK a \in {"ok", "empty"} : a = GetIssueAnswer(o.key)
      BY DEF GetIssueAnswer
    <2>2. PICK n : n = Done(o, a)
      OBVIOUS
    <2>3. a \in Answers
      BY DEF Answers
    <2>4. Ended(n, o, a)
      BY <1>3, <2>2, <2>3, DoneEnds
    <2>5. OpOK(n, c, issues, config) /\ PendingOK(n, issues, raced)
      BY <1>2, <1>3, <1>4, <2>4, PlainAnswered
    <2>6. Fetch(c, n)
      BY <1>1, <1>5, <2>1, <2>2 DEF GetIssue
    <2>. QED BY <1>1, <1>2, <2>5, <2>6, FetchStep
  <1>6. CASE o.key \notin Keys
    <2>1. PICK n : n = ErrorResult(o, FromHttpResponse("404"))
      OBVIOUS
    <2>2. Ended(n, o, "error")
      BY <1>3, <2>1, ErrorEnds
    <2>3. OpOK(n, c, issues, config) /\ PendingOK(n, issues, raced)
      BY <1>2, <1>3, <1>4, <2>2, PlainAnswered
    <2>4. /\ SetOp(c, n)
          /\ UNCHANGED <<config, issues, late, raced, sent, accepted, now, faults, edits>>
      BY <1>1, <1>6, <2>1 DEF GetIssue
    <2>. QED BY <2>3, <2>4, QuietStep
  <1>. QED BY <1>5, <1>6

\* transition_status: the target and the issue's status.
LEMMA ReadStatusKeeps ==
  ASSUME Site, TrackerInv, NEW c \in Callers, ReadStatus(c)
  PROVE  TrackerInv'
  <1>1. PICK o : o = opOf[c]
    OBVIOUS
  <1>2. o.pc = "status"
    BY <1>1 DEF ReadStatus
  <1>3. /\ OpOK(o, c, issues, config) /\ IsOp(o) /\ o.answer = "none"
        /\ o.req \in Requests[c]
        /\ o.key \in DOMAIN issues /\ issues[o.key].opted = "yes" => o.opted = "yes"
    BY <1>1, <1>2, UnderWay
  <1>4. o.req.tool = "transition-status" /\ o.did = {}
    BY <1>2, <1>3 DEF OpOK
  <1>5. AllowedTargetStatuses = Targets(config)
    BY DEF AllowedTargetStatuses, Targets
  <1>6. ASSUME NEW code, SetOp(c, ErrorResult(o, code)),
               UNCHANGED <<config, issues, late, raced, sent, accepted, now, faults, edits>>
        PROVE  TrackerInv'
    <2>1. PICK n : n = ErrorResult(o, code)
      OBVIOUS
    <2>2. Ended(n, o, "error")
      BY <1>3, <2>1, ErrorEnds
    <2>3. OpOK(n, c, issues, config) /\ PendingOK(n, issues, raced)
      BY <1>2, <1>3, <1>4, <2>2, PlainAnswered
    <2>. QED BY <1>6, <2>1, <2>3, QuietStep
  <1>7. CASE o.req.target \notin AllowedTargetStatuses \/ o.key \notin Keys
    <2>1. /\ \E code : SetOp(c, ErrorResult(o, code))
          /\ UNCHANGED <<config, issues, late, raced, sent, accepted, now, faults, edits>>
      BY <1>1, <1>7 DEF ReadStatus
    <2>. QED BY <1>6, <2>1
  <1>8. CASE o.req.target \in AllowedTargetStatuses /\ o.key \in Keys
    <2>1. PICK s : s = issues[o.key].status
      OBVIOUS
    <2>2. Fetch(c, IF s = o.req.target THEN Done(o, "empty")
                     ELSE [o EXCEPT !.pc = "transitions", !.prev = s])
      BY <1>1, <1>8, <2>1 DEF ReadStatus
    <2>3. CASE s = o.req.target
      <3>1. PICK n : n = Done(o, "empty")
        OBVIOUS
      <3>2. Ended(n, o, "empty")
        BY <1>3, <3>1, DoneEnds DEF Answers
      <3>3. OpOK(n, c, issues, config) /\ PendingOK(n, issues, raced)
        BY <1>2, <1>3, <1>4, <3>2, PlainAnswered
      <3>. QED BY <1>1, <1>2, <2>2, <2>3, <3>1, <3>3, FetchStep
    <2>4. CASE s # o.req.target
      <3>1. PICK n : n = [o EXCEPT !.pc = "transitions", !.prev = s]
        OBVIOUS
      <3>2. Moved(n, o, "transitions")
        BY <1>3, <3>1, StepMoves
      <3>3. OpOK(n, c, issues, config) /\ PendingOK(n, issues, raced)
        BY <1>3, <1>4, <1>5, <1>8, <3>2 DEF Moved, OpOK, PendingOK
      <3>. QED BY <1>1, <1>2, <2>2, <2>4, <3>1, <3>3, FetchStep
    <2>. QED BY <2>3, <2>4
  <1>. QED BY <1>7, <1>8

\* transition_status: the transition to take.
LEMMA ReadTransitionsKeeps ==
  ASSUME Site, TrackerInv, NEW c \in Callers, ReadTransitions(c)
  PROVE  TrackerInv'
  <1>1. PICK o : o = opOf[c]
    OBVIOUS
  <1>2. o.pc = "transitions"
    BY <1>1 DEF ReadTransitions
  <1>3. /\ OpOK(o, c, issues, config) /\ IsOp(o) /\ o.answer = "none"
        /\ o.req \in Requests[c]
        /\ o.key \in DOMAIN issues /\ issues[o.key].opted = "yes" => o.opted = "yes"
    BY <1>1, <1>2, UnderWay
  <1>4. /\ o.req.tool = "transition-status" /\ o.did = {}
        /\ o.req.target \in Targets(config)
    BY <1>2, <1>3 DEF OpOK
  <1>5. CASE Fetch(c, [o EXCEPT !.pc = "transition"])
    <2>1. PICK n : n = [o EXCEPT !.pc = "transition"]
      OBVIOUS
    <2>2. Moved(n, o, "transition")
      BY <1>3, <2>1, StepMoves
    <2>3. OpOK(n, c, issues, config) /\ PendingOK(n, issues, raced)
      BY <1>3, <1>4, <2>2 DEF Moved, OpOK, PendingOK
    <2>. QED BY <1>1, <1>2, <1>5, <2>1, <2>3, FetchStep
  <1>6. CASE Fetch(c, ErrorResult(o, "not-found"))
    <2>1. PICK n : n = ErrorResult(o, "not-found")
      OBVIOUS
    <2>2. Ended(n, o, "error")
      BY <1>3, <2>1, ErrorEnds
    <2>3. OpOK(n, c, issues, config) /\ PendingOK(n, issues, raced)
      BY <1>2, <1>3, <1>4, <2>2, PlainAnswered
    <2>. QED BY <1>1, <1>2, <1>6, <2>1, <2>3, FetchStep
  <1>7. Fetch(c, IF o.req.target \in Workflow[issues[o.key].status]
                   THEN [o EXCEPT !.pc = "transition"] ELSE ErrorResult(o, "not-found"))
    BY <1>1 DEF ReadTransitions
  <1>. QED BY <1>5, <1>6, <1>7

\* The operation n is operation o answered with "ok" after a last write k.
Finished(n, o, k) ==
  /\ IsOp(n) /\ n.pc = "idle" /\ n.answer = "ok" /\ n.req = o.req
  /\ n.did = o.did \cup {k}

\* A last write that was answered.
LEMMA WriteFinishes ==
  ASSUME NEW o, IsOp(o), NEW k
  PROVE  Finished([Done(o, "ok") EXCEPT !.did = @ \cup {k}], o, k)
  <1>1. PICK e : e = Done(o, "ok")
    OBVIOUS
  <1>2. Ended(e, o, "ok")
    BY <1>1, DoneEnds DEF Answers
  <1>3. PICK n : n = [e EXCEPT !.did = @ \cup {k}]
    OBVIOUS
  <1>4. Noted(n, e, k)
    BY <1>2, <1>3, WriteNoted DEF Ended
  <1>5. Finished(n, o, k)
    BY <1>2, <1>4 DEF Ended, Noted, Finished
  <1>. QED BY <1>1, <1>3, <1>5

\* The writes of a transition that was made.
TransitionWrites(o) == {"status"} \cup (IF o.req.comment THEN {"comment"} ELSE {})

\* An operation ends well after its last write, which made no issue.
LEMMA WriteAnswered ==
  ASSUME NEW o, NEW c, NEW I, NEW J, NEW g, OpOK(o, c, I, g), o.pc # "idle",
         NEW k, NEW n, Finished(n, o, k),
         o.req.tool \notin {"create-epic", "create-story"},
         o.req.tool = "transition-status" =>
           o.req.target \in Targets(g) /\ o.did \cup {k} = TransitionWrites(o)
  PROVE  OpOK(n, c, J, g) /\ n.pc # "create"
  <1>1. Truthful(n, J, g)
    BY DEF Finished, TransitionWrites, Truthful
  <1>2. o.req \in Requests[c]
    BY DEF OpOK
  <1>. QED BY <1>1, <1>2 DEF Finished, OpOK

\* transition_status: the transition itself.
LEMMA PostTransitionKeeps ==
  ASSUME Site, TrackerInv, NEW c \in Callers, PostTransition(c)
  PROVE  TrackerInv'
  <1>1. PICK o : o = opOf[c]
    OBVIOUS
  <1>2. o.pc = "transition"
    BY <1>1 DEF PostTransition
  <1>3. /\ OpOK(o, c, issues, config) /\ IsOp(o) /\ o.answer = "none"
        /\ o.req \in Requests[c] /\ IssuesOK(issues)
        /\ o.key \in DOMAIN issues /\ issues[o.key].opted = "yes" => o.opted = "yes"
    BY <1>1, <1>2, UnderWay
  <1>4. /\ o.req.tool = "transition-status" /\ o.did = {}
        /\ o.req.target \in Targets(config)
    BY <1>2, <1>3 DEF OpOK
  <1>5. PICK w : w = [kind |-> "status", key |-> o.key, to |-> o.req.target]
    OBVIOUS
  <1>6. w.kind = "status"
    BY <1>5
  <1>7. FreshWrite(w, issues, raced)
    BY <1>6 DEF FreshWrite
  <1>8. CASE o.req.comment
    <2>1. PICK m : m = [o EXCEPT !.pc = "comment"]
      OBVIOUS
    <2>2. Moved(m, o, "comment")
      BY <1>3, <2>1, StepMoves
    <2>3. Send(c, w, m)
      BY <1>1, <1>5, <1>8, <2>1 DEF PostTransition
    <2>4. ASSUME Accepts(w), NEW n, n = [m EXCEPT !.did = @ \cup {w.kind}]
          PROVE  OpOK(n, c, Applied(w), config) /\ n.pc # "create"
      <3>1. PICK J : J = Applied(w)
        OBVIOUS
      <3>2. LabelsKept(issues, J)
        BY <1>3, <1>6, <2>4, <3>1, ChangeApplied
      <3>3. Noted(n, m, w.kind)
        BY <2>2, <2>4, WriteNoted DEF Moved
      <3>4. /\ IsOp(n) /\ n.pc = "comment" /\ n.answer = "none" /\ n.req = o.req
            /\ n.key = o.key /\ n.did = {"status"} /\ n.opted = o.opted
        BY <1>3, <1>4, <1>6, <2>2, <3>3 DEF Moved, Noted
      <3>5. n.key \in DOMAIN J /\ J[n.key].opted = "yes" => n.opted = "yes"
        BY <1>3, <3>2, <3>4 DEF LabelsKept
      <3>6. OpOK(n, c, J, config)
        BY <1>3, <1>4, <1>8, <3>4, <3>5 DEF OpOK
      <3>. QED BY <3>1, <3>4, <3>6
    <2>. QED BY <1>1, <1>2, <1>4, <1>7, <2>3, <2>4, SendStep
  <1>9. CASE ~o.req.comment
    <2>1. Send(c, w, Done(o, "ok"))
      BY <1>1, <1>5, <1>9 DEF PostTransition
    <2>2. ASSUME Accepts(w), NEW n, n = [Done(o, "ok") EXCEPT !.did = @ \cup {w.kind}]
          PROVE  OpOK(n, c, Applied(w), config) /\ n.pc # "create"
      <3>1. PICK J : J = Applied(w)
        OBVIOUS
      <3>2. Finished(n, o, w.kind)
        BY <1>3, <2>2, WriteFinishes
      <3>3. o.did \cup {w.kind} = TransitionWrites(o)
        BY <1>4, <1>6, <1>9 DEF TransitionWrites
      <3>4. OpOK(n, c, J, config) /\ n.pc # "create"
        BY <1>2, <1>3, <1>4, <3>2, <3>3, WriteAnswered
      <3>. QED BY <3>1, <3>4
    <2>. QED BY <1>1, <1>2, <1>4, <1>7, <2>1, <2>2, SendStep
  <1>. QED BY <1>8, <1>9

\* post_comment, and the comment of a transition.
LEMMA PostCommentKeeps ==
  ASSUME Site, TrackerInv, NEW c \in Callers, PostComment(c)
  PROVE  TrackerInv'
  <1>1. PICK o : o = opOf[c]
    OBVIOUS
  <1>2. o.pc = "comment"
    BY <1>1 DEF PostComment
  <1>3. OpOK(o, c, issues, config) /\ IsOp(o) /\ IssuesOK(issues)
    BY <1>1, <1>2, UnderWay
  <1>4. \/ o.req.tool = "post-comment" /\ o.did = {}
        \/ /\ o.req.tool = "transition-status" /\ o.req.target \in Targets(config)
           /\ o.req.comment /\ o.did = {"status"}
    BY <1>2, <1>3 DEF OpOK
  <1>5. CASE o.req.comment
    <2>1. PICK w : w = [kind |-> "comment", key |-> o.key]
      OBVIOUS
    <2>2. w.kind = "comment"
      BY <2>1
    <2>3. FreshWrite(w, issues, raced)
      BY <2>2 DEF FreshWrite
    <2>4. Send(c, w, Done(o, "ok"))
      BY <1>1, <1>5, <2>1 DEF PostComment
    <2>5. ASSUME Accepts(w), NEW n, n = [Done(o, "ok") EXCEPT !.did = @ \cup {w.kind}]
          PROVE  OpOK(n, c, Applied(w), config) /\ n.pc # "create"
      <3>1. PICK J : J = Applied(w)
        OBVIOUS
      <3>2. Finished(n, o, w.kind)
        BY <1>3, <2>5, WriteFinishes
      <3>3. o.req.tool = "transition-status" => o.did \cup {w.kind} = TransitionWrites(o)
        BY <1>4, <1>5, <2>2 DEF TransitionWrites
      <3>4. OpOK(n, c, J, config) /\ n.pc # "create"
        BY <1>2, <1>3, <1>4, <3>2, <3>3, WriteAnswered
      <3>. QED BY <3>1, <3>4
    <2>. QED BY <1>1, <1>2, <1>4, <2>3, <2>4, <2>5, SendStep
  <1>6. CASE ~o.req.comment
    <2>1. PICK n : n = Done(o, "empty")
      OBVIOUS
    <2>2. Ended(n, o, "empty")
      BY <1>3, <2>1, DoneEnds DEF Answers
    <2>3. OpOK(n, c, issues, config) /\ PendingOK(n, issues, raced)
      BY <1>2, <1>3, <1>4, <1>6, <2>2, PlainAnswered
    <2>4. /\ SetOp(c, n)
          /\ UNCHANGED <<config, issues, late, raced, sent, accepted, now, faults, edits>>
      BY <1>1, <1>6, <2>1 DEF PostComment
    <2>. QED BY <2>3, <2>4, QuietStep
  <1>. QED BY <1>5, <1>6

\* assign_issue
LEMMA AssignIssueKeeps ==
  ASSUME Site, TrackerInv, NEW c \in Callers, AssignIssue(c)
  PROVE  TrackerInv'
  <1>1. PICK o : o = opOf[c]
    OBVIOUS
  <1>2. o.pc = "assignee"
    BY <1>1 DEF AssignIssue
  <1>3. OpOK(o, c, issues, config) /\ IsOp(o)
    BY <1>1, <1>2, UnderWay
  <1>4. o.req.tool \in {"get-issue", "assign", "confluence", "event"}
    BY <1>2, <1>3 DEF OpOK
  <1>5. PICK w : w = [kind |-> "assignee", key |-> o.key]
    OBVIOUS
  <1>6. w.kind = "assignee"
    BY <1>5
  <1>7. FreshWrite(w, issues, raced)
    BY <1>6 DEF FreshWrite
  <1>8. Send(c, w, Done(o, "ok"))
    BY <1>1, <1>5 DEF AssignIssue
  <1>9. ASSUME Accepts(w), NEW n, n = [Done(o, "ok") EXCEPT !.did = @ \cup {w.kind}]
        PROVE  OpOK(n, c, Applied(w), config) /\ n.pc # "create"
    <2>1. PICK J : J = Applied(w)
      OBVIOUS
    <2>2. Finished(n, o, w.kind)
      BY <1>3, <1>9, WriteFinishes
    <2>3. OpOK(n, c, J, config) /\ n.pc # "create"
      BY <1>2, <1>3, <1>4, <2>2, WriteAnswered
    <2>. QED BY <2>1, <2>3
  <1>. QED BY <1>1, <1>2, <1>4, <1>7, <1>8, <1>9, SendStep

\* RovoClient
LEMMA RovoCallKeeps ==
  ASSUME Site, TrackerInv, NEW c \in Callers, RovoCall(c)
  PROVE  TrackerInv'
  <1>1. PICK o : o = opOf[c]
    OBVIOUS
  <1>2. o.pc = "rovo"
    BY <1>1 DEF RovoCall
  <1>3. OpOK(o, c, issues, config) /\ IsOp(o)
    BY <1>1, <1>2, UnderWay
  <1>4. o.req.tool \in {"get-issue", "assign", "confluence", "event"} /\ o.did = {}
    BY <1>2, <1>3 DEF OpOK
  <1>5. PICK a \in {"ok", "empty"} : Fetch(c, Done(o, a))
    BY <1>1 DEF RovoCall, RovoAnswer
  <1>6. PICK n : n = Done(o, a)
    OBVIOUS
  <1>7. a \in Answers
    BY DEF Answers
  <1>8. Ended(n, o, a)
    BY <1>3, <1>6, <1>7, DoneEnds
  <1>9. OpOK(n, c, issues, config) /\ PendingOK(n, issues, raced)
    BY <1>2, <1>3, <1>4, <1>8, PlainAnswered
  <1>. QED BY <1>1, <1>2, <1>5, <1>6, <1>9, FetchStep

\* handle_automation_event up to the gate: past it the issue is opted in.
LEMMA RefetchKeeps ==
  ASSUME Site, TrackerInv, NEW c \in Callers, Refetch(c)
  PROVE  TrackerInv'
  <1>1. PICK o : o = opOf[c]
    OBVIOUS
  <1>2. o.pc = "refetch"
    BY <1>1 DEF Refetch
  <1>3. /\ OpOK(o, c, issues, config) /\ IsOp(o) /\ o.answer = "none"
        /\ o.req \in Requests[c]
        /\ o.key \in DOMAIN issues /\ issues[o.key].opted = "yes" => o.opted = "yes"
    BY <1>1, <1>2, UnderWay
  <1>4. o.req.tool \in {"get-issue", "assign", "confluence", "event"} /\ o.did = {}
    BY <1>2, <1>3 DEF OpOK
  <1>5. CASE o.key \notin Keys
    <2>1. PICK n : n = ErrorResult(o, "not-found")
      OBVIOUS
    <2>2. Ended(n, o, "error")
      BY <1>3, <2>1, ErrorEnds
    <2>3. OpOK(n, c, issues, config) /\ PendingOK(n, issues, raced)
      BY <1>2, <1>3, <1>4, <2>2, PlainAnswered
    <2>4. /\ SetOp(c, n)
          /\ UNCHANGED <<config, issues, late, raced, sent, accepted, now, faults, edits>>
      BY <1>1, <1>5, <2>1 DEF Refetch
    <2>. QED BY <2>3, <2>4, QuietStep
  <1>6. ASSUME NEW a \in {"relay-error", "not-opted-in"}, Fetch(c, Done(o, a))
        PROVE  TrackerInv'
    <2>1. PICK n : n = Done(o, a)
      OBVIOUS
    <2>2. a \in Answers
      BY <1>6 DEF Answers
    <2>3. Ended(n, o, a)
      BY <1>3, <2>1, <2>2, DoneEnds
    <2>4. OpOK(n, c, issues, config) /\ PendingOK(n, issues, raced)
      BY <1>2, <1>3, <1>4, <1>6, <2>3, PlainAnswered
    <2>. QED BY <1>1, <1>2, <1>6, <2>1, <2>4, FetchStep
  <1>7. CASE /\ o.key \in Keys /\ Evaluate(o.key)
             /\ Fetch(c, [o EXCEPT !.pc = "sign"])
    <2>1. PICK n : n = [o EXCEPT !.pc = "sign"]
      OBVIOUS
    <2>2. Moved(n, o, "sign")
      BY <1>3, <2>1, StepMoves
    <2>3. OptedIn(n, issues, config)
      BY <1>3, <1>7, <2>2 DEF Moved, OptedIn, Evaluate, Keys
    <2>4. OpOK(n, c, issues, config) /\ PendingOK(n, issues, raced)
      BY <1>3, <1>4, <2>2, <2>3 DEF Moved, OpOK, PendingOK
    <2>. QED BY <1>1, <1>2, <1>7, <2>1, <2>4, FetchStep
  <1>8. CASE o.key \in Keys
    <2>1. PICK a \in {"ok", "empty"} : a = GetIssueAnswer(o.key)
      BY DEF GetIssueAnswer
    <2>2. Fetch(c, CASE a = "empty" -> Done(o, "relay-error")
                       [] a = "ok" /\ ~Evaluate(o.key) -> Done(o, "not-opted-in")
                       [] OTHER -> [o EXCEPT !.pc = "sign"])
      BY <1>1, <1>8, <2>1 DEF Refetch
    <2>. QED BY <1>6, <1>7, <1>8, <2>1, <2>2
  <1>. QED BY <1>5, <1>8

\* handle_automation_event from the gate to the signature.
LEMMA SignRequestKeeps ==
  ASSUME Site, TrackerInv, NEW c \in Callers, SignRequest(c)
  PROVE  TrackerInv'
  <1>1. PICK o : o = opOf[c]
    OBVIOUS
  <1>2. o.pc = "sign"
    BY <1>1 DEF SignRequest
  <1>3. OpOK(o, c, issues, config) /\ IsOp(o)
    BY <1>1, <1>2, UnderWay
  <1>4. /\ o.req.tool \in {"get-issue", "assign", "confluence", "event"} /\ o.did = {}
        /\ OptedIn(o, issues, config)
    BY <1>2, <1>3 DEF OpOK
  <1>5. PICK a \in {"relay-error", "dispatched"} :
          /\ SetOp(c, Done(o, a))
          /\ \/ UNCHANGED sent
             \/ sent' = sent \cup {[by |-> c, nth |-> ops[c], key |-> o.key,
                                    timestamp |-> now, opted |-> o.opted]}
    BY <1>1 DEF SignRequest
  <1>6. PICK n : n = Done(o, a)
    OBVIOUS
  <1>7. a \in Answers
    BY DEF Answers
  <1>8. Ended(n, o, a)
    BY <1>3, <1>6, <1>7, DoneEnds
  <1>9. OpOK(n, c, issues, config) /\ PendingOK(n, issues, raced)
    BY <1>2, <1>3, <1>4, <1>8, PlainAnswered
  <1>10. /\ UNCHANGED <<config, issues, late, raced, accepted, now, faults, edits>>
         /\ now \in Nat /\ faults \in 0..MaxFaults
         /\ \A l \in late : FreshWrite(l.write, issues, raced)
         /\ \A d \in sent : OptedIn(d, issues, config) /\ d.timestamp \in Nat
    BY DEF SignRequest, TrackerInv
  <1>11. sent \subseteq sent' /\ \A d \in sent' : OptedIn(d, issues, config) /\ d.timestamp \in Nat
    BY <1>4, <1>5, <1>10 DEF OptedIn
  <1>. QED BY <1>5, <1>6, <1>9, <1>10, <1>11, OpMoves

\* A write that no caller waits for: every operation keeps what it relies on.
LEMMA WriteOfOthers ==
  ASSUME TrackerInv, NEW w, Accepts(w), issues' = Applied(w),
         FreshWrite(w, issues, raced), raced \subseteq raced', late' \subseteq late,
         w.kind = "create" =>
           /\ \A d \in Callers : opOf[d].pc = "create" /\ opOf[d].req.summary = w.summary =>
                w.summary \in raced'
           /\ \A l \in late' : l.write.kind = "create" /\ l.write.summary = w.summary =>
                w.summary \in raced',
         UNCHANGED <<config, opOf, sent, accepted, now, faults>>, edits' \in 0..MaxEdits
  PROVE  TrackerInv'
  <1>1. PICK J : J = Applied(w)
    OBVIOUS
  <1>2. IssuesOK(issues)
    BY DEF TrackerInv
  <1>3. Evolves(issues, J) /\ LabelsKept(issues, J)
    BY <1>1, <1>2, CreateApplied, ChangeApplied
  <1>4. ASSUME NEW d \in Callers PROVE OpOK(opOf'[d], d, issues', config)
    <2>1. PICK p : p = opOf[d]
      OBVIOUS
    <2>2. OpOK(p, d, issues, config)
      BY <2>1 DEF TrackerInv
    <2>3. OpOK(p, d, J, config)
      BY <1>3, <2>2, OpStays
    <2>. QED BY <1>1, <2>1, <2>3
  <1>5. opOf' = [d \in Callers |-> opOf'[d]] /\ faults' \in 0..MaxFaults
    BY DEF TrackerInv
  <1>. QED BY <1>4, <1>5, WriteLands

\* A request given up on is applied after all, or refused.
LEMMA LandKeeps ==
  ASSUME TrackerInv, NEW l \in late, Land(l)
  PROVE  TrackerInv'
  <1>1. PICK w : w = l.write
    OBVIOUS
  <1>2. /\ late' \subseteq late /\ raced \subseteq raced'
        /\ UNCHANGED <<config, opOf, sent, accepted, now, faults, edits>>
    BY DEF Land
  <1>3. CASE Accepts(w)
    <2>1. issues' = Applied(w) /\ FreshWrite(w, issues, raced)
      BY <1>1, <1>3 DEF Land, TrackerInv
    <2>2. w.kind = "create" =>
            /\ \A d \in Callers : opOf[d].pc = "create" /\ opOf[d].req.summary = w.summary =>
                 w.summary \in raced'
            /\ \A m \in late' : m.write.kind = "create" /\ m.write.summary = w.summary =>
                 w.summary \in raced'
      BY <1>1, <1>3 DEF Land
    <2>3. edits' \in 0..MaxEdits
      BY <1>2 DEF TrackerInv
    <2>. QED BY <1>2, <1>3, <2>1, <2>2, <2>3, WriteOfOthers
  <1>4. CASE ~Accepts(w)
    <2>1. UNCHANGED <<issues, raced>>
      BY <1>1, <1>4 DEF Land
    <2>2. NoDuplicateUnlessRaced'
      BY <2>1 DEF TrackerInv, NoDuplicateUnlessRaced, Keys
    <2>. QED BY <1>2, <2>1, <2>2 DEF TrackerInv
  <1>. QED BY <1>3, <1>4

\* A person moves an issue: what Jira makes of it is a change of status.
LEMMA MoveIssueKeeps ==
  ASSUME Site, TrackerInv, NEW k \in Keys, NEW s, MoveIssue(k, s)
  PROVE  TrackerInv'
  <1>1. PICK w : w = [kind |-> "status", key |-> k, to |-> s]
    OBVIOUS
  <1>2. w.kind = "status" /\ w.key = k /\ w.to = s
    BY <1>1
  <1>3. Accepts(w)
    BY <1>2 DEF MoveIssue, Accepts, Names
  <1>4. issues' = Applied(w)
    BY <1>2 DEF MoveIssue, Applied
  <1>5. FreshWrite(w, issues, raced)
    BY <1>2 DEF FreshWrite
  <1>6. UNCHANGED <<config, opOf, late, raced, sent, accepted, now, faults>>
    BY DEF MoveIssue
  <1>7. edits' \in 0..MaxEdits
    BY DEF MoveIssue, TrackerInv, Site
  <1>. QED BY <1>2, <1>3, <1>4, <1>5, <1>6, <1>7, WriteOfOthers

\* An operation whose issue may have been opted in meanwhile.
LEMMA LabelNoticed ==
  ASSUME NEW o, NEW c, NEW I, NEW J, NEW g, OpOK(o, c, I, g), Evolves(I, J),
         NEW n, IsOp(n), n.pc = o.pc, n.left = o.left, n.answer = o.answer, n.req = o.req,
         n.key = o.key, n.did = o.did, n.opted = o.opted \/ n.opted = "yes",
         n.pc # "idle" /\ n.key \in DOMAIN J /\ J[n.key].opted = "yes" => n.opted = "yes"
  PROVE  OpOK(n, c, J, g)
  <1>1. ASSUME o.key \in DOMAIN I, SameAs(I[o.key], o.req)
        PROVE  o.key \in DOMAIN J /\ SameAs(J[o.key], o.req)
    BY <1>1 DEF Evolves, Equal, SameAs
  <1>2. Linked(o, I) => Linked(n, J)
    BY <1>1 DEF Evolves, Linked
  <1>3. OptedIn(o, I, g) => OptedIn(n, J, g)
    BY DEF Evolves, Equal, OptedIn
  <1>4. Truthful(o, I, g) => Truthful(n, J, g)
    BY <1>1, <1>2 DEF Truthful
  <1>. QED BY <1>2, <1>3, <1>4 DEF OpOK

\* A person sets the opt-in label, or takes it away.
LEMMA SetLabelKeeps ==
  ASSUME Site, TrackerInv, NEW k \in Keys, NEW on \in {"yes", "no"}, SetLabel(k, on)
  PROVE  TrackerInv'
  <1>1. PICK x : x = issues[k]
    OBVIOUS
  <1>2. PICK y : y = [x EXCEPT !.opted = on]
    OBVIOUS
  <1>3. k \in DOMAIN issues /\ IssuesOK(issues)
    BY DEF Keys, TrackerInv
  <1>4. IsIssue(x) /\ x.blockers \subseteq DOMAIN issues /\ x.comments \in Nat
    BY <1>1, <1>3 DEF IssuesOK
  <1>5. /\ IsIssue(y) /\ Equal(y, x) /\ y.opted = on
        /\ y.blockers = x.blockers /\ y.comments = x.comments /\ y.link = x.link
    BY <1>2, <1>4 DEF IsIssue, Equal
  <1>6. PICK J : J = [issues EXCEPT ![k] = y]
    OBVIOUS
  <1>7. issues' = J
    BY <1>1, <1>2, <1>3, <1>6 DEF SetLabel
  <1>8. Replaces(issues, J, k, y)
    BY <1>3, <1>4, <1>5, <1>6, IssueReplaced
  <1>9. /\ IssuesOK(J) /\ DOMAIN J = DOMAIN issues /\ J[k].opted = on
        /\ \A j \in DOMAIN issues : Equal(J[j], issues[j]) /\ J[j].blockers = issues[j].blockers
        /\ \A j \in DOMAIN issues : J[j].link = issues[j].link
        /\ \A j \in DOMAIN issues : j # k => J[j] = issues[j]
    BY <1>1, <1>5, <1>8 DEF Replaces, Equal
  <1>10. Evolves(issues, J)
    BY <1>9 DEF Evolves
  <1>11. ASSUME NEW c \in Callers
         PROVE  /\ OpOK(opOf'[c], c, J, config) /\ opOf'[c].pc = opOf[c].pc
                /\ opOf'[c].req = opOf[c].req
    <2>1. PICK o : o = opOf[c]
      OBVIOUS
    <2>2. OpOK(o, c, issues, config) /\ IsOp(o)
      BY <2>1 DEF TrackerInv, OpOK
    <2>3. CASE o.pc # "idle" /\ o.key = k /\ on = "yes"
      <3>1. PICK n : n = [o EXCEPT !.opted = "yes"]
        OBVIOUS
      <3>2. n = [pc |-> o.pc, req |-> o.req, key |-> o.key, left |-> o.left, prev |-> o.prev,
                 answer |-> o.answer, code |-> o.code, did |-> o.did, opted |-> "yes"]
        BY <2>2, <3>1 DEF IsOp
      <3>3. opOf'[c] = n
        BY <2>1, <2>3, <3>1 DEF SetLabel
      <3>4. /\ IsOp(n) /\ n.pc = o.pc /\ n.left = o.left /\ n.answer = o.answer
            /\ n.req = o.req /\ n.key = o.key /\ n.did = o.did /\ n.opted = "yes"
        BY <2>2, <3>2 DEF IsOp
      <3>5. OpOK(n, c, J, config)
        BY <1>10, <2>2, <3>4, LabelNoticed
      <3>. QED BY <2>1, <3>3, <3>4, <3>5
    <2>4. CASE ~(o.pc # "idle" /\ o.key = k /\ on = "yes")
      <3>1. opOf'[c] = o
        <4>1. CASE o.pc # "idle" /\ o.key = k
          <5>1. opOf'[c] = [o EXCEPT !.opted = o.opted]
            BY <2>1, <2>4, <4>1 DEF SetLabel
          <5>2. PICK n : n = [o EXCEPT !.opted = o.opted]
            OBVIOUS
          <5>3. n = [pc |-> o.pc, req |-> o.req, key |-> o.key, left |-> o.left,
                     prev |-> o.prev, answer |-> o.answer, code |-> o.code, did |-> o.did,
                     opted |-> o.opted]
            BY <2>2, <5>2 DEF IsOp
          <5>4. n = o
            BY <2>2, <5>3 DEF IsOp
          <5>. QED BY <5>1, <5>2, <5>4
        <4>2. CASE ~(o.pc # "idle" /\ o.key = k)
          BY <2>1, <4>2 DEF SetLabel
        <4>. QED BY <4>1, <4>2
      <3>2. o.pc # "idle" /\ o.key \in DOMAIN J /\ J[o.key].opted = "yes" => o.opted = "yes"
        <4>1. o.pc # "idle" /\ o.key \in DOMAIN issues /\ issues[o.key].opted = "yes" =>
                o.opted = "yes"
          BY <2>2 DEF OpOK
        <4>. QED BY <1>9, <2>4, <4>1
      <3>3. OpOK(o, c, J, config)
        BY <1>10, <2>2, <3>2, LabelNoticed
      <3>. QED BY <2>1, <3>1, <3>3
    <2>. QED BY <2>3, <2>4
  <1>12. ASSUME NEW c \in Callers PROVE PendingOK(opOf'[c], J, raced)
    <2>1. PendingOK(opOf[c], issues, raced)
      BY DEF TrackerInv
    <2>. QED BY <1>9, <1>11, <2>1 DEF PendingOK, SameAs, Equal, Searchable
  <1>13. \A l \in late : FreshWrite(l.write, J, raced)
    BY <1>9 DEF TrackerInv, FreshWrite, Equal, Searchable
  <1>14. NoDuplicateUnlessRaced'
    <2>1. UNCHANGED raced
      BY DEF SetLabel
    <2>. QED BY <1>7, <1>9, <2>1 DEF TrackerInv, NoDuplicateUnlessRaced, Keys, Equal, Searchable
  <1>15. \A d \in sent : OptedIn(d, J, config)
    BY <1>9 DEF TrackerInv, OptedIn, Equal
  <1>16. /\ opOf' = [c \in Callers |-> opOf'[c]] /\ edits' \in 0..MaxEdits
         /\ UNCHANGED <<config, late, raced, sent, accepted, now, faults>>
    BY DEF SetLabel, TrackerInv, Site
  <1>. QED BY <1>7, <1>9, <1>11, <1>12, <1>13, <1>14, <1>15, <1>16 DEF TrackerInv

\* A dispatch is verified; it is accepted within the window only.
LEMMA DeliverKeeps ==
  ASSUME Site, TrackerInv, NEW d \in sent, Deliver(d)
  PROVE  TrackerInv'
  <1>1. UNCHANGED <<config, issues, opOf, late, raced, sent, now, faults, edits>>
    BY DEF Deliver
  <1>2. d.timestamp \in Nat /\ now \in Nat /\ Window \in Nat
    BY DEF TrackerInv, Site
  <1>3. VerifyRequest(d) => now - d.timestamp <= Window
    BY <1>2 DEF VerifyRequest
  <1>4. \A a \in accepted' : a[1] \in sent /\ a[2] - a[1].timestamp <= Window
    BY <1>3 DEF Deliver, TrackerInv
  <1>5. NoDuplicateUnlessRaced'
    BY <1>1 DEF TrackerInv, NoDuplicateUnlessRaced, Keys
  <1>. QED BY <1>1, <1>4, <1>5 DEF TrackerInv

\* At the start nothing is under way and no two issues are equal.
LEMMA TrackerStarts ==
  ASSUME Site, TrackerInit
  PROVE  TrackerInv
  <1>1. /\ config \in Configs /\ opOf = [c \in Callers |-> opOf[c]]
        /\ now \in 0..MaxTime /\ faults \in 0..MaxFaults /\ edits \in 0..MaxEdits
        /\ late = {} /\ sent = {} /\ accepted = {}
    BY DEF TrackerInit, Site
  <1>2. IssuesOK(issues)
    BY DEF TrackerInit, Site, IssuesOK
  <1>3. NoDuplicateUnlessRaced
    BY DEF TrackerInit, Site, NoDuplicateUnlessRaced, Keys
  <1>4. ASSUME NEW c \in Callers
        PROVE  OpOK(opOf[c], c, issues, config) /\ PendingOK(opOf[c], issues, raced)
    <2>1. opOf[c] = NoOperation
      BY DEF TrackerInit
    <2>2. <<>> \in Seq(Nat)
      OBVIOUS
    <2>3. IsOp(NoOperation) /\ NoOperation.pc = "idle" /\ NoOperation.answer = "none"
      BY <2>2 DEF NoOperation, IsOp, Answers
    <2>. QED BY <2>1, <2>3 DEF OpOK, PendingOK
  <1>. QED BY <1>1, <1>2, <1>3, <1>4 DEF TrackerInv

\* Every step keeps the invariant.
LEMMA TrackerNextKeeps ==
  ASSUME Site, TrackerInv, [TrackerNext]_trackerVars
  PROVE  TrackerInv'
  <1>1. CASE UNCHANGED trackerVars
    BY <1>1 DEF trackerVars, TrackerInv, NoDuplicateUnlessRaced, Keys
  <1>2. ASSUME NEW c \in Callers, Step(c) PROVE TrackerInv'
    BY <1>2, SearchKeeps, CreateEpicKeeps, CreateStoryKeeps, NoEpicFieldKeeps,
       CreateBlocksLinkKeeps,
       GetIssueKeeps, ReadStatusKeeps, ReadTransitionsKeeps, PostTransitionKeeps,
       PostCommentKeeps, AssignIssueKeeps, RovoCallKeeps, RefetchKeeps, SignRequestKeeps
       DEF Step
  <1>3. ASSUME NEW c \in Callers, NEW r \in Requests[c], OnCallTool(c, r)
        PROVE  TrackerInv'
    BY <1>3, CallToolKeeps
  <1>4. ASSUME NEW l \in late, Land(l) PROVE TrackerInv'
    BY <1>4, LandKeeps
  <1>5. ASSUME NEW d \in sent, Deliver(d) PROVE TrackerInv'
    BY <1>5, DeliverKeeps
  <1>6. ASSUME NEW k \in Keys, NEW on \in {"yes", "no"}, SetLabel(k, on)
        PROVE  TrackerInv'
    BY <1>6, SetLabelKeeps
  <1>7. ASSUME NEW k \in Keys, NEW s \in DOMAIN Workflow, MoveIssue(k, s)
        PROVE  TrackerInv'
    BY <1>7, MoveIssueKeeps
  <1>8. CASE Tick
    <2>1. /\ now' \in 0..MaxTime
          /\ UNCHANGED <<config, issues, opOf, late, raced, sent, accepted, faults, edits>>
      BY <1>8 DEF Tick, TrackerInv, Site
    <2>. QED BY <2>1 DEF TrackerInv, NoDuplicateUnlessRaced, Keys
  <1>. QED BY <1>1, <1>2, <1>3, <1>4, <1>5, <1>6, <1>7, <1>8 DEF TrackerNext

\* The invariant holds in every state of the issue tracker.
LEMMA TrackerInvariant ==
  TrackerSpec => []TrackerInv
  <1>1. TrackerInit => TrackerInv
    BY TrackerStarts, IssueTrackerAssumption
  <1>2. TrackerInv /\ [TrackerNext]_trackerVars => TrackerInv'
    BY TrackerNextKeeps, IssueTrackerAssumption
  <1>. QED BY <1>1, <1>2, PTL DEF TrackerSpec

\* Every answer the tools give is true: a story answered "ok" is there with all
\* its links, a transition was made with its comment, and what is answered
\* before the first write changed nothing (jira_client.py:97-188, 267-323).
THEOREM AnswersTrue ==
  TrackerSpec => []AnswersAreTrue
  <1>1. ASSUME TrackerInv PROVE AnswersAreTrue
    <2>1. TrackerTypeOK
      BY <1>1 DEF TrackerInv, TrackerTypeOK, IssuesOK, OpOK, IsOp, Keys
    <2>2. ASSUME NEW c \in Callers, NEW o, o = opOf[c], o.pc = "idle", o.answer # "none"
          PROVE  /\ (o.answer = "ok" /\ o.req.tool \in {"create-epic", "create-story"}) =>
                      /\ o.key \in Keys /\ Same(o.key, o.req)
                      /\ ToSet(o.req.deps) \subseteq issues[o.key].blockers
                 /\ (o.answer = "ok" /\ o.req.tool = "transition-status") =>
                      o.did = {"status"} \cup (IF o.req.comment THEN {"comment"} ELSE {})
                 /\ (o.answer = "empty" /\ o.req.tool \in {"create-epic", "create-story"}) =>
                      Same(o.key, o.req)
                 /\ o.answer \in {"empty", "malformed", "raised"} => o.did = {}
                 /\ (o.req.tool = "transition-status"
                       /\ o.req.target \notin AllowedTargetStatuses) => o.did = {}
      <3>1. OpOK(o, c, issues, config)
        BY <1>1, <2>2 DEF TrackerInv
      <3>2. /\ Truthful(o, issues, config)
            /\ (o.req.tool = "transition-status" /\ o.req.target \notin Targets(config)) =>
                 o.did = {}
        BY <2>2, <3>1 DEF OpOK
      <3>3. ToSet(<<>>) = {}
        BY DEF ToSet
      <3>4. AllowedTargetStatuses = Targets(config)
        BY DEF AllowedTargetStatuses, Targets
      <3>. QED BY <3>2, <3>3, <3>4 DEF Truthful, Linked, Same, Keys
    <2>. QED BY <2>1, <2>2 DEF AnswersAreTrue
  <1>. QED BY <1>1, TrackerInvariant, PTL

\* However answers are lost, delayed and retried, two equal epics, or two equal
\* stories that name their epic in the `parent' field, exist only where one
\* creation overtook the other between its search and its request
\* (_find_existing, jira_client.py:456-476).  Nothing is said of stories created
\* with epic_link_mode "customfield", which the search does not find.
THEOREM NoDuplicates ==
  TrackerSpec => []NoDuplicateUnlessRaced
  <1>1. TrackerInv => NoDuplicateUnlessRaced
    BY DEF TrackerInv
  <1>. QED BY <1>1, TrackerInvariant, PTL

\* A dispatch is accepted within the window of its signature only, and for an
\* issue that was opted in while its event was handled (webhook_relay.py:109-169,
\* gating.py:57-100).
THEOREM DispatchesOptedIn ==
  TrackerSpec => []DispatchesAreOptedIn
  <1>1. TrackerInv => DispatchesAreOptedIn
    BY DEF TrackerInv, DispatchesAreOptedIn, OptedIn
  <1>. QED BY <1>1, TrackerInvariant, PTL
=============================================================================
