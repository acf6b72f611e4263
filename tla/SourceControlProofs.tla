------------------------- MODULE SourceControlProofs -------------------------
(***************************************************************************)
(* Theorems about SourceControl, for any number of threads, requests,      *)
(* tokens, pull requests and uninstallations: revoked tokens stay out, and *)
(* the answers of open_pr are exact.                                       *)
(***************************************************************************)
EXTENDS SourceControl, FiniteSetTheorems, TLAPS

Ops == {"open_pr", "get_pr_check_status", "get_file_contents", "list_files"}

ThreadType ==
  [pc : {"idle", "make", "lock", "mint", "store", "send", "evict", "done"},
   op : Ops \cup {"none"}, step : Nat, client : Nat, asked : Nat, token : Nat,
   seen : Nat, out : Answers \cup {"none"}, since : SUBSET Nat]

-----------------------------------------------------------------------------
(* The inductive invariant, part one: the table, the caches and the locks. *)

\* The threads that found no client in the table and are about to make one.
Making == {x \in Threads : th[x].pc = "make"}

\* Every client was made by a request of its own: there are enough places.
TableOK ==
  /\ made \in Nat /\ clients \in 0..made /\ requests \in 0..MaxRequests
  /\ IsFiniteSet(Making) /\ made + Cardinality(Making) <= requests

CacheOK ==
  /\ cache \in [Clients -> {0} \cup Tokens]
  /\ lock \in [Clients -> Threads \cup {"free"}]
  /\ \A c \in Clients : c > made => cache[c] = 0

\* Tokens are numbered as they are minted, and what is known of revoked ones is
\* about tokens minted before.
TokensOK ==
  /\ now \in Nat
  /\ IsFiniteSet(Tokens) /\ Tokens = 1..Cardinality(Tokens)
  /\ live \subseteq Tokens /\ over \subseteq Tokens
  /\ \A e \in events : e.tokens \subseteq Tokens
  /\ hook.tokens \subseteq Tokens /\ hook.client \in 0..made
  /\ hook # NoHook => hook.client # 0
  /\ \A h \in handled : h.client \in 1..made /\ h.tokens \subseteq Tokens
  /\ \A d \in dropped : d[1] \in 1..made /\ d[2] \in Tokens

\* A thread holds a client while it needs a token, the client's lock while it
\* fetches one, and a token while it sends.
ThreadOK(x) ==
  LET t == th[x] IN
  /\ t \in ThreadType
  /\ t.client \in 0..made /\ t.token \in {0} \cup Tokens /\ t.since \subseteq Tokens
  /\ t.pc \in {"lock", "mint", "store", "send", "evict"} <=> t.client # 0
  /\ t.pc \in {"mint", "store"} => lock[t.client] = x
  /\ t.pc \in {"send", "evict"} => t.token # 0
  /\ t.pc # "idle" => t.op \in Ops

PullsOK == author \in Seq(Threads) /\ pull \in 0..Len(author)

Shape ==
  /\ TableOK /\ CacheOK /\ TokensOK /\ PullsOK
  /\ th \in [Threads -> ThreadType] /\ \A x \in Threads : ThreadOK(x)

-----------------------------------------------------------------------------
(* Part two: which clients are clean of which tokens.                      *)

\* Neither in client c's cache nor on its way into it is a token of S.
Clean(c, S) ==
  /\ cache[c] \notin S
  /\ \A x \in Threads : th[x].client = c /\ th[x].pc = "store" => th[x].token \notin S

\* The client in the table is clean of the tokens of handled uninstallations,
\* and of the one being handled; the evicted clients of theirs; the client of
\* a request of those handled before it began; a client of the tokens it dropped.
CleanOK ==
  /\ clients # 0 => Clean(clients, over) /\ Clean(clients, hook.tokens)
  /\ \A h \in handled : Clean(h.client, h.tokens)
  /\ \A x \in Threads :
       /\ th[x].token \notin th[x].since
       /\ th[x].client # 0 => Clean(th[x].client, th[x].since)
  /\ \A d \in dropped : Clean(d[1], {d[2]})

-----------------------------------------------------------------------------
(* Part three: what open_pr knows of the pull request at each place.       *)

OpenOK(x) ==
  LET t == th[x] IN
  t.op = "open_pr" =>
    /\ t.pc \notin {"idle", "done"} => t.seen = 0 /\ t.step \in {1, 2}
    /\ t.pc = "done" =>
         /\ t.out = "ok" => t.seen \in 1..Len(author) /\ author[t.seen] = x
         /\ t.out = "empty" => t.step = 1 /\ t.seen \in 1..Len(author)
         /\ t.out \notin {"ok", "empty"} /\ ~IsRetryable(t.out) => t.seen = 0
    /\ t.pc = "store" /\ t.token = 0 => t.out \notin {"ok", "empty"}

IInv == Shape /\ CleanOK /\ \A x \in Threads : OpenOK(x)

-----------------------------------------------------------------------------
(* Threads, clients and tokens.                                            *)

\* A thread that takes no part in requests.
LEMMA IdleType ==
  /\ Idle \in ThreadType /\ Idle.pc = "idle" /\ Idle.client = 0 /\ Idle.token = 0
  /\ Idle.op = "none" /\ Idle.since = {} /\ Idle.seen = 0
  BY DEF Idle, ThreadType

\* There is a place in the caches for every client made, tokens are positive and
\* the next one is new.
LEMMA Places ==
  ASSUME Shape
  PROVE  /\ 1..made \subseteq Clients /\ made \in Nat /\ 0 \notin Clients
         /\ 0 \notin Tokens /\ Tokens \subseteq Nat
         /\ Cardinality(Tokens) \in Nat /\ Cardinality(Tokens) + 1 \notin Tokens
  <1>1. /\ made \in Nat /\ requests \in 0..MaxRequests /\ IsFiniteSet(Making)
        /\ made + Cardinality(Making) <= requests
    BY DEF Shape, TableOK
  <1>2. Cardinality(Making) \in Nat
    BY <1>1, FS_CardinalityType
  <1>3. 1..made \subseteq Clients /\ 0 \notin Clients
    BY <1>1, <1>2, SourceControlAssumption DEF Clients
  <1>4. IsFiniteSet(Tokens) /\ Tokens = 1..Cardinality(Tokens)
    BY DEF Shape, TokensOK
  <1>5. Cardinality(Tokens) \in Nat
    BY <1>4, FS_CardinalityType
  <1>. QED BY <1>1, <1>3, <1>4, <1>5

\* What the invariant says of a thread.
LEMMA ThreadFacts ==
  ASSUME Shape, NEW x \in Threads
  PROVE  /\ th \in [Threads -> ThreadType] /\ th[x] \in ThreadType /\ ThreadOK(x)
         /\ th[x].client # 0 => th[x].client \in 1..made /\ th[x].client \in Clients
  <1>1. th \in [Threads -> ThreadType] /\ th[x] \in ThreadType /\ ThreadOK(x)
    BY DEF Shape
  <1>2. th[x].client \in 0..made
    BY <1>1 DEF ThreadOK
  <1>. QED BY <1>1, <1>2, Places

\* One thread's record is replaced.
LEMMA Replaced ==
  ASSUME Shape, NEW x \in Threads, NEW t \in ThreadType, Set(x, t)
  PROVE  /\ th' \in [Threads -> ThreadType] /\ th'[x] = t
         /\ \A y \in Threads \ {x} : th'[y] = th[y]
  BY ThreadFacts DEF Set

\* The others keep what they rely on while one thread takes a step.
LEMMA OthersKept ==
  ASSUME Shape, NEW x \in Threads, NEW t \in ThreadType, Set(x, t),
         made' \in Nat, made <= made', Tokens \subseteq Tokens',
         \A y \in Threads \ {x} :
           th[y].pc \in {"mint", "store"} => lock'[th[y].client] = y,
         ThreadOK(x)'
  PROVE  th' \in [Threads -> ThreadType] /\ \A y \in Threads : ThreadOK(y)'
  <1>1. /\ th' \in [Threads -> ThreadType] /\ th'[x] = t
        /\ \A y \in Threads \ {x} : th'[y] = th[y]
    BY Replaced
  <1>2. ASSUME NEW y \in Threads \ {x} PROVE ThreadOK(y)'
    <2>1. th'[y] = th[y] /\ ThreadOK(y) /\ made \in Nat
      BY <1>1, ThreadFacts, Places
    <2>. QED BY <2>1 DEF ThreadOK
  <1>. QED BY <1>1, <1>2

\* A lock that is free, or the thread's own, is nobody else's.
LEMMA LockKept ==
  ASSUME Shape, NEW x \in Threads, NEW c \in Clients, NEW v \in Threads \cup {"free"},
         lock[c] \in {"free", x}, lock' = [lock EXCEPT ![c] = v]
  PROVE  /\ lock' \in [Clients -> Threads \cup {"free"}]
         /\ \A y \in Threads \ {x} :
              th[y].pc \in {"mint", "store"} => lock'[th[y].client] = y
  <1>1. lock \in [Clients -> Threads \cup {"free"}]
    BY DEF Shape, CacheOK
  <1>2. lock' \in [Clients -> Threads \cup {"free"}]
    BY <1>1
  <1>3. ASSUME NEW y \in Threads \ {x}, th[y].pc \in {"mint", "store"}
        PROVE  lock'[th[y].client] = y
    <2>1. lock[th[y].client] = y /\ th[y].client \in Clients
      BY <1>3, ThreadFacts DEF ThreadOK
    <2>2. y # "free"
      BY SourceControlAssumption
    <2>. QED BY <1>1, <2>1, <2>2
  <1>. QED BY <1>2, <1>3

\* Nobody fetches a token for a client whose lock is free.
LEMMA NobodyFetches ==
  ASSUME Shape, NEW c, lock[c] = "free", NEW x \in Threads, th[x].client = c
  PROVE  th[x].pc \notin {"mint", "store"}
  <1>1. th[x].pc \in {"mint", "store"} => lock[c] = x
    BY ThreadFacts DEF ThreadOK
  <1>. QED BY <1>1, SourceControlAssumption

\* The threads about to make a client, as one of them comes, goes or stays.
LEMMA MakingSame ==
  ASSUME Shape, NEW x \in Threads, NEW t \in ThreadType, Set(x, t),
         th[x].pc = "make" <=> t.pc = "make"
  PROVE  Making' = Making
  BY Replaced DEF Making

\* A request came to the table too early.
LEMMA MakingMore ==
  ASSUME Shape, NEW x \in Threads, NEW t \in ThreadType, Set(x, t),
         th[x].pc # "make", t.pc = "make"
  PROVE  IsFiniteSet(Making') /\ Cardinality(Making') = Cardinality(Making) + 1
  <1>1. Making' = Making \cup {x} /\ x \notin Making
    BY Replaced DEF Making
  <1>2. IsFiniteSet(Making)
    BY DEF Shape, TableOK
  <1>. QED BY <1>1, <1>2, FS_AddElement

\* A client is made.
LEMMA MakingLess ==
  ASSUME Shape, NEW x \in Threads, NEW t \in ThreadType, Set(x, t),
         th[x].pc = "make", t.pc # "make"
  PROVE  IsFiniteSet(Making') /\ Cardinality(Making') = Cardinality(Making) - 1
  <1>1. Making' = Making \ {x} /\ x \in Making
    BY Replaced DEF Making
  <1>2. IsFiniteSet(Making)
    BY DEF Shape, TableOK
  <1>. QED BY <1>1, <1>2, FS_RemoveElement

-----------------------------------------------------------------------------
(* Every step keeps the shape: the steps of a request.                     *)

\* The table, the caches and the tokens are as before and the thread is at
\* another place.
LEMMA PlaceStep ==
  ASSUME Shape, NEW x \in Threads, NEW t \in ThreadType, Set(x, t),
         th[x].pc # "make", t.pc # "make",
         ThreadOK(x)', PullsOK', TokensOK', CacheOK',
         UNCHANGED <<clients, made, requests>>, Tokens \subseteq Tokens',
         \A y \in Threads \ {x} :
           th[y].pc \in {"mint", "store"} => lock'[th[y].client] = y
  PROVE  Shape'
  <1>1. th' \in [Threads -> ThreadType] /\ \A y \in Threads : ThreadOK(y)'
    BY OthersKept, Places
  <1>2. Making' = Making
    BY MakingSame
  <1>3. TableOK'
    BY <1>2 DEF Shape, TableOK
  <1>. QED BY <1>1, <1>3 DEF Shape

\* The record of a request as it begins: the client of the table, or none yet.
LEMMA Begun ==
  ASSUME Shape, NEW x \in Threads, NEW op \in Ops, NEW inScope \in BOOLEAN,
         Resolve(x, op, inScope)
  PROVE  \E t \in ThreadType :
           /\ Set(x, t) /\ t.op = op /\ t.step = 1 /\ t.token = 0 /\ t.seen = 0
           /\ t.since = over /\ t.pc \in {"make", "lock", "done"}
           /\ t.pc = "make" => t.client = 0 /\ clients = 0
           /\ t.pc = "lock" => t.client = clients /\ clients # 0
           /\ t.pc = "done" => t.client = 0 /\ t.out = "permission-denied"
  <1> DEFINE b == [Idle EXCEPT !.op = op, !.step = 1, !.since = over]
  <1>1. clients \in Nat /\ now \in Nat /\ over \in SUBSET Nat
    BY Places DEF Shape, TableOK, TokensOK
  <1>2. /\ b \in ThreadType /\ b.op = op /\ b.step = 1 /\ b.since = over /\ b.pc = "idle"
        /\ b.client = 0 /\ b.token = 0 /\ b.seen = 0
    BY <1>1, IdleType DEF ThreadType
  <1>3. Set(x, IF inScope THEN ClientFor(b)
               ELSE [b EXCEPT !.pc = "done", !.out = "permission-denied"])
    BY DEF Resolve
  <1> HIDE DEF b
  <1>4. CASE ~inScope
    <2> DEFINE t == [b EXCEPT !.pc = "done", !.out = "permission-denied"]
    <2>1. /\ t \in ThreadType /\ t.op = op /\ t.step = 1 /\ t.since = over /\ t.pc = "done"
          /\ t.client = 0 /\ t.token = 0 /\ t.seen = 0 /\ t.out = "permission-denied"
      BY <1>2 DEF ThreadType, Answers
    <2>2. Set(x, t)
      BY <1>3, <1>4
    <2> HIDE DEF t
    <2>. QED BY <2>1, <2>2
  <1>5. CASE inScope /\ clients = 0
    <2> DEFINE t == [b EXCEPT !.pc = "make"]
    <2>1. /\ t \in ThreadType /\ t.op = op /\ t.step = 1 /\ t.since = over /\ t.pc = "make"
          /\ t.client = 0 /\ t.token = 0 /\ t.seen = 0
      BY <1>2 DEF ThreadType
    <2>2. Set(x, t)
      BY <1>3, <1>5 DEF ClientFor
    <2> HIDE DEF t
    <2>. QED BY <2>1, <2>2, <1>5
  <1>6. CASE inScope /\ clients # 0
    <2> DEFINE t == [[b EXCEPT !.client = clients] EXCEPT !.pc = "lock", !.asked = now]
    <2>1. /\ t \in ThreadType /\ t.op = op /\ t.step = 1 /\ t.since = over /\ t.pc = "lock"
          /\ t.client = clients /\ t.token = 0 /\ t.seen = 0
      BY <1>1, <1>2 DEF ThreadType
    <2>2. Set(x, t)
      BY <1>3, <1>6 DEF ClientFor, AskToken
    <2> HIDE DEF t
    <2>. QED BY <2>1, <2>2, <1>6
  <1>. QED BY <1>4, <1>5, <1>6

\* InstallationRegistry.resolve and _client_for.
LEMMA ResolveShape ==
  ASSUME Shape, NEW x \in Threads, NEW op \in Ops, NEW inScope \in BOOLEAN,
         Resolve(x, op, inScope)
  PROVE  Shape'
  <1>1. PICK t \in ThreadType :
           /\ Set(x, t) /\ t.op = op /\ t.step = 1 /\ t.token = 0 /\ t.seen = 0
           /\ t.since = over /\ t.pc \in {"make", "lock", "done"}
           /\ t.pc = "make" => t.client = 0 /\ clients = 0
           /\ t.pc = "lock" => t.client = clients /\ clients # 0
           /\ t.pc = "done" => t.client = 0 /\ t.out = "permission-denied"
    BY Begun
  <1>2. /\ th[x].pc = "idle" /\ requests' = requests + 1 /\ requests < MaxRequests
        /\ UNCHANGED <<clients, made, cache, lock, now, github, webhook, dropped>>
    BY DEF Resolve
  <1>3. CacheOK' /\ TokensOK' /\ PullsOK'
    BY <1>2 DEF Shape, CacheOK, TokensOK, PullsOK, github, webhook, Tokens
  <1>4. ThreadOK(x)'
    <2>1. th'[x] = t
      BY <1>1, Replaced
    <2>2. clients \in 0..made /\ over \subseteq Tokens
      BY DEF Shape, TableOK, TokensOK
    <2>. QED BY <1>1, <1>2, <2>1, <2>2, Places DEF ThreadOK, github, Tokens
  <1>5. th' \in [Threads -> ThreadType] /\ \A y \in Threads : ThreadOK(y)'
    <2>1. \A y \in Threads \ {x} :
            th[y].pc \in {"mint", "store"} => lock'[th[y].client] = y
      BY <1>2, ThreadFacts DEF ThreadOK
    <2>. QED BY <1>1, <1>2, <1>4, <2>1, OthersKept, Places DEF github, Tokens
  <1>6. IsFiniteSet(Making)' /\ Cardinality(Making') <= Cardinality(Making) + 1
    <2>1. Cardinality(Making) \in Nat /\ IsFiniteSet(Making)
      BY FS_CardinalityType DEF Shape, TableOK
    <2>2. CASE t.pc = "make"
      BY <1>1, <1>2, <2>1, <2>2, MakingMore
    <2>3. CASE t.pc # "make"
      BY <1>1, <1>2, <2>1, <2>3, MakingSame
    <2>. QED BY <2>2, <2>3
  <1>7. TableOK'
    <2>1. Cardinality(Making) \in Nat /\ Cardinality(Making') \in Nat
      BY <1>6, FS_CardinalityType DEF Shape, TableOK
    <2>. QED BY <1>2, <1>6, <2>1, SourceControlAssumption DEF Shape, TableOK
  <1>. QED BY <1>3, <1>5, <1>7 DEF Shape

\* _client_for found none: the client is made and entered in the table.
LEMMA Made ==
  ASSUME Shape, NEW x \in Threads, MakeClient(x)
  PROVE  \E t \in ThreadType :
           /\ Set(x, t) /\ t.pc = "lock" /\ t.client = made + 1
           /\ t.op = th[x].op /\ t.step = th[x].step /\ t.token = th[x].token
           /\ t.seen = th[x].seen /\ t.since = th[x].since
  <1> DEFINE t == [[th[x] EXCEPT !.client = made + 1] EXCEPT !.pc = "lock", !.asked = now]
  <1>1. made + 1 \in Nat /\ now \in Nat
    BY Places DEF Shape, TokensOK
  <1>2. /\ t \in ThreadType /\ t.pc = "lock" /\ t.client = made + 1
        /\ t.op = th[x].op /\ t.step = th[x].step /\ t.token = th[x].token
        /\ t.seen = th[x].seen /\ t.since = th[x].since
    BY <1>1, ThreadFacts DEF ThreadType
  <1>3. Set(x, t)
    BY DEF MakeClient, AskToken
  <1> HIDE DEF t
  <1>. QED BY <1>2, <1>3

\* MakeClient keeps the shape: the request that makes a client was counted.
LEMMA MakeClientShape ==
  ASSUME Shape, NEW x \in Threads, MakeClient(x)
  PROVE  Shape'
  <1>1. PICK t \in ThreadType :
           /\ Set(x, t) /\ t.pc = "lock" /\ t.client = made + 1
           /\ t.op = th[x].op /\ t.step = th[x].step /\ t.token = th[x].token
           /\ t.seen = th[x].seen /\ t.since = th[x].since
    BY Made
  <1>2. /\ th[x].pc = "make" /\ made' = made + 1 /\ clients' = made'
        /\ UNCHANGED <<cache, lock, requests, now, github, webhook, dropped>>
    BY DEF MakeClient
  <1>3. made \in Nat /\ made' \in Nat /\ made <= made'
    BY <1>2, Places
  <1>4. CacheOK' /\ TokensOK' /\ PullsOK'
    <2>1. CacheOK' /\ PullsOK'
      BY <1>2, <1>3 DEF Shape, CacheOK, PullsOK, github, Tokens, Clients
    <2>2. TokensOK'
      BY <1>2, <1>3 DEF Shape, TokensOK, github, webhook, Tokens
    <2>. QED BY <2>1, <2>2
  <1>5. ThreadOK(x)'
    <2>1. th'[x] = t
      BY <1>1, Replaced
    <2>. QED BY <1>1, <1>2, <1>3, <2>1, ThreadFacts DEF ThreadOK, github, Tokens
  <1>6. th' \in [Threads -> ThreadType] /\ \A y \in Threads : ThreadOK(y)'
    <2>1. \A y \in Threads \ {x} :
            th[y].pc \in {"mint", "store"} => lock'[th[y].client] = y
      BY <1>2, ThreadFacts DEF ThreadOK
    <2>. QED BY <1>1, <1>2, <1>3, <1>5, <2>1, OthersKept DEF github, Tokens
  <1>7. IsFiniteSet(Making)' /\ Cardinality(Making') = Cardinality(Making) - 1
    BY <1>1, <1>2, MakingLess
  <1>8. TableOK'
    <2>1. Cardinality(Making) \in Nat
      BY FS_CardinalityType DEF Shape, TableOK
    <2>. QED BY <1>2, <1>3, <1>7, <2>1 DEF Shape, TableOK
  <1>. QED BY <1>4, <1>6, <1>8 DEF Shape

\* get_token in the lock: on with the cached token, or to fetch one.
LEMMA TokenAsked ==
  ASSUME Shape, NEW x \in Threads, GetToken(x)
  PROVE  \E t \in ThreadType :
           /\ Set(x, t) /\ t.client = th[x].client /\ t.op = th[x].op
           /\ t.step = th[x].step /\ t.seen = th[x].seen /\ t.since = th[x].since
           /\ \/ /\ t.pc = "send" /\ t.token = cache[th[x].client] /\ t.token # 0
                 /\ UNCHANGED lock
              \/ /\ t.pc = "mint" /\ t.token = th[x].token
                 /\ lock' = [lock EXCEPT ![th[x].client] = x]
  <1> DEFINE c == th[x].client
             s == [th[x] EXCEPT !.pc = "send", !.asked = 0, !.token = cache[c]]
             m == [th[x] EXCEPT !.pc = "mint"]
  <1>1. th[x].pc = "lock" /\ c \in Clients
    BY ThreadFacts DEF GetToken, ThreadOK
  <1>2. cache[c] \in Nat
    BY <1>1, Places DEF Shape, CacheOK
  <1>3. /\ s \in ThreadType /\ s.pc = "send" /\ s.client = c /\ s.op = th[x].op
        /\ s.step = th[x].step /\ s.seen = th[x].seen /\ s.since = th[x].since
        /\ s.token = cache[c]
    BY <1>2, ThreadFacts DEF ThreadType
  <1>4. /\ m \in ThreadType /\ m.pc = "mint" /\ m.client = c /\ m.op = th[x].op
        /\ m.step = th[x].step /\ m.seen = th[x].seen /\ m.since = th[x].since
        /\ m.token = th[x].token
    BY ThreadFacts DEF ThreadType
  <1>5. \/ Set(x, s) /\ cache[c] # 0 /\ UNCHANGED lock
        \/ Set(x, m) /\ lock' = [lock EXCEPT ![c] = x]
    BY DEF GetToken, Fresh
  <1> HIDE DEF s, m
  <1>. QED BY <1>3, <1>4, <1>5

\* GetToken keeps the shape.
LEMMA GetTokenShape ==
  ASSUME Shape, NEW x \in Threads, GetToken(x)
  PROVE  Shape'
  <1> DEFINE c == th[x].client
  <1>1. PICK t \in ThreadType :
           /\ Set(x, t) /\ t.client = th[x].client /\ t.op = th[x].op
           /\ t.step = th[x].step /\ t.seen = th[x].seen /\ t.since = th[x].since
           /\ \/ /\ t.pc = "send" /\ t.token = cache[th[x].client] /\ t.token # 0
                 /\ UNCHANGED lock
              \/ /\ t.pc = "mint" /\ t.token = th[x].token
                 /\ lock' = [lock EXCEPT ![th[x].client] = x]
    BY TokenAsked
  <1>2. /\ th[x].pc = "lock" /\ lock[c] = "free"
        /\ UNCHANGED <<clients, made, cache, requests, now, github, webhook, dropped>>
    BY DEF GetToken
  <1>3. c \in Clients /\ c # 0 /\ th[x].op \in Ops
    BY <1>2, ThreadFacts DEF ThreadOK
  <1>4. TokensOK' /\ PullsOK'
    BY <1>2 DEF Shape, TokensOK, PullsOK, github, webhook, Tokens
  <1>5. /\ lock' \in [Clients -> Threads \cup {"free"}]
        /\ \A y \in Threads \ {x} :
             th[y].pc \in {"mint", "store"} => lock'[th[y].client] = y
    <2>1. CASE lock' = [lock EXCEPT ![c] = x]
      BY <1>2, <1>3, <2>1, LockKept
    <2>2. CASE UNCHANGED lock
      BY <2>2, ThreadFacts DEF ThreadOK, Shape, CacheOK
    <2>. QED BY <1>1, <2>1, <2>2
  <1>6. CacheOK'
    BY <1>2, <1>5 DEF Shape, CacheOK, github, Tokens
  <1>7. ThreadOK(x)'
    <2>1. th'[x] = t
      BY <1>1, Replaced
    <2>2. cache[c] \in {0} \cup Tokens /\ Tokens' = Tokens
      BY <1>2, <1>3 DEF Shape, CacheOK, github, Tokens
    <2>3. t.pc = "mint" => lock'[c] = x
      BY <1>1, <1>3 DEF Shape, CacheOK
    <2>. QED BY <1>1, <1>2, <1>3, <2>1, <2>2, <2>3, ThreadFacts DEF ThreadOK
  <1>. QED BY <1>1, <1>2, <1>4, <1>5, <1>6, <1>7, PlaceStep DEF github, Tokens

\* What GitHub's answer to the fetch leaves in the thread: a token nobody has
\* seen, or none.
LEMMA Minted ==
  ASSUME Shape, NEW x \in Threads, MintToken(x)
  PROVE  /\ \E t \in ThreadType :
              /\ Set(x, t) /\ t.pc = "store" /\ t.client = th[x].client /\ t.op = th[x].op
              /\ t.step = th[x].step /\ t.seen = th[x].seen /\ t.since = th[x].since
              /\ \/ t.token \in Tokens' /\ t.token \notin Tokens
                 \/ t.token = 0 /\ t.out \notin {"ok", "empty"}
         /\ Tokens \subseteq Tokens' /\ IsFiniteSet(Tokens') /\ live' \subseteq Tokens'
         /\ Tokens' = 1..Cardinality(Tokens')
  <1> DEFINE k == Cardinality(Tokens) + 1
  <1>1. /\ IsFiniteSet(Tokens) /\ Tokens = 1..Cardinality(Tokens) /\ live \subseteq Tokens
        /\ k \in Nat /\ k \notin Tokens
    BY Places DEF Shape, TokensOK
  <1>2. CASE /\ expires' = [j \in Tokens \cup {k} |-> IF j = k THEN now + Life ELSE expires[j]]
             /\ live' = live \cup {k}
             /\ Set(x, [th[x] EXCEPT !.pc = "store", !.token = k])
    <2> DEFINE t == [th[x] EXCEPT !.pc = "store", !.token = k]
    <2>1. /\ t \in ThreadType /\ t.pc = "store" /\ t.client = th[x].client
          /\ t.op = th[x].op /\ t.step = th[x].step /\ t.seen = th[x].seen
          /\ t.since = th[x].since /\ t.token = k
      BY <1>1, ThreadFacts DEF ThreadType
    <2>2. Tokens' = Tokens \cup {k}
      BY <1>2 DEF Tokens
    <2>3. IsFiniteSet(Tokens') /\ Cardinality(Tokens') = k
      BY <1>1, <2>2, FS_AddElement
    <2>4. Tokens' = 1..Cardinality(Tokens')
      <3>1. Cardinality(Tokens) \in Nat
        BY Places
      <3>2. 1..k = (1..Cardinality(Tokens)) \cup {k}
        BY <3>1
      <3>. QED BY <1>1, <2>2, <2>3, <3>2
    <2>5. k \in Tokens' /\ Tokens \subseteq Tokens' /\ live' \subseteq Tokens'
      BY <1>1, <1>2, <2>2
    <2> HIDE DEF t
    <2>. QED BY <1>1, <1>2, <2>1, <2>3, <2>4, <2>5 DEF t
  <1>3. CASE /\ \E reply \in Replies \ {"ok"} :
                  Set(x, [th[x] EXCEPT !.pc = "store", !.token = 0, !.out = MapHttpError(reply)])
             /\ UNCHANGED <<expires, live>>
    <2>1. PICK reply \in Replies \ {"ok"} :
            Set(x, [th[x] EXCEPT !.pc = "store", !.token = 0, !.out = MapHttpError(reply)])
      BY <1>3
    <2> DEFINE o == MapHttpError(reply)
               t == [th[x] EXCEPT !.pc = "store", !.token = 0, !.out = o]
    <2>2. o \in Answers /\ o \notin {"ok", "empty"}
      BY DEF MapHttpError, Replies, Answers
    <2>3. Set(x, t)
      BY <2>1
    <2> HIDE DEF o
    <2>4. /\ t \in ThreadType /\ t.pc = "store" /\ t.client = th[x].client
          /\ t.op = th[x].op /\ t.step = th[x].step /\ t.seen = th[x].seen
          /\ t.since = th[x].since /\ t.token = 0 /\ t.out = o
      BY <2>2, ThreadFacts DEF ThreadType
    <2>5. Tokens' = Tokens
      BY <1>3 DEF Tokens
    <2> HIDE DEF t
    <2>. QED BY <1>1, <1>3, <2>2, <2>3, <2>4, <2>5
  <1>. QED BY <1>2, <1>3 DEF MintToken

\* MintToken keeps the shape.
LEMMA MintTokenShape ==
  ASSUME Shape, NEW x \in Threads, MintToken(x)
  PROVE  Shape'
  <1>1. PICK t \in ThreadType :
          /\ Set(x, t) /\ t.pc = "store" /\ t.client = th[x].client /\ t.op = th[x].op
          /\ t.step = th[x].step /\ t.seen = th[x].seen /\ t.since = th[x].since
          /\ t.token = 0 \/ t.token \in Tokens'
    BY Minted
  <1>2. /\ Tokens \subseteq Tokens' /\ IsFiniteSet(Tokens') /\ live' \subseteq Tokens'
        /\ Tokens' = 1..Cardinality(Tokens')
    BY Minted
  <1>3. /\ th[x].pc = "mint"
        /\ UNCHANGED <<clients, made, cache, lock, requests, now, pull, author, webhook, dropped>>
    BY DEF MintToken
  <1>4. TokensOK' /\ PullsOK' /\ CacheOK'
    <2>1. TokensOK'
      BY <1>2, <1>3 DEF Shape, TokensOK, webhook
    <2>. QED BY <1>2, <1>3, <2>1 DEF Shape, PullsOK, CacheOK, Clients
  <1>5. ThreadOK(x)'
    <2>1. th'[x] = t
      BY <1>1, Replaced
    <2>. QED BY <1>1, <1>2, <1>3, <2>1, ThreadFacts DEF ThreadOK
  <1>6. \A y \in Threads \ {x} : th[y].pc \in {"mint", "store"} => lock'[th[y].client] = y
    BY <1>3, ThreadFacts DEF ThreadOK
  <1>. QED BY <1>1, <1>2, <1>3, <1>4, <1>5, <1>6, PlaceStep

\* A request is answered: the thread holds neither a client nor a token.
LEMMA Answered ==
  ASSUME NEW t \in ThreadType, NEW out \in Answers \cup {"none"}
  PROVE  LET a == Answer(t, out)
         IN  /\ a \in ThreadType /\ a.pc = "done" /\ a.client = 0 /\ a.token = 0
             /\ a.out = out /\ a.op = t.op /\ a.step = t.step /\ a.seen = t.seen
             /\ a.since = t.since
  BY DEF Answer, ThreadType

\* get_token leaves the lock with the token, or by the exception.
LEMMA Stored ==
  ASSUME Shape, NEW x \in Threads, StoreToken(x)
  PROVE  \E t \in ThreadType :
           /\ Set(x, t) /\ t.op = th[x].op /\ t.step = th[x].step /\ t.seen = th[x].seen
           /\ t.since = th[x].since
           /\ \/ /\ th[x].token # 0 /\ t.pc = "send" /\ t.client = th[x].client
                 /\ t.token = th[x].token
                 /\ cache' = [cache EXCEPT ![th[x].client] = th[x].token]
              \/ /\ th[x].token = 0 /\ t.pc = "done" /\ t.client = 0 /\ t.token = 0
                 /\ t.out = th[x].out /\ cache' = cache
  <1> DEFINE s == [th[x] EXCEPT !.pc = "send", !.asked = 0]
             a == Answer(th[x], th[x].out)
  <1>1. /\ s \in ThreadType /\ s.pc = "send" /\ s.client = th[x].client /\ s.op = th[x].op
        /\ s.step = th[x].step /\ s.seen = th[x].seen /\ s.since = th[x].since
        /\ s.token = th[x].token
    BY ThreadFacts DEF ThreadType
  <1>2. th[x].out \in Answers \cup {"none"}
    BY ThreadFacts DEF ThreadType
  <1>3. /\ a \in ThreadType /\ a.pc = "done" /\ a.client = 0 /\ a.token = 0
        /\ a.out = th[x].out /\ a.op = th[x].op /\ a.step = th[x].step
        /\ a.seen = th[x].seen /\ a.since = th[x].since
    BY <1>2, Answered, ThreadFacts
  <1>4. \/ /\ th[x].token # 0 /\ Set(x, s)
           /\ cache' = [cache EXCEPT ![th[x].client] = th[x].token]
        \/ th[x].token = 0 /\ Set(x, a) /\ cache' = cache
    BY DEF StoreToken
  <1> HIDE DEF s, a
  <1>. QED BY <1>1, <1>3, <1>4

\* StoreToken keeps the shape.
LEMMA StoreTokenShape ==
  ASSUME Shape, NEW x \in Threads, StoreToken(x)
  PROVE  Shape'
  <1> DEFINE c == th[x].client
  <1>1. PICK t \in ThreadType :
           /\ Set(x, t) /\ t.op = th[x].op /\ t.step = th[x].step /\ t.seen = th[x].seen
           /\ t.since = th[x].since
           /\ \/ /\ th[x].token # 0 /\ t.pc = "send" /\ t.client = th[x].client
                 /\ t.token = th[x].token
                 /\ cache' = [cache EXCEPT ![th[x].client] = th[x].token]
              \/ /\ th[x].token = 0 /\ t.pc = "done" /\ t.client = 0 /\ t.token = 0
                 /\ t.out = th[x].out /\ cache' = cache
    BY Stored
  <1>2. /\ th[x].pc = "store" /\ lock' = [lock EXCEPT ![c] = "free"]
        /\ UNCHANGED <<clients, made, requests, now, github, webhook, dropped>>
    BY DEF StoreToken
  <1>3. /\ c \in Clients /\ c \in 1..made /\ th[x].token \in {0} \cup Tokens
        /\ lock[c] = x /\ th[x].op \in Ops
    BY <1>2, ThreadFacts DEF ThreadOK
  <1>4. TokensOK' /\ PullsOK' /\ Tokens' = Tokens
    BY <1>2 DEF Shape, TokensOK, PullsOK, github, webhook, Tokens
  <1>5. /\ lock' \in [Clients -> Threads \cup {"free"}]
        /\ \A y \in Threads \ {x} :
             th[y].pc \in {"mint", "store"} => lock'[th[y].client] = y
    BY <1>2, <1>3, LockKept
  <1>6. CacheOK'
    <2>1. made \in Nat /\ cache \in [Clients -> {0} \cup Tokens] /\ Clients' = Clients
      BY Places DEF Shape, CacheOK, Clients
    <2>2. cache' \in [Clients -> {0} \cup Tokens]
      BY <1>1, <1>3, <2>1
    <2>3. ASSUME NEW e \in Clients, e > made PROVE cache'[e] = 0
      <3>1. cache[e] = 0 /\ e # c
        BY <1>3, <2>1, <2>3 DEF Shape, CacheOK, Clients
      <3>. QED BY <1>1, <1>3, <2>1, <3>1
    <2>. QED BY <1>2, <1>4, <1>5, <2>1, <2>2, <2>3 DEF CacheOK
  <1>7. ThreadOK(x)'
    <2>1. th'[x] = t
      BY <1>1, Replaced
    <2>. QED BY <1>1, <1>2, <1>3, <1>4, <2>1, ThreadFacts, Places DEF ThreadOK
  <1>. QED BY <1>1, <1>2, <1>4, <1>5, <1>6, <1>7, PlaceStep

\* What the rest of _authed_request and of the operation make of an answer.
LEMMA ReceivedIs ==
  ASSUME Shape, NEW x \in Threads, NEW t \in ThreadType, NEW reply \in Replies,
         NEW u \in Received(x, t, reply)
  PROVE  /\ u \in ThreadType /\ u.op = t.op /\ u.since = t.since /\ u.seen = t.seen
         /\ \/ /\ reply = "refused" /\ u.pc = "evict" /\ u.client = t.client
               /\ u.token = t.token /\ u.step = t.step
            \/ /\ reply \notin {"ok", "refused"} /\ u.pc = "done" /\ u.client = 0
               /\ u.token = 0 /\ u.out = MapHttpError(reply) /\ u.step = t.step
            \/ /\ reply = "ok" /\ u.pc = "done" /\ u.client = 0 /\ u.token = 0
               /\ u.step = t.step /\ u.out \in Answers
               /\ \/ Call(x) = "list_pulls" /\ t.seen # 0 /\ u.out = "empty"
                  \/ LastCall(x) /\ (t.op = "open_pr" => u.out = "ok")
            \/ /\ reply = "ok" /\ u.pc = "lock" /\ u.client = t.client /\ u.token = 0
               /\ u.step = t.step + 1 /\ ~LastCall(x)
               /\ ~(Call(x) = "list_pulls" /\ t.seen # 0)
  <1>1. CASE reply = "refused"
    <2>1. u = [t EXCEPT !.pc = "evict"]
      BY <1>1 DEF Received
    <2>. QED BY <1>1, <2>1 DEF ThreadType
  <1>2. CASE reply \notin {"ok", "refused"}
    <2>1. u = Answer(t, MapHttpError(reply))
      BY <1>2 DEF Received
    <2>2. MapHttpError(reply) \in Answers
      BY <1>2 DEF MapHttpError, Replies, Answers
    <2>. QED BY <1>2, <2>1, <2>2, Answered
  <1>3. CASE reply = "ok" /\ Call(x) = "list_pulls" /\ t.seen # 0
    <2>1. u = Answer(t, "empty")
      BY <1>3 DEF Received
    <2>2. "empty" \in Answers
      BY DEF Answers
    <2>. QED BY <1>3, <2>1, <2>2, Answered
  <1>4. CASE reply = "ok" /\ ~LastCall(x) /\ ~(Call(x) = "list_pulls" /\ t.seen # 0)
    <2>1. u = AskToken([t EXCEPT !.step = @ + 1, !.token = 0])
      BY <1>4 DEF Received
    <2>2. PICK n \in Nat : n = t.step + 1
      BY DEF ThreadType
    <2> DEFINE v == [t EXCEPT !.step = n, !.token = 0]
    <2>3. now \in Nat /\ u = [v EXCEPT !.pc = "lock", !.asked = now]
      BY <2>1, <2>2 DEF AskToken, Shape, TokensOK
    <2>4. /\ v \in ThreadType /\ v.op = t.op /\ v.since = t.since /\ v.seen = t.seen
          /\ v.client = t.client /\ v.token = 0 /\ v.step = n
      BY DEF ThreadType
    <2> HIDE DEF v
    <2>5. /\ u \in ThreadType /\ u.op = t.op /\ u.since = t.since /\ u.seen = t.seen
          /\ u.client = t.client /\ u.token = 0 /\ u.step = n /\ u.pc = "lock"
      BY <2>3, <2>4 DEF ThreadType
    <2>. QED BY <1>4, <2>2, <2>5
  <1>5. CASE reply = "ok" /\ LastCall(x) /\ ~(Call(x) = "list_pulls" /\ t.seen # 0)
    <2>1. \E out \in Answers : u = Answer(t, out) /\ (t.op = "open_pr" => out = "ok")
      BY <1>5 DEF Received, Answers
    <2>. QED BY <1>5, <2>1, Answered
  <1>. QED BY <1>1, <1>2, <1>3, <1>4, <1>5

\* A call of GitHub: what the thread holds afterwards, and whether the call
\* opened a pull request.
LEMMA Served ==
  ASSUME Shape, NEW x \in Threads, Serve(x)
  PROVE  \E t \in ThreadType, reply \in Replies :
           \E u \in Received(x, t, reply) :
             /\ Set(x, u) /\ t.op = th[x].op /\ t.step = th[x].step
             /\ t.client = th[x].client /\ t.token = th[x].token /\ t.since = th[x].since
             /\ \/ /\ Call(x) = "create_pull" /\ reply \in {"ok", "unreachable"}
                   /\ author' = Append(author, x) /\ pull' = Len(author')
                   /\ t.seen = pull'
                \/ /\ ~(Call(x) = "create_pull" /\ reply = "ok")
                   /\ UNCHANGED <<author, pull>>
                   /\ t.seen = IF Call(x) = "list_pulls" /\ reply = "ok"
                               THEN pull ELSE th[x].seen
  <1>1. \A n \in Nat :
          LET t == [th[x] EXCEPT !.seen = n]
          IN  /\ t \in ThreadType /\ t.op = th[x].op /\ t.step = th[x].step
              /\ t.client = th[x].client /\ t.token = th[x].token
              /\ t.since = th[x].since /\ t.seen = n
    BY ThreadFacts DEF ThreadType
  <1>2. pull \in Nat /\ th[x].seen \in Nat /\ author \in Seq(Threads)
    BY ThreadFacts DEF Shape, PullsOK, ThreadType
  <1>3. PICK reply \in Replies :
          \/ /\ Call(x) = "create_pull" /\ reply \in {"ok", "unreachable"}
             /\ author' = Append(author, x) /\ pull' = Len(author')
             /\ \E u \in Received(x, [th[x] EXCEPT !.seen = pull'], reply) : Set(x, u)
          \/ /\ ~(Call(x) = "create_pull" /\ reply = "ok")
             /\ \E u \in Received(x, [th[x] EXCEPT !.seen =
                                        IF Call(x) = "list_pulls" /\ reply = "ok"
                                        THEN pull ELSE th[x].seen], reply) : Set(x, u)
             /\ UNCHANGED <<author, pull>>
    BY Zenon DEF Serve
  <1>4. CASE /\ Call(x) = "create_pull" /\ reply \in {"ok", "unreachable"}
             /\ author' = Append(author, x) /\ pull' = Len(author')
             /\ \E u \in Received(x, [th[x] EXCEPT !.seen = pull'], reply) : Set(x, u)
    <2>1. pull' \in Nat
      BY <1>2, <1>4
    <2> DEFINE t == [th[x] EXCEPT !.seen = pull']
    <2>2. /\ t \in ThreadType /\ t.op = th[x].op /\ t.step = th[x].step
          /\ t.client = th[x].client /\ t.token = th[x].token
          /\ t.since = th[x].since /\ t.seen = pull'
      BY <1>1, <2>1
    <2>3. \E u \in Received(x, t, reply) : Set(x, u)
      BY <1>4
    <2> HIDE DEF t
    <2>. QED BY <1>4, <2>2, <2>3
  <1>5. CASE /\ ~(Call(x) = "create_pull" /\ reply = "ok")
             /\ \E u \in Received(x, [th[x] EXCEPT !.seen =
                                        IF Call(x) = "list_pulls" /\ reply = "ok"
                                        THEN pull ELSE th[x].seen], reply) : Set(x, u)
             /\ UNCHANGED <<author, pull>>
    <2> DEFINE n == IF Call(x) = "list_pulls" /\ reply = "ok" THEN pull ELSE th[x].seen
               t == [th[x] EXCEPT !.seen = n]
    <2>1. n \in Nat
      BY <1>2
    <2>2. \E u \in Received(x, t, reply) : Set(x, u)
      BY <1>5
    <2> HIDE DEF n
    <2>3. /\ t \in ThreadType /\ t.op = th[x].op /\ t.step = th[x].step
          /\ t.client = th[x].client /\ t.token = th[x].token
          /\ t.since = th[x].since /\ t.seen = n
      BY <1>1, <2>1
    <2> HIDE DEF t
    <2>. QED BY <1>5, <2>2, <2>3 DEF n
  <1>. QED BY <1>3, <1>4, <1>5

\* Serve keeps the shape.
LEMMA ServeShape ==
  ASSUME Shape, NEW x \in Threads, Serve(x)
  PROVE  Shape'
  <1>1. PICK t \in ThreadType, reply \in Replies :
          \E u \in Received(x, t, reply) :
            /\ Set(x, u) /\ t.op = th[x].op /\ t.client = th[x].client
            /\ t.token = th[x].token /\ t.since = th[x].since
            /\ \/ author' = Append(author, x) /\ pull' = Len(author')
               \/ UNCHANGED <<author, pull>>
    BY Served
  <1>2. PICK u \in Received(x, t, reply) : Set(x, u)
    BY <1>1
  <1>3. /\ th[x].pc = "send"
        /\ UNCHANGED <<clients, made, cache, lock, requests, now, expires, live, webhook, dropped>>
    BY DEF Serve
  <1>4. /\ u \in ThreadType /\ u.op = th[x].op /\ u.since = th[x].since
        /\ \/ u.pc = "evict" /\ u.client = th[x].client /\ u.token = th[x].token
           \/ u.pc = "done" /\ u.client = 0 /\ u.token = 0
           \/ u.pc = "lock" /\ u.client = th[x].client /\ u.token = 0
    BY <1>1, <1>2, ReceivedIs
  <1>5. TokensOK' /\ CacheOK' /\ Tokens' = Tokens
    BY <1>3 DEF Shape, TokensOK, CacheOK, webhook, Tokens, Clients
  <1>6. PullsOK'
    BY <1>1 DEF Shape, PullsOK
  <1>7. ThreadOK(x)'
    <2>1. th'[x] = u
      BY <1>2, <1>4, Replaced
    <2>. QED BY <1>3, <1>4, <1>5, <2>1, ThreadFacts, Places DEF ThreadOK
  <1>8. \A y \in Threads \ {x} : th[y].pc \in {"mint", "store"} => lock'[th[y].client] = y
    BY <1>3, ThreadFacts DEF ThreadOK
  <1>. QED BY <1>2, <1>3, <1>4, <1>5, <1>6, <1>7, <1>8, PlaceStep

\* A cache is emptied under its lock.
LEMMA Emptied ==
  ASSUME Shape, NEW c \in Clients, cache' = [cache EXCEPT ![c] = 0],
         UNCHANGED <<made, lock, expires>>
  PROVE  CacheOK'
  <1>1. cache \in [Clients -> {0} \cup Tokens] /\ Clients' = Clients /\ Tokens' = Tokens
    BY DEF Shape, CacheOK, Clients, Tokens
  <1>2. cache' \in [Clients -> {0} \cup Tokens] /\ \A e \in Clients : cache'[e] \in {0, cache[e]}
    BY <1>1
  <1>. QED BY <1>1, <1>2 DEF Shape, CacheOK

\* ForceEvict keeps the shape.
LEMMA ForceEvictShape ==
  ASSUME Shape, NEW x \in Threads, ForceEvict(x)
  PROVE  Shape'
  <1> DEFINE c == th[x].client
             t == Answer(th[x], "permission-denied")
  <1>1. /\ th[x].pc = "evict" /\ Set(x, t) /\ cache' = [cache EXCEPT ![c] = 0]
        /\ dropped' = dropped \cup {<<c, th[x].token>>}
        /\ UNCHANGED <<clients, made, lock, requests, now, github, webhook>>
    BY DEF ForceEvict
  <1>2. c \in Clients /\ c \in 1..made /\ th[x].token \in Tokens /\ th[x].op \in Ops
    BY <1>1, ThreadFacts DEF ThreadOK
  <1>3. /\ t \in ThreadType /\ t.pc = "done" /\ t.client = 0 /\ t.token = 0
        /\ t.op = th[x].op /\ t.since = th[x].since
    BY Answered, ThreadFacts DEF Answers
  <1> HIDE DEF t
  <1>4. Tokens' = Tokens /\ CacheOK' /\ PullsOK'
    BY <1>1, <1>2, Emptied DEF Shape, PullsOK, github, Tokens
  <1>5. TokensOK'
    <2>1. \A d \in dropped' : d[1] \in 1..made /\ d[2] \in Tokens
      BY <1>1, <1>2 DEF Shape, TokensOK
    <2>. QED BY <1>1, <1>4, <2>1 DEF Shape, TokensOK, github, webhook
  <1>6. ThreadOK(x)'
    <2>1. th'[x] = t
      BY <1>1, <1>3, Replaced
    <2>. QED BY <1>1, <1>2, <1>3, <1>4, <2>1, ThreadFacts, Places DEF ThreadOK
  <1>7. \A y \in Threads \ {x} : th[y].pc \in {"mint", "store"} => lock'[th[y].client] = y
    BY <1>1, ThreadFacts DEF ThreadOK
  <1>. QED BY <1>1, <1>3, <1>4, <1>5, <1>6, <1>7, PlaceStep

\* Finish keeps the shape.
LEMMA FinishShape ==
  ASSUME Shape, NEW x \in Threads, Finish(x)
  PROVE  Shape'
  <1>1. /\ th[x].pc = "done" /\ Set(x, Idle)
        /\ UNCHANGED <<clients, made, cache, lock, requests, now, github, webhook, dropped>>
    BY DEF Finish
  <1>2. Tokens' = Tokens /\ CacheOK' /\ PullsOK' /\ TokensOK'
    BY <1>1 DEF Shape, PullsOK, CacheOK, TokensOK, github, webhook, Tokens, Clients
  <1>3. ThreadOK(x)'
    <2>1. th'[x] = Idle
      BY <1>1, IdleType, Replaced
    <2>. QED BY <1>1, <1>2, <2>1, IdleType, Places DEF ThreadOK
  <1>4. \A y \in Threads \ {x} : th[y].pc \in {"mint", "store"} => lock'[th[y].client] = y
    BY <1>1, ThreadFacts DEF ThreadOK
  <1>. QED BY <1>1, <1>2, <1>3, <1>4, IdleType, PlaceStep

\* The steps of the webhook, of GitHub and of the clock leave the threads alone.
LEMMA ElsewhereStep ==
  ASSUME Shape, UNCHANGED <<th, made, lock, requests, expires>>, clients' \in {clients, 0},
         CacheOK', TokensOK', PullsOK'
  PROVE  Shape'
  <1>1. Making' = Making /\ Tokens' = Tokens
    BY DEF Making, Tokens
  <1>2. TableOK'
    BY <1>1 DEF Shape, TableOK
  <1>3. ASSUME NEW x \in Threads PROVE ThreadOK(x)'
    <2>1. ThreadOK(x)
      BY ThreadFacts
    <2>. QED BY <1>1, <2>1 DEF ThreadOK
  <1>4. th' \in [Threads -> ThreadType]
    BY DEF Shape
  <1>. QED BY <1>2, <1>3, <1>4 DEF Shape

\* handle_installation_webhook: the client leaves the table.
LEMMA WebhookPopShape ==
  ASSUME Shape, NEW e \in events, WebhookPop(e)
  PROVE  Shape'
  <1>1. /\ UNCHANGED <<made, cache, lock, th, requests, now, github, handled, dropped>>
        /\ events' \subseteq events /\ Tokens' = Tokens
    BY DEF WebhookPop, github, Tokens
  <1>2. CacheOK' /\ PullsOK'
    BY <1>1 DEF Shape, CacheOK, PullsOK, github, Clients
  <1>3. e.tokens \subseteq Tokens /\ clients \in 0..made
    BY DEF Shape, TokensOK, TableOK
  <1>4. clients' \in {clients, 0}
    BY DEF WebhookPop
  <1>5. CASE UNCHANGED hook /\ over' \in {over, over \cup e.tokens}
    <2>1. TokensOK'
      BY <1>1, <1>3, <1>5 DEF Shape, TokensOK, github
    <2>. QED BY <1>1, <1>2, <1>4, <2>1, ElsewhereStep DEF github
  <1>6. CASE /\ hook' = [client |-> clients, tokens |-> e.tokens] /\ clients # 0
             /\ UNCHANGED over
    <2>1. hook'.client = clients /\ hook'.tokens = e.tokens
      BY <1>6
    <2>2. TokensOK'
      BY <1>1, <1>3, <1>6, <2>1 DEF Shape, TokensOK, github
    <2>. QED BY <1>1, <1>2, <1>4, <2>2, ElsewhereStep DEF github
  <1>. QED BY <1>5, <1>6 DEF WebhookPop

\* The client that left the table is emptied.
LEMMA WebhookEvictShape ==
  ASSUME Shape, WebhookEvict
  PROVE  Shape'
  <1>1. /\ hook # NoHook /\ cache' = [cache EXCEPT ![hook.client] = 0]
        /\ over' = over \cup hook.tokens /\ handled' = handled \cup {hook} /\ hook' = NoHook
        /\ UNCHANGED <<clients, made, lock, th, requests, now, github, events, dropped>>
    BY DEF WebhookEvict
  <1>2. hook.client \in 1..made /\ hook.client \in Clients
    BY <1>1, Places DEF Shape, TokensOK
  <1>3. CacheOK' /\ PullsOK' /\ Tokens' = Tokens
    BY <1>1, <1>2, Emptied DEF Shape, PullsOK, github, Tokens
  <1>4. TokensOK'
    <2>1. NoHook.client = 0 /\ NoHook.tokens = {}
      BY DEF NoHook
    <2>2. \A h \in handled' : h.client \in 1..made /\ h.tokens \subseteq Tokens
      BY <1>1, <1>2 DEF Shape, TokensOK
    <2>. QED BY <1>1, <1>3, <2>1, <2>2, Places DEF Shape, TokensOK, github
  <1>. QED BY <1>1, <1>3, <1>4, ElsewhereStep DEF github

\* GitHub's own steps and the clock.
LEMMA OutsideShape ==
  ASSUME Shape, Uninstall \/ Reinstall \/ ClosePull \/ Tick
  PROVE  Shape'
  <1>1. /\ UNCHANGED <<clients, made, cache, lock, th, requests, expires, author, hook, over,
                       handled, dropped>>
        /\ Tokens' = Tokens /\ pull' \in {0, pull} /\ now' \in {now, now + 1}
        /\ live' \in {live, {}}
    BY DEF Uninstall, Reinstall, ClosePull, Tick, github, webhook, Tokens
  <1>2. \A e \in events' : e.tokens \subseteq Tokens
    BY DEF Uninstall, Reinstall, ClosePull, Tick, webhook, Shape, TokensOK
  <1>3. CacheOK' /\ PullsOK'
    BY <1>1 DEF Shape, CacheOK, PullsOK, Clients
  <1>4. TokensOK'
    BY <1>1, <1>2 DEF Shape, TokensOK
  <1>. QED BY <1>1, <1>3, <1>4, ElsewhereStep

-----------------------------------------------------------------------------
(* A clean client stays clean.                                             *)

\* How tokens get into a cache: by StoreToken, from a thread that fetched them
\* for that client; and to such a thread: new from GitHub.
TokensMove ==
  /\ \A c \in 1..made :
       \/ cache'[c] \in {cache[c], 0}
       \/ \E x \in Threads :
            th[x].client = c /\ th[x].pc = "store" /\ cache'[c] = th[x].token
  /\ \A x \in Threads : th'[x].pc = "store" => th'[x] = th[x] \/ th'[x].token \notin Tokens

\* The last definition is all that clean clients need.
LEMMA StaysClean ==
  ASSUME Shape, TokensMove, NEW c \in 1..made, NEW S \in SUBSET Tokens, Clean(c, S)
  PROVE  Clean(c, S)'
  <1>1. cache'[c] \notin S
    BY Places DEF TokensMove, Clean
  <1>2. ASSUME NEW x \in Threads, th'[x].client = c, th'[x].pc = "store"
        PROVE  th'[x].token \notin S
    BY <1>2 DEF TokensMove, Clean
  <1>. QED BY <1>1, <1>2 DEF Clean

\* A step of one thread that leaves the caches alone and fetches nothing.
LEMMA PlainMove ==
  ASSUME Shape, NEW x \in Threads, NEW t \in ThreadType, Set(x, t), UNCHANGED cache,
         t.pc = "store" => t.token \notin Tokens
  PROVE  TokensMove
  BY Replaced DEF TokensMove

\* Every step moves tokens that way only.
LEMMA StepMoves ==
  ASSUME Shape, NEW x \in Threads, Step(x)
  PROVE  TokensMove
  <1>1. CASE MakeClient(x)
    BY <1>1, Made, PlainMove DEF MakeClient
  <1>2. CASE GetToken(x)
    BY <1>2, TokenAsked, PlainMove DEF GetToken
  <1>3. CASE MintToken(x)
    BY <1>3, Minted, Places, PlainMove DEF MintToken
  <1>4. CASE StoreToken(x)
    <2>1. PICK t \in ThreadType :
            /\ Set(x, t) /\ t.pc \in {"send", "done"}
            /\ cache' = [cache EXCEPT ![th[x].client] = th[x].token] \/ cache' = cache
      BY <1>4, Stored
    <2>2. /\ th'[x] = t /\ \A y \in Threads \ {x} : th'[y] = th[y]
      BY <2>1, Replaced
    <2>3. th[x].pc = "store" /\ 1..made \subseteq Clients
      BY <1>4, Places DEF StoreToken
    <2>4. cache \in [Clients -> {0} \cup Tokens]
      BY DEF Shape, CacheOK
    <2>5. ASSUME NEW c \in 1..made, cache'[c] # cache[c]
          PROVE  c = th[x].client /\ cache'[c] = th[x].token
      BY <2>1, <2>3, <2>4, <2>5
    <2>. QED BY <2>1, <2>2, <2>3, <2>5 DEF TokensMove
  <1>5. CASE Serve(x)
    <2>1. PICK t \in ThreadType, reply \in Replies :
            \E u \in Received(x, t, reply) : Set(x, u)
      BY <1>5, Served
    <2>2. PICK u \in Received(x, t, reply) : Set(x, u)
      BY <2>1
    <2>3. u \in ThreadType /\ u.pc # "store"
      BY <2>2, ReceivedIs
    <2>. QED BY <1>5, <2>2, <2>3, PlainMove DEF Serve
  <1>6. CASE ForceEvict(x)
    <2> DEFINE t == Answer(th[x], "permission-denied")
    <2>1. t \in ThreadType /\ t.pc = "done" /\ Set(x, t)
      BY <1>6, Answered, ThreadFacts DEF Answers, ForceEvict
    <2> HIDE DEF t
    <2>2. th'[x] = t /\ \A y \in Threads \ {x} : th'[y] = th[y]
      BY <2>1, Replaced
    <2>3. \A c \in 1..made : cache'[c] \in {cache[c], 0}
      BY <1>6, Places DEF ForceEvict, Shape, CacheOK
    <2>. QED BY <2>1, <2>2, <2>3 DEF TokensMove
  <1>7. CASE Finish(x)
    BY <1>7, IdleType, PlainMove DEF Finish
  <1>. QED BY <1>1, <1>2, <1>3, <1>4, <1>5, <1>6, <1>7 DEF Step

-----------------------------------------------------------------------------
(* Every step keeps the clients clean.                                     *)

\* The others stay clean whatever one thread does.
LEMMA OthersClean ==
  ASSUME Shape, CleanOK, TokensMove, NEW y \in Threads, th'[y] = th[y]
  PROVE  /\ th'[y].token \notin th'[y].since
         /\ th'[y].client # 0 => Clean(th[y].client, th[y].since)'
  <1>1. /\ th[y].token \notin th[y].since
        /\ th[y].client # 0 => Clean(th[y].client, th[y].since)
    BY DEF CleanOK
  <1>2. th[y].client # 0 => th[y].client \in 1..made /\ th[y].since \in SUBSET Tokens
    BY ThreadFacts DEF ThreadOK
  <1>3. th[y].client # 0 =>
          \A c, S : c = th[y].client /\ S = th[y].since => Clean(c, S)'
    BY <1>1, <1>2, StaysClean
  <1>. QED BY <1>1, <1>3 DEF Clean

\* So do the clients of handled uninstallations and of dropped tokens.
LEMMA HistoryClean ==
  ASSUME Shape, CleanOK, TokensMove
  PROVE  /\ \A h \in handled : Clean(h.client, h.tokens)'
         /\ \A d \in dropped : Clean(d[1], {d[2]})'
  BY StaysClean DEF Shape, TokensOK, CleanOK

\* So does the client in the table while the table and the webhook are as they were.
LEMMA TableClean ==
  ASSUME Shape, CleanOK, TokensMove, UNCHANGED <<clients, over, hook>>
  PROVE  clients # 0 => Clean(clients, over)' /\ Clean(clients, hook.tokens)'
  <1>1. clients # 0 =>
          /\ clients \in 1..made /\ over \in SUBSET Tokens /\ hook.tokens \in SUBSET Tokens
          /\ Clean(clients, over) /\ Clean(clients, hook.tokens)
    BY DEF Shape, TableOK, TokensOK, CleanOK
  <1>2. clients # 0 => \A S \in SUBSET Tokens : Clean(clients, S) => Clean(clients, S)'
    BY <1>1, StaysClean DEF Clean
  <1>. QED BY <1>1, <1>2 DEF Clean

\* A step of one thread, with the table and the webhook as they were.
LEMMA ThreadClean ==
  ASSUME Shape, CleanOK, TokensMove, NEW x \in Threads, NEW t \in ThreadType, Set(x, t),
         UNCHANGED <<clients, over, hook, handled, dropped>>,
         t.token \notin t.since,
         t.client # 0 =>
           t.client \in 1..made /\ t.since \in SUBSET Tokens /\ Clean(t.client, t.since)
  PROVE  CleanOK'
  <1>1. th'[x] = t /\ \A y \in Threads \ {x} : th'[y] = th[y]
    BY Replaced
  <1>2. t.client # 0 => Clean(t.client, t.since)'
    BY StaysClean
  <1>3. ASSUME NEW y \in Threads
        PROVE  /\ th'[y].token \notin th'[y].since
               /\ th'[y].client # 0 => Clean(th[y].client, th[y].since)'
    <2>1. CASE y = x
      BY <1>1, <1>2, <2>1 DEF Clean
    <2>2. CASE y # x
      BY <1>1, <2>2, OthersClean
    <2>. QED BY <2>1, <2>2
  <1>. QED BY <1>3, TableClean, HistoryClean DEF CleanOK

\* A client just made has an empty cache and nobody fetches for it yet.
LEMMA NewIsClean ==
  ASSUME Shape, NEW x \in Threads, MakeClient(x), NEW S \in SUBSET Tokens
  PROVE  \A c : c = made + 1 => Clean(c, S)'
  <1>1. PICK t \in ThreadType : Set(x, t) /\ t.pc = "lock"
    BY Made
  <1>2. th'[x] = t /\ \A y \in Threads \ {x} : th'[y] = th[y]
    BY <1>1, Replaced
  <1>3. th[x].pc = "make" /\ made' = made + 1 /\ cache' = cache
    BY DEF MakeClient
  <1>4. made + 1 \in Clients /\ made \in Nat
    <2>1. IsFiniteSet(Making)' /\ Cardinality(Making') = Cardinality(Making) - 1
      BY <1>1, <1>3, MakingLess
    <2>2. Cardinality(Making) \in Nat /\ Cardinality(Making') \in Nat
      BY <2>1, FS_CardinalityType DEF Shape, TableOK
    <2>. QED BY <2>1, <2>2, SourceControlAssumption DEF Shape, TableOK, Clients
  <1>5. cache'[made + 1] = 0
    BY <1>3, <1>4 DEF Shape, CacheOK
  <1>6. ASSUME NEW y \in Threads, th'[y].client = made + 1 PROVE th'[y].pc # "store"
    <2>1. CASE y = x
      BY <1>1, <1>2, <2>1
    <2>2. CASE y # x
      <3>1. th[y].client \in 0..made /\ th[y].client = made + 1
        BY <1>2, <1>6, <2>2, ThreadFacts DEF ThreadOK
      <3>. QED BY <1>4, <3>1
    <2>. QED BY <2>1, <2>2
  <1>. QED BY <1>5, <1>6, Places DEF Clean

\* MakeClient keeps clients clean.
LEMMA MakeClientClean ==
  ASSUME Shape, CleanOK, NEW x \in Threads, MakeClient(x)
  PROVE  CleanOK'
  <1>1. TokensMove
    BY StepMoves DEF Step
  <1>2. PICK t \in ThreadType :
          /\ Set(x, t) /\ t.client = made + 1 /\ t.token = th[x].token /\ t.since = th[x].since
    BY Made
  <1>3. th'[x] = t /\ \A y \in Threads \ {x} : th'[y] = th[y]
    BY <1>2, Replaced
  <1>4. /\ clients' = made + 1 /\ UNCHANGED <<over, hook, handled, dropped>>
    BY DEF MakeClient, webhook
  <1>5. /\ over \in SUBSET Tokens /\ hook.tokens \in SUBSET Tokens /\ t.since \in SUBSET Tokens
        /\ t.token \notin t.since
    BY <1>2, ThreadFacts DEF Shape, TokensOK, ThreadOK, CleanOK
  <1>6. \A c, S : c = made + 1 /\ S \in SUBSET Tokens => Clean(c, S)'
    BY NewIsClean
  <1>7. ASSUME NEW y \in Threads
        PROVE  /\ th'[y].token \notin th'[y].since
               /\ th'[y].client # 0 => Clean(th[y].client, th[y].since)'
    <2>1. CASE y = x
      BY <1>2, <1>3, <1>5, <1>6, <2>1 DEF Clean
    <2>2. CASE y # x
      BY <1>1, <1>3, <2>2, OthersClean
    <2>. QED BY <2>1, <2>2
  <1>8. Clean(clients, over)' /\ Clean(clients, hook.tokens)'
    BY <1>4, <1>5, <1>6 DEF Clean
  <1>. QED BY <1>1, <1>4, <1>7, <1>8, HistoryClean DEF CleanOK

\* A client emptied while its lock is free is clean of every token.
LEMMA EmptiedIsClean ==
  ASSUME Shape, NEW c \in 1..made, lock[c] = "free", cache' = [cache EXCEPT ![c] = 0],
         \A y \in Threads : th'[y].pc = "store" => th'[y] = th[y], NEW S \in SUBSET Tokens
  PROVE  Clean(c, S)'
  <1>1. cache'[c] = 0
    BY Places DEF Shape, CacheOK
  <1>2. ASSUME NEW y \in Threads, th'[y].client = c PROVE th'[y].pc # "store"
    BY <1>2, NobodyFetches
  <1>. QED BY <1>1, <1>2, Places DEF Clean

\* force_evict after a refused token.
LEMMA ForceEvictClean ==
  ASSUME Shape, CleanOK, NEW x \in Threads, ForceEvict(x)
  PROVE  CleanOK'
  <1> DEFINE c == th[x].client
             k == th[x].token
             t == Answer(th[x], "permission-denied")
  <1>1. TokensMove
    BY StepMoves DEF Step
  <1>2. /\ th[x].pc = "evict" /\ Set(x, t) /\ cache' = [cache EXCEPT ![c] = 0]
        /\ lock[c] = "free" /\ dropped' = dropped \cup {<<c, k>>}
        /\ UNCHANGED <<clients, over, hook, handled>>
    BY DEF ForceEvict, LockFree, webhook
  <1>3. t \in ThreadType /\ t.pc = "done" /\ t.client = 0 /\ t.token = 0 /\ t.since = th[x].since
    BY Answered, ThreadFacts DEF Answers
  <1> HIDE DEF t
  <1>4. th'[x] = t /\ \A y \in Threads \ {x} : th'[y] = th[y]
    BY <1>2, <1>3, Replaced
  <1>5. c \in 1..made /\ k \in Tokens /\ th[x].since \subseteq Tokens
    BY <1>2, ThreadFacts DEF ThreadOK
  <1> HIDE DEF c, k
  <1>6. \A e, S : e = c /\ S = {k} => Clean(e, S)'
    BY <1>2, <1>3, <1>4, <1>5, EmptiedIsClean
  <1>7. \A d \in dropped' : Clean(d[1], {d[2]})'
    <2>1. ASSUME NEW d \in dropped' PROVE Clean(d[1], {d[2]})'
      <3>1. CASE d \in dropped
        BY <1>1, <3>1, HistoryClean
      <3>2. CASE d = <<c, k>>
        <4>1. d[1] = c /\ {d[2]} = {k}
          BY <3>2
        <4>. QED BY <1>6, <4>1
      <3>. QED BY <1>2, <3>1, <3>2
    <2>. QED BY <2>1
  <1>8. ASSUME NEW y \in Threads
        PROVE  /\ th'[y].token \notin th'[y].since
               /\ th'[y].client # 0 => Clean(th[y].client, th[y].since)'
    <2>1. CASE y = x
      BY <1>3, <1>4, <1>5, <2>1, Places
    <2>2. CASE y # x
      BY <1>1, <1>4, <2>2, OthersClean
    <2>. QED BY <2>1, <2>2
  <1>. QED BY <1>1, <1>2, <1>7, <1>8, TableClean, HistoryClean DEF CleanOK

\* A request that begins, or goes on, with a clean client.
LEMMA RequestClean ==
  ASSUME Shape, CleanOK, NEW x \in Threads,
         \/ \E op \in Ops, inScope \in BOOLEAN : Resolve(x, op, inScope)
         \/ GetToken(x) \/ MintToken(x) \/ StoreToken(x) \/ Serve(x) \/ Finish(x)
  PROVE  CleanOK'
  <1>1. UNCHANGED <<clients, over, hook, handled, dropped>>
    BY DEF Resolve, GetToken, MintToken, StoreToken, Serve, Finish, webhook
  <1>2. /\ th[x].since \in SUBSET Tokens /\ th[x].token \notin th[x].since
        /\ th[x].client # 0 =>
             /\ th[x].client \in 1..made /\ th[x].client \in Clients
             /\ Clean(th[x].client, th[x].since)
    BY ThreadFacts DEF ThreadOK, CleanOK
  <1>3. CASE \E op \in Ops, inScope \in BOOLEAN : Resolve(x, op, inScope)
    <2>1. PICK op \in Ops, inScope \in BOOLEAN : Resolve(x, op, inScope)
      BY <1>3
    <2>2. PICK t \in ThreadType :
            /\ Set(x, t) /\ t.token = 0 /\ t.since = over /\ t.pc \in {"make", "lock", "done"}
            /\ t.client # 0 => t.client = clients /\ clients # 0
      BY <2>1, Begun
    <2>3. /\ over \in SUBSET Tokens /\ 0 \notin over
          /\ clients # 0 => clients \in 1..made /\ Clean(clients, over)
      BY Places DEF Shape, TableOK, TokensOK, CleanOK
    <2>4. TokensMove
      BY <2>1, <2>2, PlainMove DEF Resolve
    <2>. QED BY <1>1, <2>2, <2>3, <2>4, ThreadClean
  <1>4. CASE GetToken(x)
    <2>1. PICK t \in ThreadType :
            /\ Set(x, t) /\ t.client = th[x].client /\ t.since = th[x].since
            /\ t.token \in {cache[th[x].client], th[x].token}
      BY <1>4, TokenAsked
    <2>2. th[x].client # 0
      BY <1>4, ThreadFacts DEF GetToken, ThreadOK
    <2>3. t.token \notin t.since
      BY <1>2, <2>1, <2>2 DEF Clean
    <2>4. TokensMove
      BY <1>4, StepMoves DEF Step
    <2>. QED BY <1>1, <1>2, <2>1, <2>3, <2>4, ThreadClean
  <1>5. CASE MintToken(x)
    <2>1. PICK t \in ThreadType :
            /\ Set(x, t) /\ t.client = th[x].client /\ t.since = th[x].since
            /\ t.token \notin Tokens \/ t.token = 0
      BY <1>5, Minted
    <2>2. t.token \notin t.since
      BY <1>2, <2>1, Places
    <2>3. TokensMove
      BY <1>5, StepMoves DEF Step
    <2>. QED BY <1>1, <1>2, <2>1, <2>2, <2>3, ThreadClean
  <1>6. CASE StoreToken(x)
    <2>1. PICK t \in ThreadType :
            /\ Set(x, t) /\ t.client \in {th[x].client, 0} /\ t.since = th[x].since
            /\ t.token = th[x].token
      BY <1>6, Stored
    <2>2. TokensMove
      BY <1>6, StepMoves DEF Step
    <2>. QED BY <1>1, <1>2, <2>1, <2>2, ThreadClean
  <1>7. CASE Serve(x)
    <2>1. PICK t \in ThreadType, reply \in Replies :
            \E u \in Received(x, t, reply) :
              Set(x, u) /\ t.client = th[x].client /\ t.token = th[x].token
              /\ t.since = th[x].since
      BY <1>7, Served
    <2>2. PICK u \in Received(x, t, reply) : Set(x, u)
      BY <2>1
    <2>3. /\ u \in ThreadType /\ u.client \in {th[x].client, 0} /\ u.since = th[x].since
          /\ u.token \in {0, th[x].token}
      BY <2>1, <2>2, ReceivedIs
    <2>4. u.token \notin u.since
      BY <1>2, <2>3, Places
    <2>5. TokensMove
      BY <1>7, StepMoves DEF Step
    <2>. QED BY <1>1, <1>2, <2>2, <2>3, <2>4, <2>5, ThreadClean
  <1>8. CASE Finish(x)
    <2>1. TokensMove /\ Set(x, Idle)
      BY <1>8, StepMoves DEF Step, Finish
    <2>. QED BY <1>1, <2>1, IdleType, ThreadClean
  <1>. QED BY <1>3, <1>4, <1>5, <1>6, <1>7, <1>8

\* The webhook's two steps, GitHub's own and the clock.
LEMMA ElsewhereClean ==
  ASSUME Shape, CleanOK,
         (\E e \in events : WebhookPop(e)) \/ WebhookEvict \/ Uninstall \/ Reinstall
           \/ ClosePull \/ Tick
  PROVE  CleanOK'
  <1>1. th' = th /\ dropped' = dropped
    BY DEF WebhookPop, WebhookEvict, Uninstall, Reinstall, ClosePull, Tick
  <1>2. TokensMove
    <2>1. \A c \in 1..made : cache'[c] \in {cache[c], 0}
      <3>1. CASE WebhookEvict
        BY <3>1, Places DEF WebhookEvict, Shape, CacheOK
      <3>2. CASE UNCHANGED cache
        BY <3>2
      <3>. QED BY <3>1, <3>2 DEF WebhookPop, Uninstall, Reinstall, ClosePull, Tick
    <2>. QED BY <1>1, <2>1 DEF TokensMove
  <1>3. \A y \in Threads : /\ th'[y].token \notin th'[y].since
                           /\ th'[y].client # 0 => Clean(th[y].client, th[y].since)'
    BY <1>1, <1>2, OthersClean
  <1>4. CASE \E e \in events : WebhookPop(e)
    <2>1. PICK e \in events : WebhookPop(e)
      BY <1>4
    <2>2. handled' = handled
      BY <2>1 DEF WebhookPop
    <2>3. CASE UNCHANGED <<clients, hook, over>>
      BY <1>1, <1>2, <1>3, <2>2, <2>3, TableClean, HistoryClean DEF CleanOK
    <2>4. CASE clients' = 0
      BY <1>1, <1>2, <1>3, <2>2, <2>4, HistoryClean DEF CleanOK
    <2>. QED BY <2>1, <2>3, <2>4 DEF WebhookPop
  <1>5. CASE WebhookEvict
    <2>1. /\ hook # NoHook /\ lock[hook.client] = "free"
          /\ cache' = [cache EXCEPT ![hook.client] = 0] /\ clients' = clients
          /\ over' = over \cup hook.tokens /\ handled' = handled \cup {hook} /\ hook' = NoHook
      BY <1>5 DEF WebhookEvict, LockFree
    <2>2. hook.client \in 1..made /\ hook.tokens \in SUBSET Tokens
      BY <2>1, Places DEF Shape, TokensOK
    <2>3. \A c, S : c = hook.client /\ S = hook.tokens => Clean(c, S)'
      BY <1>1, <2>1, <2>2, EmptiedIsClean
    <2>4. \A h \in handled' : Clean(h.client, h.tokens)'
      <3>1. ASSUME NEW h \in handled' PROVE Clean(h.client, h.tokens)'
        <4>1. CASE h \in handled
          BY <1>2, <4>1, HistoryClean
        <4>2. CASE h = hook
          BY <2>3, <4>2
        <4>. QED BY <2>1, <4>1, <4>2
      <3>. QED BY <3>1
    <2>5. clients # 0 => Clean(clients, over)' /\ Clean(clients, hook.tokens)'
      <3>1. NoHook.tokens = {}
        BY DEF NoHook
      <3>2. clients # 0 =>
              /\ clients \in 1..made /\ over \cup hook.tokens \in SUBSET Tokens
              /\ Clean(clients, over \cup hook.tokens)
        BY <2>2 DEF Shape, TableOK, TokensOK, CleanOK, Clean
      <3>3. clients # 0 =>
              \A c, S : c = clients /\ S = over \cup hook.tokens => Clean(c, S)'
        BY <1>2, <3>2, StaysClean
      <3>. QED BY <2>1, <3>1, <3>3 DEF Clean
    <2>. QED BY <1>1, <1>2, <1>3, <2>1, <2>4, <2>5, HistoryClean DEF CleanOK
  <1>6. CASE Uninstall \/ Reinstall \/ ClosePull \/ Tick
    <2>1. UNCHANGED <<clients, over, hook, handled>>
      BY <1>6 DEF Uninstall, Reinstall, ClosePull, Tick, webhook
    <2>. QED BY <1>1, <1>2, <1>3, <2>1, TableClean, HistoryClean DEF CleanOK
  <1>. QED BY <1>4, <1>5, <1>6

-----------------------------------------------------------------------------
(* What open_pr answers.                                                   *)

\* Pull requests are never taken back: what another request knows stays true.
LEMMA OpenStays ==
  ASSUME Shape, NEW y \in Threads, OpenOK(y), th'[y] = th[y],
         author' = author \/ \E x \in Threads : author' = Append(author, x)
  PROVE  OpenOK(y)'
  <1>1. /\ Len(author) <= Len(author')
        /\ \A n \in 1..Len(author) : n \in 1..Len(author') /\ author'[n] = author[n]
    BY DEF Shape, PullsOK
  <1>. QED BY <1>1 DEF OpenOK

\* The steps of a request that call GitHub for nothing but a token.
LEMMA TokenStepOpen ==
  ASSUME Shape, NEW x \in Threads, OpenOK(x),
         \/ \E op \in Ops, inScope \in BOOLEAN : Resolve(x, op, inScope)
         \/ MakeClient(x) \/ GetToken(x) \/ MintToken(x) \/ StoreToken(x)
         \/ ForceEvict(x) \/ Finish(x)
  PROVE  OpenOK(x)'
  <1>1. CASE \E op \in Ops, inScope \in BOOLEAN : Resolve(x, op, inScope)
    <2>1. PICK t \in ThreadType :
            /\ Set(x, t) /\ t.pc \in {"make", "lock", "done"} /\ t.step = 1 /\ t.seen = 0
            /\ t.pc = "done" => t.out = "permission-denied"
      BY <1>1, Begun
    <2>2. th'[x] = t
      BY <2>1, Replaced
    <2>. QED BY <2>1, <2>2 DEF OpenOK
  <1>2. CASE MakeClient(x) \/ GetToken(x)
    <2>1. PICK t \in ThreadType :
            /\ Set(x, t) /\ t.pc \in {"lock", "send", "mint"} /\ t.op = th[x].op
            /\ t.step = th[x].step /\ t.seen = th[x].seen
      BY <1>2, Made, TokenAsked
    <2>2. th'[x] = t /\ th[x].pc \in {"make", "lock"}
      BY <1>2, <2>1, Replaced DEF MakeClient, GetToken
    <2>. QED BY <2>1, <2>2 DEF OpenOK
  <1>3. CASE MintToken(x)
    <2>1. PICK t \in ThreadType :
            /\ Set(x, t) /\ t.pc = "store" /\ t.op = th[x].op
            /\ t.step = th[x].step /\ t.seen = th[x].seen
            /\ t.token \in Tokens' \/ t.out \notin {"ok", "empty"}
            /\ t.token \notin Tokens
      BY <1>3, Minted, Places
    <2>2. th'[x] = t /\ th[x].pc = "mint"
      BY <1>3, <2>1, Replaced DEF MintToken
    <2>3. 0 \notin Tokens'
      BY <1>3, Minted, FS_CardinalityType
    <2>. QED BY <2>1, <2>2, <2>3 DEF OpenOK
  <1>4. CASE StoreToken(x)
    <2>1. PICK t \in ThreadType :
            /\ Set(x, t) /\ t.op = th[x].op /\ t.step = th[x].step /\ t.seen = th[x].seen
            /\ \/ t.pc = "send"
               \/ t.pc = "done" /\ th[x].token = 0 /\ t.out = th[x].out
      BY <1>4, Stored
    <2>2. th'[x] = t /\ th[x].pc = "store"
      BY <1>4, <2>1, Replaced DEF StoreToken
    <2>. QED BY <2>1, <2>2 DEF OpenOK
  <1>5. CASE ForceEvict(x)
    <2> DEFINE t == Answer(th[x], "permission-denied")
    <2>1. /\ t \in ThreadType /\ t.pc = "done" /\ t.out = "permission-denied"
          /\ t.seen = th[x].seen /\ t.op = th[x].op
      BY Answered, ThreadFacts DEF Answers
    <2>2. Set(x, t) /\ th[x].pc = "evict"
      BY <1>5 DEF ForceEvict
    <2> HIDE DEF t
    <2>3. th'[x] = t
      BY <2>1, <2>2, Replaced
    <2>. QED BY <2>1, <2>2, <2>3 DEF OpenOK
  <1>6. CASE Finish(x)
    <2>1. th'[x] = Idle
      BY <1>6, IdleType, Replaced DEF Finish
    <2>. QED BY <2>1, IdleType DEF OpenOK
  <1>. QED BY <1>1, <1>2, <1>3, <1>4, <1>5, <1>6

\* The calls of open_pr, in their order.
LEMMA OpenPrCalls ==
  ASSUME NEW x \in Threads, th[x].op = "open_pr", th[x].step \in {1, 2}
  PROVE  /\ Call(x) = IF th[x].step = 1 THEN "list_pulls" ELSE "create_pull"
         /\ LastCall(x) <=> th[x].step = 2
  <1>1. Calls("open_pr") = <<"list_pulls", "create_pull">>
    BY DEF Calls, OpenPr
  <1>2. Calls(th[x].op) = <<"list_pulls", "create_pull">>
    BY <1>1
  <1>3. CASE th[x].step = 1
    BY <1>2, <1>3 DEF Call, LastCall
  <1>4. CASE th[x].step = 2
    BY <1>2, <1>4 DEF Call, LastCall
  <1>. QED BY <1>3, <1>4

\* The calls of open_pr themselves: a lost answer is the one way not to hear of a
\* pull request this request opened, and it is retryable.
LEMMA ServeOpen ==
  ASSUME Shape, NEW x \in Threads, OpenOK(x), Serve(x)
  PROVE  OpenOK(x)'
  <1>1. PICK t \in ThreadType, reply \in Replies :
          \E u \in Received(x, t, reply) :
            /\ Set(x, u) /\ t.op = th[x].op /\ t.step = th[x].step
            /\ \/ /\ Call(x) = "create_pull" /\ reply \in {"ok", "unreachable"}
                  /\ author' = Append(author, x) /\ pull' = Len(author')
                  /\ t.seen = pull'
               \/ /\ ~(Call(x) = "create_pull" /\ reply = "ok")
                  /\ UNCHANGED <<author, pull>>
                  /\ t.seen = IF Call(x) = "list_pulls" /\ reply = "ok"
                              THEN pull ELSE th[x].seen
    BY Served
  <1>2. PICK u \in Received(x, t, reply) : Set(x, u)
    BY <1>1
  <1>3. /\ u \in ThreadType /\ u.op = t.op /\ u.seen = t.seen
        /\ \/ reply = "refused" /\ u.pc = "evict" /\ u.step = t.step
           \/ /\ reply \notin {"ok", "refused"} /\ u.pc = "done"
              /\ u.out = MapHttpError(reply) /\ u.step = t.step
           \/ /\ reply = "ok" /\ u.pc = "done" /\ u.step = t.step
              /\ \/ Call(x) = "list_pulls" /\ t.seen # 0 /\ u.out = "empty"
                 \/ LastCall(x) /\ (t.op = "open_pr" => u.out = "ok")
           \/ /\ reply = "ok" /\ u.pc = "lock" /\ u.step = t.step + 1 /\ ~LastCall(x)
              /\ ~(Call(x) = "list_pulls" /\ t.seen # 0)
    BY <1>2, ReceivedIs
  <1>4. th'[x] = u
    BY <1>2, <1>3, Replaced
  <1> SUFFICES ASSUME th[x].op = "open_pr" PROVE OpenOK(x)'
    BY <1>1, <1>3, <1>4 DEF OpenOK
  <1>5. th[x].seen = 0 /\ th[x].step \in {1, 2}
    BY DEF OpenOK, Serve
  <1>6. /\ Call(x) = IF th[x].step = 1 THEN "list_pulls" ELSE "create_pull"
        /\ LastCall(x) <=> th[x].step = 2
    BY <1>5, OpenPrCalls
  <1>7. author \in Seq(Threads) /\ pull \in 0..Len(author)
    BY DEF Shape, PullsOK
  <1>8. CASE reply = "refused"
    <2>1. u.pc = "evict" /\ u.step = th[x].step /\ u.seen = 0
      BY <1>1, <1>3, <1>5, <1>8
    <2>. QED BY <1>4, <1>5, <2>1 DEF OpenOK
  <1>9. CASE reply \notin {"ok", "refused"}
    <2>1. u.pc = "done" /\ u.out = MapHttpError(reply) /\ u.out \notin {"ok", "empty"}
      BY <1>3, <1>9 DEF MapHttpError, Replies
    <2>2. IsRetryable(u.out) \/ u.seen = 0
      BY <1>1, <1>3, <1>5, <1>9, <2>1 DEF IsRetryable, MapHttpError
    <2>. QED BY <1>4, <2>1, <2>2 DEF OpenOK
  <1>10. CASE reply = "ok" /\ th[x].step = 1
    <2>1. t.seen = pull /\ UNCHANGED author /\ u.seen = pull
      BY <1>1, <1>3, <1>6, <1>10
    <2>2. \/ u.pc = "done" /\ u.step = 1 /\ u.out = "empty" /\ pull # 0
          \/ u.pc = "lock" /\ u.step = 2 /\ pull = 0
      BY <1>1, <1>3, <1>6, <1>10, <2>1
    <2>. QED BY <1>4, <1>7, <2>1, <2>2 DEF OpenOK
  <1>11. CASE reply = "ok" /\ th[x].step = 2
    <2>1. author' = Append(author, x) /\ u.seen = Len(author')
      BY <1>1, <1>3, <1>6, <1>11
    <2>2. u.pc = "done" /\ u.out = "ok"
      BY <1>1, <1>3, <1>6, <1>11
    <2>3. u.seen \in 1..Len(author') /\ author'[u.seen] = x
      BY <1>7, <2>1
    <2>. QED BY <1>4, <2>2, <2>3 DEF OpenOK
  <1>. QED BY <1>5, <1>8, <1>9, <1>10, <1>11

-----------------------------------------------------------------------------
(* The induction.                                                          *)

\* The initial state.
LEMMA InitIInv == Init => IInv
  <1> SUFFICES ASSUME Init PROVE IInv
    OBVIOUS
  <1>1. Tokens = {} /\ Making = {}
    BY IdleType DEF Init, Tokens, Making
  <1>2. IsFiniteSet({}) /\ Cardinality({}) = 0
    BY FS_EmptySet
  <1>3. TableOK /\ CacheOK /\ PullsOK
    BY <1>1, <1>2, SourceControlAssumption DEF Init, TableOK, CacheOK, PullsOK
  <1>4. TokensOK
    BY <1>1, <1>2 DEF Init, TokensOK, NoHook
  <1>5. th \in [Threads -> ThreadType] /\ \A x \in Threads : th[x] = Idle
    BY IdleType DEF Init
  <1>6. \A x \in Threads : ThreadOK(x) /\ OpenOK(x)
    BY <1>1, <1>5, IdleType DEF ThreadOK, OpenOK, Init
  <1>7. CleanOK
    BY <1>5, IdleType DEF Init, CleanOK
  <1>. QED BY <1>3, <1>4, <1>5, <1>6, <1>7 DEF IInv, Shape

\* Every step of a thread, of the webhook, of GitHub and of the clock.
LEMMA NextIInv ==
  ASSUME IInv, [Next]_vars
  PROVE  IInv'
  <1>1. Shape /\ CleanOK /\ \A x \in Threads : OpenOK(x)
    BY DEF IInv
  <1>2. CASE \E x \in Threads :
               Step(x) \/ \E op \in Ops, inScope \in BOOLEAN : Resolve(x, op, inScope)
    <2>1. PICK x \in Threads :
            Step(x) \/ \E op \in Ops, inScope \in BOOLEAN : Resolve(x, op, inScope)
      BY <1>2
    <2>2. Shape'
      BY <1>1, <2>1, ResolveShape, MakeClientShape, GetTokenShape, MintTokenShape,
         StoreTokenShape, ServeShape, ForceEvictShape, FinishShape DEF Step
    <2>3. CleanOK'
      BY <1>1, <2>1, RequestClean, MakeClientClean, ForceEvictClean DEF Step
    <2>4. OpenOK(x)'
      BY <1>1, <2>1, TokenStepOpen, ServeOpen DEF Step
    <2>5. author' = author \/ author' = Append(author, x)
      BY <2>1 DEF Step, Resolve, MakeClient, GetToken, MintToken, StoreToken, Serve,
         ForceEvict, Finish, github
    <2>6. \A y \in Threads \ {x} : th'[y] = th[y]
      <3>1. \E t : th' = [th EXCEPT ![x] = t]
        BY <2>1 DEF Step, Resolve, MakeClient, GetToken, MintToken, StoreToken, Serve,
           ForceEvict, Finish, Set
      <3>. QED BY <1>1, <3>1 DEF Shape
    <2>7. \A y \in Threads : OpenOK(y)'
      BY <1>1, <2>4, <2>5, <2>6, OpenStays
    <2>. QED BY <2>2, <2>3, <2>7 DEF IInv
  <1>3. CASE (\E e \in events : WebhookPop(e)) \/ WebhookEvict \/ Uninstall \/ Reinstall
               \/ ClosePull \/ Tick
    <2>1. Shape'
      BY <1>1, <1>3, WebhookPopShape, WebhookEvictShape, OutsideShape
    <2>2. CleanOK'
      BY <1>1, <1>3, ElsewhereClean
    <2>3. th' = th /\ author' = author
      BY <1>3 DEF WebhookPop, WebhookEvict, Uninstall, Reinstall, ClosePull, Tick, github
    <2>4. \A y \in Threads : OpenOK(y)'
      BY <1>1, <2>3, OpenStays
    <2>. QED BY <2>1, <2>2, <2>4 DEF IInv
  <1>4. CASE UNCHANGED vars
    <2>1. Tokens' = Tokens /\ Making' = Making /\ Clients' = Clients
      BY <1>4 DEF vars, Tokens, Making, Clients
    <2>2. TableOK' /\ CacheOK' /\ TokensOK' /\ PullsOK'
      BY <1>1, <1>4, <2>1 DEF vars, Shape, TableOK, CacheOK, TokensOK, PullsOK
    <2>3. Shape'
      BY <1>1, <1>4, <2>2, ElsewhereStep DEF vars
    <2>4. TokensMove /\ UNCHANGED <<clients, over, hook>> /\ th' = th /\ handled' = handled
          /\ dropped' = dropped /\ author' = author
      BY <1>4 DEF vars, TokensMove
    <2>5. \A y \in Threads : /\ th'[y].token \notin th'[y].since
                             /\ th'[y].client # 0 => Clean(th[y].client, th[y].since)'
      BY <1>1, <2>4, OthersClean
    <2>6. CleanOK'
      BY <1>1, <2>4, <2>5, TableClean, HistoryClean DEF CleanOK
    <2>7. \A y \in Threads : OpenOK(y)'
      BY <1>1, <2>4, OpenStays
    <2>. QED BY <2>3, <2>6, <2>7 DEF IInv
  <1>5. \A x \in Threads : Asked[x] \subseteq Ops
    BY SourceControlAssumption DEF Ops
  <1>. QED BY <1>2, <1>3, <1>4, <1>5 DEF Next

\* The inductive invariant holds in every reachable state.
LEMMA Inductive == Spec => []IInv
  <1>1. Init => IInv
    BY InitIInv
  <1>2. IInv /\ [Next]_vars => IInv'
    BY NextIInv
  <1>. QED BY <1>1, <1>2, PTL DEF Spec

\* Every variable has its type: in particular the caches have a place for every
\* client, however many requests raced to make one (_client_for).
THEOREM SourceControlTypes == Spec => []TypeOK
  <1>1. ASSUME IInv PROVE TypeOK
    <2>1. Shape
      BY <1>1 DEF IInv
    <2>2. made \in 0..MaxRequests
      <3>1. Cardinality(Making) \in Nat
        BY <2>1, FS_CardinalityType DEF Shape, TableOK
      <3>. QED BY <2>1, <3>1, SourceControlAssumption DEF Shape, TableOK
    <2>3. \A x \in Threads : th[x].token \in {0} \cup Tokens
      BY <2>1 DEF Shape, ThreadOK
    <2>. QED BY <2>1, <2>2, <2>3 DEF TypeOK, Shape, TableOK, CacheOK, TokensOK, PullsOK
  <1>2. IInv => TypeOK
    BY <1>1
  <1>. QED BY <1>2, Inductive, PTL

\* Once an uninstallation's webhook has been handled none of its tokens is used
\* again, and a client that saw a token refused never hands it out again
\* (handle_installation_webhook, force_evict, get_token): for any number of
\* threads, with fetches under way and without a lock on the table of clients.
THEOREM RevokedStayOut == Spec => []RevokedTokensStayOut
  <1>1. IInv => RevokedTokensStayOut
    BY DEF IInv, CleanOK, Clean, RevokedTokensStayOut
  <1>. QED BY <1>1, Inductive, PTL

\* open_pr answers "ok" only to the request that opened the pull request, and
\* hides an opened one only behind a retryable error (open_pr, _send): for any
\* number of requests that race for the branch.
THEOREM OpenPrExact == Spec => []OpenPrAnswersExact
  <1>1. IInv => OpenPrAnswersExact
    BY DEF IInv, OpenOK, OpenPrAnswersExact
  <1>. QED BY <1>1, Inductive, PTL
=============================================================================
