---------------------------- MODULE SourceControl ----------------------------
(***************************************************************************)
(* The source-control service: requests of one tenant that end in calls of *)
(* the GitHub REST API under an installation token.  Several threads share *)
(* the table of clients (service.py, no lock) and each client's token      *)
(* cache (app_auth.py, one lock, held while a token is fetched).           *)
(*                                                                         *)
(* GitHub is external: it mints tokens while the installation exists,      *)
(* answers a call or loses its answer, opens at most one pull request per  *)
(* branch, and tells of an uninstallation by a signed webhook.             *)
(***************************************************************************)
EXTENDS Naturals, FiniteSets, Sequences

CONSTANTS
  Threads,        \* the threads that serve requests
  Asked,          \* Asked[x]: the REST-backed operations thread x is asked for
  Life,           \* the lifetime of an installation token, in ticks
  Margin,         \* _TOKEN_REFRESH_MARGIN_SECONDS, in ticks
  MaxTime,        \* bound: ticks of the clock
  MaxRequests,    \* bound: requests in a behaviour
  MaxTokens,      \* bound: tokens GitHub mints
  MaxPulls,       \* bound: pull requests opened
  MaxUninstalls   \* bound: uninstallations

ASSUME SourceControlAssumption ==
  /\ Life \in Nat /\ Margin \in Nat /\ Margin < Life
  /\ MaxRequests \in Nat
  /\ "free" \notin Threads
  /\ Asked \in [Threads -> SUBSET {"open_pr", "get_pr_check_status",
                                  "get_file_contents", "list_files"}]

VARIABLES
  clients,    \* _clients[installation]: a client, or 0
  made,       \* clients constructed so far
  cache,      \* cache[c]: the token in client c's token_cache, or 0
  lock,       \* lock[c]: the thread in client c's cache lock, or "free"
  th,         \* th[x]: the request thread x serves
  requests,   \* requests taken so far
  now,        \* time.time()
  expires,    \* expires[k]: expires_at of token k, for the tokens minted
  live,       \* GitHub: the tokens it still honours
  installed,  \* GitHub: the App is installed
  uninstalls, \* GitHub: uninstallations so far
  pull,       \* GitHub: the open pull request of the branch, or 0
  author,     \* author[n]: the thread whose call opened pull request n
  events,     \* webhook events on the way: their action and the tokens ended
  hook,       \* the event being handled and the client taken from the table
  over,       \* the tokens of uninstallations whose webhook was handled
  handled,    \* the uninstallations handled, each with the client it evicted
  dropped     \* <<c, k>>: client c saw token k refused and evicted it

vars == <<clients, made, cache, lock, th, requests, now, expires, live,
          installed, uninstalls, pull, author, events, hook, over, handled, dropped>>
github == <<expires, live, installed, uninstalls, pull, author>>
webhook == <<events, hook, over, handled>>

Clients == 1..MaxRequests
Tokens == DOMAIN expires
Idle == [pc |-> "idle", op |-> "none", step |-> 0, client |-> 0, asked |-> 0,
         token |-> 0, seen |-> 0, out |-> "none", since |-> {}]

(***************************************************************************)
(* What the operations do with GitHub's answers.                           *)
(***************************************************************************)

\* The calls of each operation, in order.
OpenPr == <<"list_pulls", "create_pull">>
GetPrCheckStatus == <<"get_pull", "list_check_runs_for_ref">>
GetFileContents == <<"get_contents">>
ListFiles == <<"get_ref", "get_tree">>

Calls(op) ==
  CASE op = "open_pr" -> OpenPr
    [] op = "get_pr_check_status" -> GetPrCheckStatus
    [] op = "get_file_contents" -> GetFileContents
    [] op = "list_files" -> ListFiles

Call(x) == Calls(th[x].op)[th[x].step]
LastCall(x) == th[x].step = Len(Calls(th[x].op))

\* The answers _send may see, and the error each one but "ok" is mapped to.
Replies == {"ok", "not_found", "limited", "refused", "failed", "unreachable"}

\* Variant: a lost answer mapped to a final error.
MapHttpErrorFinal(reply) ==
  IF reply = "unreachable" THEN "not-found"
  ELSE CASE reply = "not_found" -> "not-found"
         [] reply = "limited" -> "rate-limited"
         [] reply = "refused" -> "permission-denied"
         [] reply = "failed" -> "upstream-unavailable"

MapHttpError(reply) ==
  CASE reply = "not_found" -> "not-found"
    [] reply = "limited" -> "rate-limited"
    [] reply = "refused" -> "permission-denied"
    [] reply \in {"failed", "unreachable"} -> "upstream-unavailable"

IsRetryable(out) == out \in {"rate-limited", "upstream-unavailable"}

Answers == {"ok", "empty", "not-found", "rate-limited", "permission-denied",
            "upstream-unavailable"}

Set(x, t) == th' = [th EXCEPT ![x] = t]
Answer(t, out) ==
  [t EXCEPT !.pc = "done", !.out = out, !.client = 0, !.asked = 0,
            !.token = 0]

(***************************************************************************)
(* A request, step by step.                                                *)
(***************************************************************************)

\* get_token reads the clock before it waits for the lock.
AskToken(t) == [t EXCEPT !.pc = "lock", !.asked = now]

\* _client_for: the table is read here and written by MakeClient, no lock.
ClientFor(t) ==
  IF clients = 0 THEN [t EXCEPT !.pc = "make"]
  ELSE AskToken([t EXCEPT !.client = clients])

\* A request arrives.  InstallationRegistry.resolve: an unknown tenant or a
\* repository outside the tenant's scope is refused before any client is
\* looked up.
Resolve(x, op, inScope) ==
  /\ th[x].pc = "idle" /\ requests < MaxRequests
  /\ requests' = requests + 1
  /\ LET t == [Idle EXCEPT !.op = op, !.step = 1, !.since = over] IN
     Set(x, IF inScope THEN ClientFor(t)
            ELSE [t EXCEPT !.pc = "done", !.out = "permission-denied"])
  /\ UNCHANGED <<clients, made, cache, lock, now, github, webhook, dropped>>

MakeClient(x) ==
  /\ th[x].pc = "make"
  /\ made' = made + 1 /\ clients' = made'
  /\ Set(x, AskToken([th[x] EXCEPT !.client = made']))
  /\ UNCHANGED <<cache, lock, requests, now, github, webhook, dropped>>

Fresh(x) ==
  LET k == cache[th[x].client] IN k # 0 /\ th[x].asked + Margin < expires[k]

\* get_token in the lock: the cached token, or on to fetch one.
GetToken(x) ==
  LET c == th[x].client IN
  /\ th[x].pc = "lock" /\ lock[c] = "free"
  /\ IF Fresh(x)
       THEN /\ Set(x, [th[x] EXCEPT !.pc = "send", !.asked = 0, !.token = cache[c]])
            /\ UNCHANGED lock
       ELSE /\ Set(x, [th[x] EXCEPT !.pc = "mint"])
            /\ lock' = [lock EXCEPT ![c] = x]
  /\ UNCHANGED <<clients, made, cache, requests, now, github, webhook, dropped>>

\* create_installation_token at GitHub: a token, or a refusal.
MintToken(x) ==
  /\ th[x].pc = "mint"
  /\ \/ /\ installed /\ Cardinality(Tokens) < MaxTokens
        /\ LET k == Cardinality(Tokens) + 1 IN
           /\ expires' = [j \in Tokens \cup {k} |->
                            IF j = k THEN now + Life ELSE expires[j]]
           /\ live' = live \cup {k}
           /\ Set(x, [th[x] EXCEPT !.pc = "store", !.token = k])
     \/ /\ \E reply \in Replies \ {"ok"} :
             /\ installed => reply \in {"failed", "limited", "unreachable"}
             /\ Set(x, [th[x] EXCEPT !.pc = "store", !.token = 0,
                                    !.out = MapHttpError(reply)])
        /\ UNCHANGED <<expires, live>>
  /\ UNCHANGED <<clients, made, cache, lock, requests, now, installed,
                 uninstalls, pull, author, webhook, dropped>>

\* Variant: get_token that leaves the lock only when it has a token.
StoreTokenKeepsLock(x) ==
  LET c == th[x].client IN
  /\ th[x].pc = "store"
  /\ lock' = [lock EXCEPT ![c] = IF th[x].token # 0 THEN "free" ELSE x]
  /\ IF th[x].token # 0
       THEN /\ cache' = [cache EXCEPT ![c] = th[x].token]
            /\ Set(x, [th[x] EXCEPT !.pc = "send", !.asked = 0])
       ELSE /\ Set(x, Answer(th[x], th[x].out))
            /\ UNCHANGED cache
  /\ UNCHANGED <<clients, made, requests, now, github, webhook, dropped>>

\* get_token with the fetched token, or leaving the lock by the exception:
\* a token that was cached before stays cached then.
StoreToken(x) ==
  LET c == th[x].client IN
  /\ th[x].pc = "store"
  /\ lock' = [lock EXCEPT ![c] = "free"]
  /\ IF th[x].token # 0
       THEN /\ cache' = [cache EXCEPT ![c] = th[x].token]
            /\ Set(x, [th[x] EXCEPT !.pc = "send", !.asked = 0])
       ELSE /\ Set(x, Answer(th[x], th[x].out))
            /\ UNCHANGED cache
  /\ UNCHANGED <<clients, made, requests, now, github, webhook, dropped>>

\* GitHub serves the call of token k: a dead token is refused; a branch has
\* one open pull request at most; the answer may be lost after the effect.
Honoured(k) == k \in live /\ now < expires[k]

\* What the thread does with the answer, the rest of _authed_request and of
\* the operation: an error is mapped and raised, a refused token is evicted
\* first; a successful call is followed by the operation's next one or by its
\* answer, which may be "empty" for the operations that read (and not-found
\* for a path that is a directory).
Received(x, t, reply) ==
  CASE reply = "refused" -> {[t EXCEPT !.pc = "evict"]}
    [] reply \notin {"ok", "refused"} -> {Answer(t, MapHttpError(reply))}
    [] reply = "ok" /\ Call(x) = "list_pulls" /\ t.seen # 0 ->
         {Answer(t, "empty")}
    [] reply = "ok" /\ ~LastCall(x) /\ ~(Call(x) = "list_pulls" /\ t.seen # 0) ->
         {AskToken([t EXCEPT !.step = @ + 1, !.token = 0])}
    [] OTHER ->
         {Answer(t, out) : out \in CASE t.op = "open_pr" -> {"ok"}
                                    [] t.op = "get_file_contents" ->
                                         {"ok", "empty", "not-found"}
                                    [] OTHER -> {"ok", "empty"}}

Serve(x) ==
  /\ th[x].pc = "send"
  /\ \E reply \in Replies :
      /\ reply = "ok" => Honoured(th[x].token)
      /\ \/ /\ Call(x) = "create_pull" /\ Honoured(th[x].token) /\ pull = 0
            /\ reply \in {"ok", "unreachable"} /\ Len(author) < MaxPulls
            /\ author' = Append(author, x) /\ pull' = Len(author')
            /\ \E t \in Received(x, [th[x] EXCEPT !.seen = pull'], reply) : Set(x, t)
         \/ /\ ~(Call(x) = "create_pull" /\ reply = "ok")
            /\ LET found == IF Call(x) = "list_pulls" /\ reply = "ok"
                            THEN pull ELSE th[x].seen IN
               \E t \in Received(x, [th[x] EXCEPT !.seen = found], reply) : Set(x, t)
            /\ UNCHANGED <<author, pull>>
  /\ UNCHANGED <<clients, made, cache, lock, requests, now, expires, live,
                 installed, uninstalls, webhook, dropped>>

\* Variant: force_evict that does not wait for the lock.
LockFreeIgnored(c) == lock[c] \in Threads \cup {"free"}

\* force_evict waits for the cache's lock.
LockFree(c) == lock[c] = "free"

ForceEvict(x) ==
  LET c == th[x].client IN
  /\ th[x].pc = "evict" /\ LockFree(c)
  /\ cache' = [cache EXCEPT ![c] = 0]
  /\ dropped' = dropped \cup {<<c, th[x].token>>}
  /\ Set(x, Answer(th[x], "permission-denied"))
  /\ UNCHANGED <<clients, made, lock, requests, now, github, webhook>>

\* The answer is delivered; the thread is free for another request.
Finish(x) ==
  /\ th[x].pc = "done"
  /\ Set(x, Idle)
  /\ UNCHANGED <<clients, made, cache, lock, requests, now, github, webhook,
                 dropped>>

(***************************************************************************)
(* The webhook, GitHub's own steps and the clock.                          *)
(***************************************************************************)

\* is_installation_revocation_event, of an event whose signature was verified.
IsInstallationRevocationEvent(e) == e.action \in {"deleted", "suspend"}

NoHook == [client |-> 0, tokens |-> {}]

\* handle_installation_webhook: the client leaves the table, then its token
\* is evicted; any other event is ignored.
WebhookPop(e) ==
  /\ e \in events /\ hook = NoHook
  /\ events' = events \ {e}
  /\ IF ~IsInstallationRevocationEvent(e)
       THEN UNCHANGED <<clients, hook, over>>
     ELSE IF clients = 0
       THEN /\ over' = over \cup e.tokens
            /\ UNCHANGED <<clients, hook>>
       ELSE /\ hook' = [client |-> clients, tokens |-> e.tokens]
            /\ clients' = 0
            /\ UNCHANGED over
  /\ UNCHANGED <<made, cache, lock, th, requests, now, github, handled, dropped>>

WebhookEvict ==
  /\ hook # NoHook /\ LockFree(hook.client)
  /\ cache' = [cache EXCEPT ![hook.client] = 0]
  /\ over' = over \cup hook.tokens
  /\ handled' = handled \cup {hook} /\ hook' = NoHook
  /\ UNCHANGED <<clients, made, lock, th, requests, now, github, events,
                 dropped>>

\* GitHub ends or suspends the installation, or brings it back; the webhook
\* is on the way, and may overtake another one.
Uninstall ==
  /\ installed /\ uninstalls < MaxUninstalls
  /\ uninstalls' = uninstalls + 1
  /\ installed' = FALSE /\ live' = {}
  /\ events' = events \cup {[action |-> "deleted", tokens |-> Tokens]}
  /\ UNCHANGED <<clients, made, cache, lock, th, requests, now, expires, pull,
                 author, hook, over, handled, dropped>>

Reinstall ==
  /\ ~installed
  /\ installed' = TRUE
  /\ events' = events \cup {[action |-> "created", tokens |-> {}]}
  /\ UNCHANGED <<clients, made, cache, lock, th, requests, now, expires, live,
                 uninstalls, pull, author, hook, over, handled, dropped>>

\* A person merges or closes the pull request.
ClosePull ==
  /\ pull # 0
  /\ pull' = 0
  /\ UNCHANGED <<clients, made, cache, lock, th, requests, now, expires, live,
                 installed, uninstalls, author, webhook, dropped>>

Tick ==
  /\ now < MaxTime
  /\ now' = now + 1
  /\ UNCHANGED <<clients, made, cache, lock, th, requests, github, webhook,
                 dropped>>

(***************************************************************************)
(* The specification.                                                      *)
(***************************************************************************)
Init ==
  /\ clients = 0 /\ made = 0
  /\ cache = [c \in Clients |-> 0] /\ lock = [c \in Clients |-> "free"]
  /\ th = [x \in Threads |-> Idle] /\ requests = 0 /\ now = 0
  /\ expires = <<>> /\ live = {} /\ installed = TRUE /\ uninstalls = 0
  /\ pull = 0 /\ author = <<>>
  /\ events = {} /\ hook = NoHook /\ over = {} /\ handled = {} /\ dropped = {}

\* The steps of a thread that serves a request.
Step(x) ==
  \/ MakeClient(x) \/ GetToken(x) \/ MintToken(x) \/ StoreToken(x)
  \/ Serve(x) \/ ForceEvict(x) \/ Finish(x)

Next ==
  \/ \E x \in Threads, inScope \in BOOLEAN :
        \E op \in Asked[x] : Resolve(x, op, inScope)
  \/ \E x \in Threads : Step(x)
  \/ \E e \in events : WebhookPop(e)
  \/ WebhookEvict \/ Uninstall \/ Reinstall \/ ClosePull \/ Tick

\* A thread in a request is scheduled, and GitHub answers or the call times
\* out: _send has a timeout.
Spec == Init /\ [][Next]_vars /\ \A x \in Threads : WF_vars(Step(x))

(***************************************************************************)
(* Properties.                                                             *)
(***************************************************************************)
TypeOK ==
  /\ clients \in 0..made /\ made \in 0..MaxRequests
  /\ cache \in [Clients -> {0} \cup Tokens]
  /\ lock \in [Clients -> Threads \cup {"free"}]
  /\ \A x \in Threads : th[x].token \in {0} \cup Tokens
  /\ live \subseteq Tokens /\ over \subseteq Tokens
  /\ pull \in 0..Len(author)

\* service.py:handle_installation_webhook, github_client.py:_authed_request
\* and app_auth.py:force_evict together.  Once the webhook of an
\* uninstallation has been handled, neither the client in the table nor the one
\* the webhook took out of it keeps a token the uninstallation ended, even if
\* a fetch was under way; a request that starts later is never given one;
\* and a client that saw a token refused never hands it out again.
RevokedTokensStayOut ==
  /\ clients # 0 => cache[clients] \notin over
  /\ \A h \in handled : cache[h.client] \notin h.tokens
  /\ \A x \in Threads : th[x].token \notin th[x].since
  /\ \A d \in dropped : cache[d[1]] # d[2]

\* service.py:open_pr.  "ok" names a pull request this very request opened,
\* also when two requests saw no pull request and both asked for one;
\* "empty" names one that was opened before; an error that is not retryable
\* means that the request opened nothing, so only a retryable answer can
\* hide a pull request whose creation was not heard of.
OpenPrAnswersExact ==
  \A x \in Threads :
    LET t == th[x] IN
    t.pc = "done" /\ t.op = "open_pr" =>
      /\ t.out = "ok" => t.seen # 0 /\ author[t.seen] = x
      /\ t.out = "empty" => t.step = 1 /\ t.seen \in 1..Len(author)
      /\ t.out \notin {"ok", "empty"} /\ ~IsRetryable(t.out) => t.seen = 0

\* Every request is answered, whatever GitHub answers to each of its calls:
\* in particular the cache's lock is left when fetching a token fails.
RequestsAnswered ==
  \A x \in Threads : th[x].pc # "idle" ~> th[x].pc = "idle"
=============================================================================
