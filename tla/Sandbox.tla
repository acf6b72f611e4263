------------------------------- MODULE Sandbox -------------------------------
(***************************************************************************)
(* A tool call of a skill or a subagent (skills.py) goes through the chain *)
(* of hooks (hooks.py) to a tool that runs a command in a sandbox: a       *)
(* subprocess under resource limits (sandbox.py) or a container of its own *)
(* (docker_sandbox.py), with an allowlist proxy when egress is granted.    *)
(*                                                                         *)
(* A call is modelled with the command it runs.  The Docker daemon is      *)
(* external: `docker run' is a client that asks it to create a container,  *)
(* then to start it, and waits; a request survives the client that sent it.*)
(***************************************************************************)
EXTENDS Naturals, Sequences, SequencesExt

CONSTANTS
  Calls,        \* the tool calls, each in a thread of its own
  Agents,       \* the names of skills and subagents
  Permitted,    \* Permitted[a]: permitted_tools of agent a
  Registered,   \* ToolInvoker._tools
  Requests,     \* the arguments a call may have
  Hooks,        \* HookChain._hooks, given at construction
  MaxConns,     \* bound: connections a command opens through the proxy
  MaxFailures   \* bound: subprocess launches the operating system refuses

HookNames == {"DestructiveCommandHook", "ScopeBoundaryHook", "SecretRedactionHook"}

\* What a deployment gives; MCAgentServices assumes it.
SandboxAssumption ==
  /\ Requests \subseteq
       [agent : Agents, tool : STRING, command : {"plain", "destructive"},
        path : {"inside", "forbidden"}, egress : BOOLEAN,
        written : BOOLEAN, reviewed : BOOLEAN, docker : BOOLEAN]
  /\ Permitted \in [Agents -> SUBSET STRING]
  /\ Hooks \in Seq(HookNames)
  /\ MaxConns \in Nat /\ MaxFailures \in Nat

VARIABLES
  call,      \* call[c]: the thread of call c
  ran,       \* the calls whose tool function was entered
  hookLog,   \* HookChain.audit_log
  box,       \* box[c]: the process, or the container, of call c; "orphaned"
             \* is a subprocess that is gone while children of it run on
  request,   \* request[c]: the daemon's unserved request for c's container
  proxy,     \* proxy[c]: the AllowlistProxy of call c
  conn,      \* conn[c][k]: the k-th connection of c's command
  decisions, \* decisions[c]: proxy.decisions
  execLog,   \* audit_log of the runtimes
  failures   \* refused launches so far

vars == <<call, ran, hookLog, box, request, proxy, conn, decisions, execLog, failures>>
egress == <<proxy, conn, decisions>>

Conns == 1..MaxConns
NoBox == [st |-> "absent", code |-> "none", oom |-> "no", limit |-> "no"]
NoCall == [pc |-> "idle", req |-> "none", i |-> 1, code |-> "none",
           timedOut |-> "no", limited |-> "no", inspected |-> "no", removed |-> "no",
           answer |-> "none"]
SetCall(c, r) == call' = [call EXCEPT ![c] = r]
SetBox(c, b) == box' = [box EXCEPT ![c] = b]
SetConn(c, k, st) == conn' = [conn EXCEPT ![c][k] = <<st, @[2]>>]

Init ==
  /\ call = [c \in Calls |-> NoCall]
  /\ ran = {} /\ hookLog = {} /\ execLog = {}
  /\ box = [c \in Calls |-> NoBox]
  /\ request = [c \in Calls |-> "none"]
  /\ proxy = [c \in Calls |-> "off"]
  /\ conn = [c \in Calls |-> [k \in Conns |-> <<"none", "none">>]]
  /\ decisions = [c \in Calls |-> {}]
  /\ failures = 0

(***************************************************************************)
(* Tiers.                                                                  *)
(***************************************************************************)

\* required_tier: only reviewed code that this run did not write may share
\* the kernel.
RequiredTier(r) == IF r.written \/ ~r.reviewed THEN "microvm" ELSE "container"

\* The tier a request runs in; a Docker Compose deployment uses its own.
TierOf(r) == IF r.docker THEN "docker_ephemeral_container" ELSE RequiredTier(r)

\* default_runtime_for_tier: three tiers share the subprocess mechanics.
RuntimeOf(tier) ==
  IF tier = "docker_ephemeral_container" THEN "docker" ELSE "subprocess"

Runtime(c) == RuntimeOf(TierOf(call[c].req))

(***************************************************************************)
(* The chain of hooks.                                                     *)
(***************************************************************************)

\* DestructiveCommandHook.pre_tool_use
DestructiveCommandHook(r) == r.command = "destructive"

\* ScopeBoundaryHook.pre_tool_use
ScopeBoundaryHook(r) == r.path = "forbidden"

\* What a hook's pre_tool_use decides; SecretRedactionHook has the default.
Blocks(h, r) ==
  \/ h = "DestructiveCommandHook" /\ DestructiveCommandHook(r)
  \/ h = "ScopeBoundaryHook" /\ ScopeBoundaryHook(r)

\* _redacted_ctx: every redaction hook of the chain is applied to the copy
\* that is recorded.
RedactedCtx == IF "SecretRedactionHook" \in ToSet(Hooks) THEN "yes" ELSE "no"

\* One ToolCallRecord more.
Log(c, blockedBy, error) ==
  hookLog' = hookLog \cup
    {[call |-> c, blockedBy |-> blockedBy, error |-> error, redacted |-> RedactedCtx]}

\* Skill.call_tool and Subagent.call_tool: PermissionError, nothing recorded.
CallTool(c, r) ==
  /\ call[c].pc = "idle"
  /\ SetCall(c, [NoCall EXCEPT !.req = r,
       !.pc = IF r.tool \in Permitted[r.agent] THEN "invoke" ELSE "over",
       !.answer = IF r.tool \in Permitted[r.agent] THEN "none" ELSE "forbidden"])
  /\ UNCHANGED <<ran, hookLog, box, request, egress, execLog, failures>>

\* ToolInvoker.call: KeyError for a tool nobody registered.
Invoke(c) ==
  /\ call[c].pc = "invoke"
  /\ SetCall(c, IF call[c].req.tool \in Registered
                THEN [call[c] EXCEPT !.pc = "pre"]
                ELSE [call[c] EXCEPT !.pc = "over", !.answer = "unknown"])
  /\ UNCHANGED <<ran, hookLog, box, request, egress, execLog, failures>>

\* dispatch, the loop over pre_tool_use: the first hook that blocks ends the
\* call.
PreToolUse(c) ==
  /\ call[c].pc = "pre"
  /\ call[c].i <= Len(Hooks)
  /\ IF Blocks(Hooks[call[c].i], call[c].req)
     THEN /\ Log(c, Hooks[call[c].i], "no")
          /\ SetCall(c, [call[c] EXCEPT !.pc = "over", !.answer = "blocked"])
     ELSE /\ SetCall(c, [call[c] EXCEPT !.i = @ + 1])
          /\ UNCHANGED hookLog
  /\ UNCHANGED <<ran, box, request, egress, execLog, failures>>

\* dispatch, the tool raised: recorded with the error and raised again.
ToolRaised(c) ==
  /\ call[c].pc = "raised"
  /\ Log(c, "none", "yes")
  /\ SetCall(c, [call[c] EXCEPT !.pc = "over", !.answer = "error"])
  /\ UNCHANGED <<ran, box, request, egress, execLog, failures>>

\* dispatch, the tool returned: the post_tool_use loop, the record.
PostToolUse(c) ==
  /\ call[c].pc = "returned"
  /\ Log(c, "none", "no")
  /\ SetCall(c, [call[c] EXCEPT !.pc = "over", !.answer = "ok"])
  /\ UNCHANGED <<ran, box, request, egress, execLog, failures>>

(***************************************************************************)
(* The proxy.                                                              *)
(***************************************************************************)

\* start: bound, listening, and its thread running.
ProxyStarted(c) ==
  IF call[c].req.egress THEN [proxy EXCEPT ![c] = "listening"] ELSE proxy

\* stop: the flag, at most two seconds for the thread, the socket closed.
\* Connections nobody accepted are lost; the handlers of the others go on.
ProxyStopped(c) ==
  IF proxy[c] = "listening" THEN [proxy EXCEPT ![c] = "closed"] ELSE proxy

\* The command, or a process that it started, is there to hear an answer.
Alive(c) == box[c].st \in {"running", "orphaned"}

\* What a connection asks for: a host, or a line that names none.
Targets == {"allowed", "other", "malformed"}

\* The command opens a connection: external.
Connect(c, k, host) ==
  /\ box[c].st = "running" /\ proxy[c] = "listening"
  /\ conn[c][k][1] = "none" /\ \A j \in 1..(k - 1) : conn[c][j][1] # "none"
  /\ conn' = [conn EXCEPT ![c][k] = <<"queued", host>>]
  /\ UNCHANGED <<call, ran, hookLog, box, request, proxy, decisions, execLog, failures>>

\* _serve accepts a connection and starts its handler.
Serve(c, k) ==
  /\ proxy[c] = "listening"
  /\ conn[c][k][1] = "queued"
  /\ SetConn(c, k, "accepted")
  /\ UNCHANGED <<call, ran, hookLog, box, request, proxy, decisions, execLog, failures>>

\* _handle, 400 for a request line without a target, and no decision.
BadRequest(c, k) ==
  /\ conn[c][k][1] = "accepted" /\ conn[c][k][2] = "malformed"
  /\ SetConn(c, k, "bad")
  /\ UNCHANGED <<call, ran, hookLog, box, request, proxy, decisions, execLog, failures>>

\* _handle ends without an answer: the request was not sent in full before the
\* client closed the connection, or within three seconds.
Unheard(c, k) ==
  /\ conn[c][k][1] = "accepted"
  /\ SetConn(c, k, "dropped")
  /\ UNCHANGED <<call, ran, hookLog, box, request, proxy, decisions, execLog, failures>>

\* Variant: the handler answers first.
DecideLater(c, k) ==
  /\ conn[c][k][1] = "accepted" /\ conn[c][k][2] # "malformed"
  /\ SetConn(c, k, IF Alive(c) THEN "answered" ELSE "dropped")
  /\ UNCHANGED <<call, ran, hookLog, box, request, proxy, decisions, execLog, failures>>
\* _handle: the host is in _allowed_hosts, or not.
Verdict(host) == IF host = "allowed" THEN "allow" ELSE "deny"

\* _handle, up to the decision, which is recorded before it is told.
Decide(c, k) ==
  /\ conn[c][k][1] = "accepted" /\ conn[c][k][2] # "malformed"
  /\ SetConn(c, k, "decided")
  /\ decisions' = [decisions EXCEPT ![c] = @ \cup {<<k, Verdict(conn[c][k][2])>>}]
  /\ UNCHANGED <<call, ran, hookLog, box, request, proxy, execLog, failures>>

\* _handle, the answer; it reaches a command that still runs.
Answer(c, k) ==
  /\ conn[c][k][1] = "decided"
  /\ SetConn(c, k, IF Alive(c) THEN "answered" ELSE "dropped")
  /\ UNCHANGED <<call, ran, hookLog, box, request, proxy, decisions, execLog, failures>>

(***************************************************************************)
(* The subprocess runtime.                                                 *)
(***************************************************************************)

\* dispatch enters the tool: execute starts the proxy and the command.
ExecuteSubprocess(c) ==
  /\ call[c].pc = "pre" /\ call[c].i > Len(Hooks) /\ Runtime(c) = "subprocess"
  /\ ran' = ran \cup {c}
  /\ proxy' = ProxyStarted(c)
  /\ SetBox(c, [NoBox EXCEPT !.st = "running"])
  /\ SetCall(c, [call[c] EXCEPT !.pc = "wait"])
  /\ UNCHANGED <<hookLog, request, conn, decisions, execLog, failures>>

\* The operating system refuses the command: finally stops the proxy, and
\* the error escapes before the audit record.
SubprocessRefused(c) ==
  /\ call[c].pc = "pre" /\ call[c].i > Len(Hooks) /\ Runtime(c) = "subprocess"
  /\ failures < MaxFailures
  /\ failures' = failures + 1
  /\ ran' = ran \cup {c}
  /\ proxy' = IF call[c].req.egress THEN [proxy EXCEPT ![c] = "closed"] ELSE proxy
  /\ SetCall(c, [call[c] EXCEPT !.pc = "raised"])
  /\ UNCHANGED <<hookLog, box, request, conn, decisions, execLog>>

\* The audit record of an execution.
Audit(c, code, timedOut, seen) ==
  execLog' = execLog \cup {[call |-> c, tier |-> TierOf(call[c].req), code |-> code,
                            timedOut |-> timedOut, decisions |-> seen]}

\* The command ended: a negative code counts as a limit that fired.
SubprocessEnded(c) ==
  /\ call[c].pc = "wait" /\ Runtime(c) = "subprocess" /\ box[c].st = "exited"
  /\ \E st \in {"absent", "orphaned"} : SetBox(c, [box[c] EXCEPT !.st = st])
  /\ proxy' = ProxyStopped(c)
  /\ Audit(c, box[c].code, "no", {})
  /\ SetCall(c, [call[c] EXCEPT !.pc = "returned", !.code = box[c].code,
                   !.limited = IF box[c].code = "signal" THEN "yes" ELSE "no"])
  /\ UNCHANGED <<ran, hookLog, request, conn, decisions, failures>>

\* TimeoutExpired: subprocess.run has killed the command and waited for it,
\* and for none of the processes it started.
SubprocessTimeout(c) ==
  /\ call[c].pc = "wait" /\ Runtime(c) = "subprocess" /\ box[c].st = "running"
  /\ \E st \in {"absent", "orphaned"} : SetBox(c, [NoBox EXCEPT !.st = st])
  /\ proxy' = ProxyStopped(c)
  /\ Audit(c, "none", "yes", {})
  /\ SetCall(c, [call[c] EXCEPT !.pc = "returned", !.timedOut = "yes"])
  /\ UNCHANGED <<ran, hookLog, request, conn, decisions, failures>>

(***************************************************************************)
(* The daemon and the command: external.                                   *)
(***************************************************************************)

\* A container is created, or refused (no such image); a client that still
\* waits asks for the start, or exits with 125.
DaemonCreate(c, ok) ==
  LET waits == call[c].pc = "wait" IN
  /\ request[c] = "create"
  /\ IF ok THEN SetBox(c, [NoBox EXCEPT !.st = "created"]) ELSE UNCHANGED box
  /\ request' = [request EXCEPT ![c] = IF ok /\ waits THEN "start" ELSE "none"]
  /\ SetCall(c, IF ~ok /\ waits THEN [call[c] EXCEPT !.pc = "inspect", !.code = "refused"]
                ELSE call[c])
  /\ UNCHANGED <<ran, hookLog, egress, execLog, failures>>

\* The container starts, or its command cannot be run (126, 127); one that
\* was removed meanwhile does not start.
DaemonStart(c, ok) ==
  /\ request[c] = "start"
  /\ request' = [request EXCEPT ![c] = "none"]
  /\ IF box[c].st = "created"
     THEN SetBox(c, IF ok THEN [box[c] EXCEPT !.st = "running"]
                    ELSE [box[c] EXCEPT !.st = "exited", !.code = "refused"])
     ELSE UNCHANGED box
  /\ UNCHANGED <<call, ran, hookLog, egress, execLog, failures>>

\* How a command ends: by itself, by a limit's signal, or with a child
\* killed for memory while the first process ends by itself.
CommandEnds(c, code, oom, limit) ==
  /\ box[c].st = "running"
  /\ limit = "yes" => code = "signal"
  /\ oom = "yes" => Runtime(c) = "docker" /\ code \in {"failed", "signal"}
  /\ SetBox(c, [st |-> "exited", code |-> code, oom |-> oom,
                limit |-> IF oom = "yes" THEN "yes" ELSE limit])
  /\ UNCHANGED <<call, ran, hookLog, request, egress, execLog, failures>>

(***************************************************************************)
(* The container runtime.                                                  *)
(***************************************************************************)

\* execute up to `docker run': the proxy, or no network at all.
ExecuteDocker(c) ==
  /\ call[c].pc = "pre" /\ call[c].i > Len(Hooks) /\ Runtime(c) = "docker"
  /\ ran' = ran \cup {c}
  /\ proxy' = ProxyStarted(c)
  /\ request' = [request EXCEPT ![c] = "create"]
  /\ SetCall(c, [call[c] EXCEPT !.pc = "wait"])
  /\ UNCHANGED <<hookLog, box, conn, decisions, execLog, failures>>

\* A docker command that cannot be launched: its error leaves execute there
\* and then, with the proxy, the container and the record as they are.
DockerRefused(c) ==
  /\ \/ call[c].pc = "pre" /\ call[c].i > Len(Hooks) /\ Runtime(c) = "docker"
     \/ call[c].pc \in {"kill", "remove"}
     \/ call[c].pc = "inspect" /\ call[c].code # "none"
  /\ failures < MaxFailures
  /\ failures' = failures + 1
  /\ ran' = ran \cup {c}
  /\ proxy' = IF call[c].pc = "pre" THEN ProxyStarted(c) ELSE proxy
  /\ SetCall(c, [call[c] EXCEPT !.pc = "raised"])
  /\ UNCHANGED <<hookLog, box, request, conn, decisions, execLog>>

\* `docker run' returns the exit code of the container.
DockerEnded(c) ==
  /\ call[c].pc = "wait" /\ Runtime(c) = "docker" /\ box[c].st = "exited"
  /\ SetCall(c, [call[c] EXCEPT !.pc = "inspect", !.code = box[c].code])
  /\ UNCHANGED <<ran, hookLog, box, request, egress, execLog, failures>>

\* TimeoutExpired: only the client is dead, whatever it had asked for.
DockerTimeout(c) ==
  /\ call[c].pc = "wait" /\ Runtime(c) = "docker" /\ box[c].st # "exited"
  /\ SetCall(c, [call[c] EXCEPT !.pc = "kill", !.timedOut = "yes"])
  /\ UNCHANGED <<ran, hookLog, box, request, egress, execLog, failures>>

\* `docker kill', whose exit code is ignored: it fails for a container that
\* does not run, and may fail for one that does.
DockerKill(c, ok) ==
  /\ call[c].pc = "kill"
  /\ IF ok /\ box[c].st = "running"
     THEN SetBox(c, [box[c] EXCEPT !.st = "exited", !.code = "signal"])
     ELSE UNCHANGED box
  /\ SetCall(c, [call[c] EXCEPT !.pc = "inspect"])
  /\ UNCHANGED <<ran, hookLog, request, egress, execLog, failures>>

\* _was_resource_limited: the container is inspected before it is removed; an
\* inspection that fails is one that shows no kill.
WasResourceLimited(c, ok) ==
  call[c].code # "none" /\ ((ok /\ box[c].oom = "yes") \/ call[c].code = "signal")

Inspect(c, ok) ==
  /\ call[c].pc = "inspect"
  /\ SetCall(c, [call[c] EXCEPT !.pc = "remove", !.inspected = IF ok THEN "yes" ELSE "no",
                   !.limited = IF WasResourceLimited(c, ok) THEN "yes" ELSE "no"])
  /\ UNCHANGED <<ran, hookLog, box, request, egress, execLog, failures>>

\* Variant: `docker rm' without -f, which refuses a running container.
BoxRemovedPolitely(c) == IF box[c].st = "running" THEN box[c] ELSE NoBox
\* `docker rm -f'
BoxRemoved(c) == NoBox

\* The removal, whose exit code is ignored: it may fail and leave everything.
RemoveBox(c, ok) ==
  /\ call[c].pc = "remove"
  /\ SetBox(c, IF ok THEN BoxRemoved(c) ELSE box[c])
  /\ SetCall(c, [call[c] EXCEPT !.pc = "conclude", !.removed = IF ok THEN "yes" ELSE "no"])
  /\ UNCHANGED <<ran, hookLog, request, egress, execLog, failures>>

\* The decisions are copied, the proxy stopped and the execution recorded.
Conclude(c) ==
  /\ call[c].pc = "conclude"
  /\ proxy' = ProxyStopped(c)
  /\ Audit(c, call[c].code, call[c].timedOut, decisions[c])
  /\ SetCall(c, [call[c] EXCEPT !.pc = "returned"])
  /\ UNCHANGED <<ran, hookLog, box, request, conn, decisions, failures>>

Progress(c) ==
  \/ Invoke(c) \/ PreToolUse(c) \/ ToolRaised(c) \/ PostToolUse(c)
  \/ ExecuteSubprocess(c) \/ SubprocessEnded(c) \/ SubprocessTimeout(c)
  \/ ExecuteDocker(c) \/ DockerEnded(c) \/ DockerTimeout(c) \/ Conclude(c)
  \/ \E ok \in BOOLEAN : DockerKill(c, ok) \/ Inspect(c, ok) \/ RemoveBox(c, ok)
  \/ SubprocessRefused(c) \/ DockerRefused(c)

Environment(c) ==
  \/ \E ok \in BOOLEAN : DaemonCreate(c, ok) \/ DaemonStart(c, ok)
  \/ \E code \in {"clean", "failed", "signal"}, oom, limit \in {"yes", "no"} :
       CommandEnds(c, code, oom, limit)
  \/ \E k \in Conns : \/ Serve(c, k) \/ Decide(c, k) \/ Answer(c, k)
                      \/ BadRequest(c, k) \/ Unheard(c, k)
                      \/ \E host \in Targets : Connect(c, k, host)

Next ==
  \/ \E c \in Calls : Progress(c) \/ Environment(c) \/ \E r \in Requests : CallTool(c, r)

Fairness == \A c \in Calls : WF_vars(Progress(c))

Spec == Init /\ [][Next]_vars /\ Fairness

(***************************************************************************)
(* Properties.                                                             *)
(***************************************************************************)
TypeOK ==
  /\ \A c \in Calls :
       /\ call[c].pc \in {"idle", "invoke", "pre", "wait", "kill", "inspect", "remove",
                          "conclude", "raised", "returned", "over"}
       /\ box[c].st \in {"absent", "created", "running", "exited", "orphaned"}
       /\ box[c].code \in {"none", "clean", "failed", "signal", "refused"}
       /\ request[c] \in {"none", "create", "start"}
       /\ proxy[c] \in {"off", "listening", "closed"}
       /\ decisions[c] \subseteq Conns \X {"allow", "deny"}
  /\ ran \subseteq Calls /\ failures \in 0..MaxFailures

\* When execute has returned, its proxy takes no connection, though children of
\* the command may run on (sandbox.py:190-194, docker_sandbox.py:336-337); the
\* command itself runs no more: the subprocess is dead, however it ended; the
\* container is, unless `docker rm' failed, which the code does not look at, and
\* one that was being created or started when the time ran out never starts
\* (docker_sandbox.py:303-333).
NothingLeftRunning ==
  \A c \in Calls :
    (/\ call[c].pc \in {"returned", "over"} /\ c \in ran
     /\ call[c].answer # "error" \/ Runtime(c) = "subprocess")
        => /\ proxy[c] # "listening"
           /\ Runtime(c) = "subprocess" \/ call[c].removed = "yes" =>
                /\ box[c].st # "running"
                /\ ~(box[c].st = "created" /\ request[c] = "start")

\* "created immediately before that unit of work and destroyed immediately
\* after" (docker_sandbox.py:8-9), "never leaked" (328): once execute has
\* returned and the daemon has nothing of the call left to do, there is no
\* container.
ContainersDestroyed ==
  \A c \in Calls :
    call[c].answer = "ok" /\ Runtime(c) = "docker" /\ request[c] = "none" =>
      box[c].st = "absent"

\* The result and the audit record tell what happened: one record for every
\* execution that returned, with its code and timeout, and never both limited
\* and timed out (docker_sandbox.py:365-391, sandbox.py:186); and in the record
\* of a container, which unlike the subprocess's has a field for them, every
\* connection its command had a decision on, with the decision it was told
\* (sandbox.py:336-342, docker_sandbox.py:335); a container that `docker rm'
\* failed to remove may get one after the copy.
RecordsTellTheTruth ==
  \A c \in Calls :
    (call[c].pc = "returned" \/ call[c].answer = "ok") =>
      \E e \in execLog :
        /\ \A f \in execLog : f.call = c => f = e
        /\ e.call = c /\ e.code = call[c].code /\ e.timedOut = call[c].timedOut
        /\ ~(call[c].timedOut = "yes" /\ call[c].limited = "yes")
        /\ Runtime(c) = "docker" /\ call[c].removed = "yes" =>
             \A k \in Conns :
               conn[c][k][1] = "answered" =>
                 <<k, Verdict(conn[c][k][2])>> \in e.decisions

\* A command killed by a limit is flagged, if `docker inspect' could be asked or
\* the code tells: a child killed for memory shows in the inspection only.
LimitKillsAreFlagged ==
  \A c \in Calls :
    (/\ call[c].pc = "remove" /\ box[c].limit = "yes" /\ call[c].timedOut = "no"
     /\ call[c].inspected = "yes" \/ call[c].code = "signal") => call[c].limited = "yes"

\* The chain holds: a call that a hook of the chain blocks never reaches its
\* tool; a call is told what was recorded of it, once; and what is recorded is
\* redacted when the chain has the redaction hook (hooks.py:155-180, 111-136).
ChainHolds ==
  \A c \in Calls :
    LET r == call[c].req
        records == {e \in hookLog : e.call = c}
    IN call[c].pc # "idle" =>
       /\ (\E i \in DOMAIN Hooks : Blocks(Hooks[i], r)) => c \notin ran
       /\ call[c].answer = "blocked" => c \notin ran
       /\ call[c].answer \in {"ok", "error", "blocked"} =>
            \E e \in records :
                 /\ records = {e}
                 /\ e.blockedBy # "none" <=> call[c].answer = "blocked"
                 /\ e.error = "yes" <=> call[c].answer = "error"
                 /\ "SecretRedactionHook" \in ToSet(Hooks) => e.redacted = "yes"

ExecutionsAreTrue == TypeOK /\ RecordsTellTheTruth /\ LimitKillsAreFlagged

(***************************************************************************)
(* The inductive invariant from which NothingLeftRunning, ChainHolds and   *)
(* ExecutionsAreTrue are proved, call by call: x is the call's thread, b   *)
(* its container or process, q the daemon's request, p the proxy.          *)
(***************************************************************************)
PCs == {"idle", "invoke", "pre", "wait", "kill", "inspect", "remove", "conclude", "raised",
        "returned", "over"}

IsCall(x) ==
  /\ x = [pc |-> x.pc, req |-> x.req, i |-> x.i, code |-> x.code,
          timedOut |-> x.timedOut, limited |-> x.limited, inspected |-> x.inspected,
          removed |-> x.removed, answer |-> x.answer]
  /\ x.pc \in PCs /\ x.i \in Nat \ {0}
IsBox(b) ==
  /\ b = [st |-> b.st, code |-> b.code, oom |-> b.oom, limit |-> b.limit]
  /\ b.st \in {"absent", "created", "running", "exited", "orphaned"}
  /\ b.code \in {"none", "clean", "failed", "signal", "refused"}

RuntimeFor(x) == RuntimeOf(TierOf(x.req))
Concluded(x) == x.pc = "returned" \/ x.answer = "ok"

\* Whether the tool was entered, and what the call may have left so far.
Entered(c, x, b, q, p, R) ==
  /\ x.pc \in {"idle", "invoke", "pre"} => c \notin R /\ b = NoBox /\ q = "none" /\ p = "off"
  /\ x.pc # "over" => x.answer = "none"
  /\ x.pc \in {"wait", "kill", "inspect", "remove", "conclude", "raised", "returned"} => c \in R
  /\ x.pc = "over" =>
       /\ x.answer \in {"ok", "error", "blocked", "unknown", "forbidden"}
       /\ x.answer \in {"ok", "error"} => c \in R
       /\ x.answer \in {"blocked", "unknown", "forbidden"} =>
            c \notin R /\ b = NoBox /\ q = "none" /\ p = "off"
  /\ x.pc \in {"invoke", "pre", "wait"} =>
       x.timedOut = "no" /\ x.limited = "no" /\ x.code = "none" /\ x.removed = "no"

\* A subprocess: it is gone whenever execute is left.
InSubprocess(x, b, q, p) ==
  /\ q = "none" /\ x.pc \notin {"kill", "inspect", "remove", "conclude"}
  /\ x.pc = "wait" => b.st \in {"running", "exited"}
  /\ x.pc \in {"raised", "returned", "over"} => b.st \in {"absent", "orphaned"} /\ p # "listening"
  /\ x.timedOut = "yes" => x.limited = "no"

\* A container: what is asked for but not served, and what a timeout leaves.
InContainer(x, b, q, p) ==
  /\ b.st = "absent" => b.limit = "no"
  /\ q = "create" => b.st = "absent"
  /\ q = "start" => b.st \in {"created", "absent"}
  /\ x.pc = "wait" => \/ q = "create"
                      \/ q = "start" /\ b.st = "created"
                      \/ q = "none" /\ b.st \in {"running", "exited"}
  /\ x.pc = "kill" => x.timedOut = "yes"
  /\ x.timedOut = "yes" => x.code = "none" /\ x.limited = "no"
  /\ x.pc \in {"inspect", "remove"} /\ x.timedOut = "no" =>
       /\ q = "none"
       /\ \/ b.st = "exited" /\ x.code = b.code /\ b.code # "none"
          \/ b.st = "absent" /\ b.limit = "no"
  /\ (/\ x.pc = "remove" /\ b.limit = "yes" /\ x.timedOut = "no"
      /\ x.inspected = "yes" \/ x.code = "signal") => x.limited = "yes"
  /\ x.pc \in {"wait", "kill", "inspect", "remove"} => x.removed = "no"
  /\ x.removed = "yes" =>
       /\ b.st \in {"absent", "created"}
       /\ b.st = "created" => q = "none"
  /\ Concluded(x) => p # "listening"

BoxOK(b) ==
  /\ b.limit \in {"yes", "no"} /\ b.limit = "yes" => b.oom = "yes" \/ b.code = "signal"
  /\ b.st \in {"created", "running"} => b.limit = "no"
  /\ b.st = "exited" => b.code # "none"

WhereOK(c, x, b, q, p, R) ==
  /\ IsCall(x) /\ IsBox(b) /\ BoxOK(b)
  /\ q \in {"none", "create", "start"} /\ p \in {"off", "listening", "closed"}
  /\ Entered(c, x, b, q, p, R)
  /\ x.pc # "idle" /\ RuntimeFor(x) = "subprocess" => InSubprocess(x, b, q, p)
  /\ x.pc # "idle" /\ RuntimeFor(x) = "docker" => InContainer(x, b, q, p)

\* The connections n and the decisions d of the call, and its record in L.
ToldOK(n, d) ==
  /\ n = [k \in Conns |-> n[k]]
  /\ d \subseteq Conns \X {"allow", "deny"}
  /\ \A k \in Conns :
       n[k][1] \in {"decided", "answered"} => <<k, Verdict(n[k][2])>> \in d
RecordedOK(c, x, L, n) ==
  IF Concluded(x)
  THEN \E e \in L :
         /\ \A f \in L : f.call = c => f = e
         /\ e.call = c /\ e.code = x.code /\ e.timedOut = x.timedOut
         /\ RuntimeFor(x) = "docker" /\ x.removed = "yes" =>
              \A k \in Conns : n[k][1] = "answered" => <<k, Verdict(n[k][2])>> \in e.decisions
  ELSE \A e \in L : e.call # c

\* The hooks H the call has passed, and its record in the chain's log L.
PassedOK(c, x, H, R) ==
  x.pc # "idle" =>
    /\ x.i <= Len(H) + 1
    /\ \A j \in 1..Len(H) : j < x.i => ~Blocks(H[j], x.req)
    /\ c \in R => Len(H) < x.i
LoggedOK(c, x, H, L) ==
  IF x.answer \in {"ok", "error", "blocked"}
  THEN \E e \in L :
         /\ {f \in L : f.call = c} = {e}
         /\ e.blockedBy # "none" <=> x.answer = "blocked"
         /\ e.error = "yes" <=> x.answer = "error"
         /\ (\E j \in 1..Len(H) : H[j] = "SecretRedactionHook") => e.redacted = "yes"
  ELSE \A e \in L : e.call # c

CallOK(c) ==
  /\ WhereOK(c, call[c], box[c], request[c], proxy[c], ran)
  /\ ToldOK(conn[c], decisions[c])
  /\ RecordedOK(c, call[c], execLog, conn[c])
  /\ PassedOK(c, call[c], Hooks, ran)
  /\ LoggedOK(c, call[c], Hooks, hookLog)

SandboxInv ==
  /\ ran \subseteq Calls /\ failures \in 0..MaxFailures
  /\ call = [c \in Calls |-> call[c]] /\ box = [c \in Calls |-> box[c]]
  /\ request = [c \in Calls |-> request[c]] /\ proxy = [c \in Calls |-> proxy[c]]
  /\ conn = [c \in Calls |-> conn[c]] /\ decisions = [c \in Calls |-> decisions[c]]
  /\ \A c \in Calls : CallOK(c)
=============================================================================
