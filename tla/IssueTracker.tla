----------------------------- MODULE IssueTracker -----------------------------
(***************************************************************************)
(* The issue-tracker service: the MCP tools over Jira's REST API           *)
(* (mcp_server.py, jira_client.py), the Confluence search (rovo_client.py) *)
(* and the relay that turns a Jira Automation event into a signed dispatch *)
(* (webhook_relay.py, gating.py, webhook_signing.py).                      *)
(*                                                                         *)
(* Every operation is a sequence of HTTP requests.  A request is answered, *)
(* refused, applied with its answer lost, or still under way when the      *)
(* client gives up and applied later.  Jira, its people and the network    *)
(* are external.                                                           *)
(***************************************************************************)
EXTENDS Naturals, Sequences, FiniteSets, SequencesExt

CONSTANTS
  Callers,      \* threads of the service
  Requests,     \* Requests[c]: what caller c may ask for
  Configs,      \* the TenantJiraConfigs of the instance
  FirstIssues,  \* the issues at the start, a sequence
  Workflow,     \* Workflow[s]: the statuses the site's workflow allows after s
  Window,       \* REPLAY_WINDOW_SECONDS, in ticks
  MaxIssues,    \* bound: issues
  MaxOps,       \* bound: operations per caller
  MaxFaults,    \* bound: requests that are not simply answered
  MaxEdits,     \* bound: changes made by people
  MaxTime       \* bound: the clock

\* A record with the fields of an issue.
IsIssue(x) ==
  x = [type |-> x.type, summary |-> x.summary, epic |-> x.epic, link |-> x.link,
       status |-> x.status, opted |-> x.opted, archived |-> x.archived,
       blockers |-> x.blockers, comments |-> x.comments]

\* The same type, summary and epic.
Equal(x, y) == x.type = y.type /\ x.summary = y.summary /\ x.epic = y.epic

\* The search of a creation sees the issue: a story's epic is in the `parent'
\* field, the only one it asks about, and not in the Epic Link custom field.
Searchable(x) == x.type = "Story" => x.link = "parent"

\* A site without duplicates at the start, and requests that the tools'
\* schemas allow: an epic has no dependencies.
Site ==
  /\ {Window, MaxTime, MaxFaults, MaxEdits} \subseteq Nat
  /\ \A g \in Configs : g.trigger \notin {g.approval, g.changeReview, g.done}
  /\ FirstIssues \in Seq(Range(FirstIssues))
  /\ \A k \in DOMAIN FirstIssues :
       /\ IsIssue(FirstIssues[k]) /\ FirstIssues[k].blockers \subseteq DOMAIN FirstIssues
       /\ FirstIssues[k].comments \in Nat
  /\ \A j, k \in DOMAIN FirstIssues : j # k => ~Equal(FirstIssues[j], FirstIssues[k])
  /\ \A c \in Callers : \A r \in Requests[c] :
       r.deps \in Seq(Nat) /\ (r.tool = "create-epic" => r.deps = <<>>)

ASSUME IssueTrackerAssumption == Site

VARIABLES
  config,    \* the tenant's configuration
  issues,    \* Jira's issues, by key
  opOf,      \* opOf[c]: the operation of caller c
  ops,       \* ops[c]: operations begun
  late,      \* requests their clients have given up on, not applied yet
  raced,     \* summaries created while another creation was past its search
  sent,      \* signed dispatches on their way
  accepted,  \* dispatches whose verification succeeded
  now,       \* time.time()
  faults,    \* requests not simply answered
  edits      \* changes made by people

trackerVars == <<config, issues, opOf, ops, late, raced, sent, accepted, now, faults, edits>>

Keys == DOMAIN issues
NoOperation == [pc |-> "idle", req |-> "none", key |-> 0, left |-> <<>>, prev |-> "none",
                answer |-> "none", code |-> "none", did |-> {}, opted |-> "no"]
SetOp(c, o) == opOf' = [opOf EXCEPT ![c] = o]
Done(o, answer) == [o EXCEPT !.pc = "idle", !.answer = answer, !.left = <<>>, !.prev = "none"]

TrackerInit ==
  /\ config \in Configs
  /\ issues = FirstIssues
  /\ opOf = [c \in Callers |-> NoOperation]
  /\ ops = [c \in Callers |-> 0]
  /\ late = {} /\ raced = {} /\ sent = {} /\ accepted = {}
  /\ now = 0 /\ faults = 0 /\ edits = 0

(***************************************************************************)
(* HTTP.                                                                   *)
(***************************************************************************)

\* from_http_response
FromHttpResponse(status) ==
  CASE status = "404" -> "not-found"
    [] status \in {"401", "403"} -> "permission-denied"
    [] status = "429" -> "rate-limited"
    [] OTHER -> "upstream-unavailable"

\* _error_result: the operation ends with the error's code.
ErrorResult(o, code) == [Done(o, "error") EXCEPT !.code = code]

\* What Jira does with a write: external.  An issue that is not there is not
\* found (404); a transition the workflow does not offer from the issue's
\* status is refused (400).
Names(w) ==
  CASE w.kind = "create" -> {}
    [] w.kind = "link" -> {w.key, w.blocker}
    [] OTHER -> {w.key}

Accepts(w) ==
  /\ Names(w) \subseteq Keys
  /\ w.kind = "create" => Len(issues) < MaxIssues
  /\ w.kind = "status" => w.to \in Workflow[issues[w.key].status]

Refusal(w) == IF Names(w) \subseteq Keys THEN "400" ELSE "404"

Applied(w) ==
  CASE w.kind = "create" ->
         Append(issues, [type |-> w.type, summary |-> w.summary, epic |-> w.epic,
                         link |-> w.link, status |-> "Backlog", opted |-> "no",
                         archived |-> FALSE, blockers |-> {}, comments |-> 0])
    [] w.kind = "link" -> [issues EXCEPT ![w.key].blockers = @ \cup {w.blocker}]
    [] w.kind = "status" -> [issues EXCEPT ![w.key].status = w.to]
    [] w.kind = "comment" -> [issues EXCEPT ![w.key].comments = @ + 1]
    [] OTHER -> issues

\* Another creation of the same issue has searched and not been applied yet.
RacesWith(c, w) ==
  /\ w.kind = "create"
  /\ \/ \E d \in Callers \ {c} : opOf[d].pc = "create" /\ opOf[d].req.summary = w.summary
     \/ \E l \in late : l.write.kind = "create" /\ l.write.summary = w.summary

Raced(c, w) == raced' = IF RacesWith(c, w) THEN raced \cup {w.summary} ELSE raced

\* _request with a write w: `next' is the operation after a good answer.
Send(c, w, next) ==
  /\ \/ /\ Accepts(w)
        /\ issues' = Applied(w) /\ Raced(c, w)
        /\ SetOp(c, [next EXCEPT !.did = @ \cup {w.kind}])
        /\ UNCHANGED <<late, faults>>
     \/ /\ Accepts(w) /\ faults < MaxFaults
        /\ issues' = Applied(w) /\ Raced(c, w)
        /\ SetOp(c, [ErrorResult(opOf[c], "upstream-unavailable") EXCEPT !.did = @ \cup {w.kind}])
        /\ faults' = faults + 1 /\ UNCHANGED late
     \/ /\ faults < MaxFaults
        /\ late' = late \cup {[by |-> c, nth |-> ops[c], write |-> w]}
        /\ SetOp(c, ErrorResult(opOf[c], "upstream-unavailable"))
        /\ faults' = faults + 1 /\ UNCHANGED <<issues, raced>>
     \/ \E status \in {"404", "403", "429"} :
        /\ faults < MaxFaults
        /\ SetOp(c, ErrorResult(opOf[c], FromHttpResponse(status)))
        /\ faults' = faults + 1 /\ UNCHANGED <<issues, late, raced>>
     \/ /\ ~Accepts(w)
        /\ SetOp(c, ErrorResult(opOf[c], FromHttpResponse(Refusal(w))))
        /\ UNCHANGED <<issues, late, raced, faults>>
  /\ UNCHANGED <<config, ops, sent, accepted, now, edits>>

\* _request with a read.
Fetch(c, next) ==
  /\ \/ SetOp(c, next) /\ UNCHANGED faults
     \/ \E status \in {"404", "403", "429", "500"} :
        /\ faults < MaxFaults
        /\ SetOp(c, ErrorResult(opOf[c], FromHttpResponse(status)))
        /\ faults' = faults + 1
  /\ UNCHANGED <<config, issues, ops, late, raced, sent, accepted, now, edits>>

\* A request its client has given up on is applied after all.
Land(l) ==
  /\ l \in late
  /\ late' = late \ {l}
  /\ issues' = IF Accepts(l.write) THEN Applied(l.write) ELSE issues
  /\ raced' = IF /\ Accepts(l.write) /\ l.write.kind = "create"
                 /\ \/ \E d \in Callers :
                         opOf[d].pc = "create" /\ opOf[d].req.summary = l.write.summary
                    \/ \E m \in late \ {l} :
                         m.write.kind = "create" /\ m.write.summary = l.write.summary
              THEN raced \cup {l.write.summary} ELSE raced
  /\ UNCHANGED <<config, opOf, ops, sent, accepted, now, faults, edits>>

(***************************************************************************)
(* The MCP server.                                                         *)
(***************************************************************************)
Tools == {"create-epic", "create-story", "get-issue", "transition-status", "post-comment",
          "assign", "confluence", "event"}

\* TOOL_FNS and the relay: where an operation starts.  A transition outside
\* the gates' statuses, and an empty comment, never reach Jira.
AllowedTargetStatuses == {config.approval, config.changeReview, config.done}

FirstStep(r) ==
  CASE r.tool \in {"create-epic", "create-story"} -> "search"
    [] r.tool = "transition-status" -> "status"
    [] r.tool = "get-issue" -> "get"
    [] r.tool = "post-comment" -> "comment"
    [] r.tool = "assign" -> "assignee"
    [] r.tool = "confluence" -> "rovo"
    [] OTHER -> "refetch"

\* on_call_tool: an unknown tool, input the schema refuses, an incomplete
\* tenant configuration (ValueError leaves the server), or the first step.
OnCallTool(c, r) ==
  LET o == [NoOperation EXCEPT !.req = r, !.key = r.key,
              !.opted = IF r.key \in Keys THEN issues[r.key].opted ELSE "no"] IN
  /\ opOf[c].pc = "idle" /\ ops[c] < MaxOps
  /\ ops' = [ops EXCEPT ![c] = @ + 1]
  /\ SetOp(c,
       CASE r.tool \notin Tools -> ErrorResult(o, "not-found")
         [] r.tool \in Tools /\ ~r.valid -> Done(o, "malformed")
         [] r.tool \in Tools /\ r.valid /\ ~config.complete -> Done(o, "raised")
         [] OTHER -> [o EXCEPT !.pc = FirstStep(r)])
  /\ UNCHANGED <<config, issues, late, raced, sent, accepted, now, faults, edits>>

(***************************************************************************)
(* create-epic and create-story.                                           *)
(***************************************************************************)
SameAs(x, r) ==
  /\ x.summary = r.summary
  /\ x.type = (IF r.tool = "create-epic" THEN "Epic" ELSE "Story")
  /\ r.tool = "create-story" => x.epic = r.epic
Same(k, r) == SameAs(issues[k], r)

\* Variant: a search that finds nothing.
FindExistingNothing(r) == {}
\* _find_existing: the issue of that type, summary and parent, if any, however
\* the tenant's stories name their epic.
FindExisting(r) == {k \in Keys : Same(k, r) /\ Searchable(issues[k])}

\* The search; an existing issue is the answer.
Search(c) ==
  LET o == opOf[c] IN
  /\ o.pc = "search"
  /\ IF FindExisting(o.req) = {}
     THEN Fetch(c, [o EXCEPT !.pc = "create"])
     ELSE \E k \in FindExisting(o.req) : Fetch(c, [Done(o, "empty") EXCEPT !.key = k])

\* create_epic: one request.
CreateEpic(c) ==
  LET o == opOf[c] IN
  /\ o.pc = "create" /\ o.req.tool = "create-epic"
  /\ Send(c, [kind |-> "create", type |-> "Epic", summary |-> o.req.summary, epic |-> 0,
              link |-> "none"],
          [Done(o, "ok") EXCEPT !.key = Len(issues) + 1])

\* The next link of a story, or its answer.
AfterLink(o) ==
  IF o.left = <<>> THEN Done(o, "ok") ELSE [o EXCEPT !.pc = "link"]

\* create_story: the issue, its epic in the field that epic_link_mode names,
\* then a link for every dependency.
CreateStory(c) ==
  LET o == opOf[c] IN
  /\ o.pc = "create" /\ o.req.tool = "create-story" /\ config.epicLink # "unset"
  /\ Send(c, [kind |-> "create", type |-> "Story", summary |-> o.req.summary,
              epic |-> o.req.epic, link |-> config.epicLink],
          AfterLink([o EXCEPT !.key = Len(issues) + 1, !.left = o.req.deps]))

\* create_story: ValueError, the custom field has no id.
NoEpicField(c) ==
  /\ opOf[c].pc = "create" /\ opOf[c].req.tool = "create-story" /\ config.epicLink = "unset"
  /\ SetOp(c, Done(opOf[c], "raised"))
  /\ UNCHANGED <<config, issues, ops, late, raced, sent, accepted, now, faults, edits>>

\* Variant: a story is answered after its first link.
LinksLeftNone(o) == <<>>
LinksLeft(o) == Tail(o.left)

\* _create_blocks_link
CreateBlocksLink(c) ==
  LET o == opOf[c] IN
  /\ o.pc = "link"
  /\ Send(c, [kind |-> "link", key |-> o.key, blocker |-> Head(o.left)],
          AfterLink([o EXCEPT !.left = LinksLeft(o)]))

(***************************************************************************)
(* The operations on an issue.                                             *)
(***************************************************************************)

\* get_issue: an archived issue is empty.
GetIssueAnswer(k) == IF issues[k].archived THEN "empty" ELSE "ok"

GetIssue(c) ==
  LET o == opOf[c] IN
  /\ o.pc = "get"
  /\ IF o.key \in Keys THEN Fetch(c, Done(o, GetIssueAnswer(o.key)))
     ELSE /\ SetOp(c, ErrorResult(o, FromHttpResponse("404")))
          /\ UNCHANGED <<config, issues, ops, late, raced, sent, accepted, now, faults, edits>>

\* transition_status: the gates' statuses only, and the issue's status first.
ReadStatus(c) ==
  LET o == opOf[c] IN
  /\ o.pc = "status"
  /\ IF o.req.target \notin AllowedTargetStatuses
     THEN /\ SetOp(c, ErrorResult(o, "permission-denied"))
          /\ UNCHANGED <<config, issues, ops, late, raced, sent, accepted, now, faults, edits>>
     ELSE IF o.key \notin Keys
     THEN /\ SetOp(c, ErrorResult(o, FromHttpResponse("404")))
          /\ UNCHANGED <<config, issues, ops, late, raced, sent, accepted, now, faults, edits>>
     ELSE Fetch(c, IF issues[o.key].status = o.req.target THEN Done(o, "empty")
                   ELSE [o EXCEPT !.pc = "transitions", !.prev = issues[o.key].status])

\* transition_status: the transition that leads to the target, if offered.
ReadTransitions(c) ==
  LET o == opOf[c] IN
  /\ o.pc = "transitions"
  /\ Fetch(c, IF o.req.target \in Workflow[issues[o.key].status]
              THEN [o EXCEPT !.pc = "transition"] ELSE ErrorResult(o, "not-found"))

\* transition_status: the transition, by the id read before.
PostTransition(c) ==
  LET o == opOf[c] IN
  /\ o.pc = "transition"
  /\ Send(c, [kind |-> "status", key |-> o.key, to |-> o.req.target],
          IF o.req.comment THEN [o EXCEPT !.pc = "comment"] ELSE Done(o, "ok"))

\* post_comment, and the comment of a transition; an empty one is not sent.
PostComment(c) ==
  LET o == opOf[c] IN
  /\ o.pc = "comment"
  /\ IF o.req.comment THEN Send(c, [kind |-> "comment", key |-> o.key], Done(o, "ok"))
     ELSE /\ SetOp(c, Done(o, "empty"))
          /\ UNCHANGED <<config, issues, ops, late, raced, sent, accepted, now, faults, edits>>

\* assign_issue
AssignIssue(c) ==
  /\ opOf[c].pc = "assignee"
  /\ Send(c, [kind |-> "assignee", key |-> opOf[c].key], Done(opOf[c], "ok"))

\* RovoClient: an error of the transport, of JSON-RPC or of the tool; pages,
\* or none.
RovoAnswer(found) == IF found THEN "ok" ELSE "empty"

RovoCall(c) ==
  /\ opOf[c].pc = "rovo"
  /\ \E found \in BOOLEAN : Fetch(c, Done(opOf[c], RovoAnswer(found)))

(***************************************************************************)
(* The relay.                                                              *)
(***************************************************************************)

\* Variant: being in the trigger status is enough.
EvaluateByStatus(k) == issues[k].status = config.trigger
\* gating.evaluate: the label, or the issue type; never the status.
Evaluate(k) ==
  (config.label /\ issues[k].opted = "yes") \/ issues[k].type = config.issueType

\* handle_automation_event up to the gate, on a fresh copy of the issue.
Refetch(c) ==
  LET o == opOf[c] IN
  /\ o.pc = "refetch"
  /\ IF o.key \notin Keys
     THEN /\ SetOp(c, ErrorResult(o, "not-found"))
          /\ UNCHANGED <<config, issues, ops, late, raced, sent, accepted, now, faults, edits>>
     ELSE Fetch(c, CASE GetIssueAnswer(o.key) = "empty" -> Done(o, "relay-error")
                     [] GetIssueAnswer(o.key) = "ok" /\ ~Evaluate(o.key) -> Done(o, "not-opted-in")
                     [] OTHER -> [o EXCEPT !.pc = "sign"])

\* handle_automation_event from the repository and the key to the signature;
\* do_POST forwards and answers 202.
SignRequest(c) ==
  LET o == opOf[c] IN
  /\ o.pc = "sign"
  /\ IF ~config.repository \/ ~config.secret
     THEN SetOp(c, Done(o, "relay-error")) /\ UNCHANGED sent
     ELSE /\ sent' = sent \cup {[by |-> c, nth |-> ops[c], key |-> o.key,
                                 timestamp |-> now, opted |-> o.opted]}
          /\ SetOp(c, Done(o, "dispatched"))
  /\ UNCHANGED <<config, issues, ops, late, raced, accepted, now, faults, edits>>

\* verify_request on a request whose headers arrived whole.
VerifyRequest(d) ==
  /\ (IF now > d.timestamp THEN now - d.timestamp ELSE d.timestamp - now) <= Window
  /\ config.secret

\* A dispatch arrives, once or again, and is verified.
Deliver(d) ==
  /\ d \in sent
  /\ accepted' = IF VerifyRequest(d) THEN accepted \cup {<<d, now>>} ELSE accepted
  /\ accepted' # accepted
  /\ UNCHANGED <<config, issues, opOf, ops, late, raced, sent, now, faults, edits>>

(***************************************************************************)
(* People and time.                                                        *)
(***************************************************************************)
SetLabel(k, on) ==
  /\ edits < MaxEdits /\ issues[k].opted # on
  /\ edits' = edits + 1
  /\ issues' = [issues EXCEPT ![k].opted = on]
  /\ opOf' = [c \in Callers |-> IF opOf[c].pc # "idle" /\ opOf[c].key = k
                              THEN [opOf[c] EXCEPT !.opted = IF on = "yes" THEN on ELSE @]
                              ELSE opOf[c]]
  /\ UNCHANGED <<config, ops, late, raced, sent, accepted, now, faults>>

MoveIssue(k, s) ==
  /\ edits < MaxEdits /\ s \in Workflow[issues[k].status]
  /\ edits' = edits + 1
  /\ issues' = [issues EXCEPT ![k].status = s]
  /\ UNCHANGED <<config, opOf, ops, late, raced, sent, accepted, now, faults>>

Tick ==
  /\ now < MaxTime /\ sent # {}
  /\ now' = now + 1
  /\ UNCHANGED <<config, issues, opOf, ops, late, raced, sent, accepted, faults, edits>>

Step(c) ==
  \/ Search(c) \/ CreateEpic(c) \/ CreateStory(c) \/ NoEpicField(c) \/ CreateBlocksLink(c)
  \/ GetIssue(c) \/ ReadStatus(c) \/ ReadTransitions(c) \/ PostTransition(c)
  \/ PostComment(c) \/ AssignIssue(c) \/ RovoCall(c) \/ Refetch(c) \/ SignRequest(c)

TrackerNext ==
  \/ \E c \in Callers : Step(c) \/ \E r \in Requests[c] : OnCallTool(c, r)
  \/ \E l \in late : Land(l)
  \/ \E d \in sent : Deliver(d)
  \/ \E k \in Keys : \/ \E on \in {"yes", "no"} : SetLabel(k, on)
                     \/ \E s \in DOMAIN Workflow : MoveIssue(k, s)
  \/ Tick

TrackerSpec == TrackerInit /\ [][TrackerNext]_trackerVars

(***************************************************************************)
(* Properties.                                                             *)
(***************************************************************************)
Answers == {"none", "ok", "empty", "error", "malformed", "raised", "relay-error",
            "not-opted-in", "dispatched"}

TrackerTypeOK ==
  /\ config \in Configs
  /\ \A k \in Keys : issues[k].blockers \subseteq Keys /\ issues[k].comments \in Nat
  /\ \A c \in Callers : opOf[c].answer \in Answers
  /\ now \in 0..MaxTime /\ faults \in 0..MaxFaults /\ edits \in 0..MaxEdits

\* The answer of the last operation tells what was done: a created issue is
\* there with every link it was asked for; a transition was made, with its
\* comment; "empty" and the refusals before the first request changed nothing
\* (jira_client.py:97-188, 267-323).
AnswersAreTrue ==
  /\ TrackerTypeOK
  /\ \A c \in Callers :
       LET o == opOf[c] IN
       (o.pc = "idle" /\ o.answer # "none") =>
         /\ (o.answer = "ok" /\ o.req.tool \in {"create-epic", "create-story"}) =>
              /\ o.key \in Keys /\ Same(o.key, o.req)
              /\ ToSet(o.req.deps) \subseteq issues[o.key].blockers
         /\ (o.answer = "ok" /\ o.req.tool = "transition-status") =>
              o.did = {"status"} \cup (IF o.req.comment THEN {"comment"} ELSE {})
         /\ (o.answer = "empty" /\ o.req.tool \in {"create-epic", "create-story"}) =>
              Same(o.key, o.req)
         /\ o.answer \in {"empty", "malformed", "raised"} => o.did = {}
         /\ (o.req.tool = "transition-status" /\ o.req.target \notin AllowedTargetStatuses) =>
              o.did = {}

\* Retrying a creation whose answer was lost makes no second issue, if the epic
\* is written where the search looks for it: two equal epics, or two equal
\* stories created with epic_link_mode "parent", exist only if one was created
\* between another creation's search and its request (_find_existing,
\* jira_client.py:456-476).  With "customfield" the search never finds a story
\* and every retry makes another (jira_client.py:158-163, 467-468).
NoDuplicateUnlessRaced ==
  \A j, k \in Keys :
    (/\ j # k /\ Equal(issues[j], issues[k])
     /\ Searchable(issues[j]) /\ Searchable(issues[k])) => issues[j].summary \in raced

\* A dispatch is accepted only within the window of its signature and only
\* for an issue that was opted in at some moment while its event was being
\* handled, whatever its status (webhook_relay.py:109-169, gating.py:57-100).
DispatchesAreOptedIn ==
  \A a \in accepted :
    /\ a[2] - a[1].timestamp <= Window
    /\ a[1].opted = "yes" \/ issues[a[1].key].type = config.issueType

(***************************************************************************)
(* The inductive invariant from which the three are proved.  I stands for  *)
(* the issues and g for the configuration.                                 *)
(***************************************************************************)
IssuesOK(I) ==
  /\ I \in Seq(Range(I))
  /\ \A k \in DOMAIN I :
       IsIssue(I[k]) /\ I[k].blockers \subseteq DOMAIN I /\ I[k].comments \in Nat

IsOp(o) ==
  /\ o = [pc |-> o.pc, req |-> o.req, key |-> o.key, left |-> o.left, prev |-> o.prev,
          answer |-> o.answer, code |-> o.code, did |-> o.did, opted |-> o.opted]
  /\ o.left \in Seq(Nat) /\ o.answer \in Answers

Targets(g) == {g.approval, g.changeReview, g.done}

\* A story that is there, with its links but for those still to be made.
Linked(o, I) ==
  /\ o.key \in DOMAIN I /\ SameAs(I[o.key], o.req)
  /\ ToSet(o.req.deps) \subseteq I[o.key].blockers \cup ToSet(o.left)

OptedIn(d, I, g) == d.key \in DOMAIN I /\ (d.opted = "yes" \/ I[d.key].type = g.issueType)

\* What the answer of an operation says (AnswersAreTrue).
Truthful(o, I, g) ==
  /\ (o.answer = "ok" /\ o.req.tool \in {"create-epic", "create-story"}) =>
       Linked(o, I) /\ o.left = <<>>
  /\ (o.answer = "ok" /\ o.req.tool = "transition-status") =>
       o.did = {"status"} \cup (IF o.req.comment THEN {"comment"} ELSE {})
  /\ (o.answer = "empty" /\ o.req.tool \in {"create-epic", "create-story"}) =>
       o.key \in DOMAIN I /\ SameAs(I[o.key], o.req)
  /\ o.answer \in {"empty", "malformed", "raised"} => o.did = {}

\* Where an operation of caller c stands, and what it has done so far.
OpOK(o, c, I, g) ==
  /\ IsOp(o)
  /\ o.pc # "idle" => o.answer = "none"
  /\ o.pc # "idle" \/ o.answer # "none" =>
       /\ o.req \in Requests[c]
       /\ (o.req.tool = "transition-status" /\ o.req.target \notin Targets(g)) => o.did = {}
  /\ o.pc \in {"search", "create"} =>
       o.req.tool \in {"create-epic", "create-story"} /\ o.did = {}
  /\ o.pc = "link" => o.req.tool = "create-story" /\ o.left # <<>> /\ Linked(o, I)
  /\ o.pc \in {"status", "transitions", "transition"} =>
       o.req.tool = "transition-status" /\ o.did = {}
  /\ o.pc \in {"transitions", "transition"} => o.req.target \in Targets(g)
  /\ o.pc = "comment" =>
       \/ o.req.tool = "post-comment" /\ o.did = {}
       \/ /\ o.req.tool = "transition-status" /\ o.req.target \in Targets(g)
          /\ o.req.comment /\ o.did = {"status"}
  /\ o.pc \in {"get", "assignee", "rovo", "refetch", "sign"} =>
       o.req.tool \in {"get-issue", "assign", "confluence", "event"} /\ o.did = {}
  /\ o.pc = "sign" => OptedIn(o, I, g)
  /\ o.pc # "idle" /\ o.key \in DOMAIN I /\ I[o.key].opted = "yes" => o.opted = "yes"
  /\ o.pc = "idle" /\ o.answer # "none" => Truthful(o, I, g)

\* A creation past its search would make no duplicate, unless it is raced.
PendingOK(o, I, R) ==
  o.pc = "create" =>
    o.req.summary \in R \/ \A k \in DOMAIN I : Searchable(I[k]) => ~SameAs(I[k], o.req)
FreshWrite(w, I, R) ==
  w.kind = "create" =>
    w.summary \in R \/ \A k \in DOMAIN I : Searchable(I[k]) => ~Equal(I[k], w)

TrackerInv ==
  /\ config \in Configs /\ IssuesOK(issues) /\ opOf = [c \in Callers |-> opOf[c]]
  /\ now \in 0..MaxTime /\ faults \in 0..MaxFaults /\ edits \in 0..MaxEdits
  /\ \A c \in Callers : OpOK(opOf[c], c, issues, config)
  /\ \A c \in Callers : PendingOK(opOf[c], issues, raced)
  /\ \A l \in late : FreshWrite(l.write, issues, raced)
  /\ NoDuplicateUnlessRaced
  /\ \A d \in sent : OptedIn(d, issues, config) /\ d.timestamp \in Nat
  /\ \A a \in accepted : a[1] \in sent /\ a[2] - a[1].timestamp <= Window
=============================================================================
