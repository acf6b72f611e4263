------------------------------ MODULE ModelCalls ------------------------------
(***************************************************************************)
(* One agent backend asking its model: the retries of the four vendors     *)
(* (bedrock_backend.py, anthropic_backend.py, openai_backend.py,           *)
(* ollama_backend.py), Bedrock's fallback over models and regions with its *)
(* sticky preference, and the translation of the answer.                   *)
(*                                                                         *)
(* A combination is an index into Bedrock's list of attempts, model-major: *)
(* NRegions consecutive indices belong to one model, the best model first. *)
(* The other vendors have one combination.  The model's service is         *)
(* external: any attempt may meet any reply.                               *)
(***************************************************************************)
EXTENDS Naturals, Sequences, FiniteSets

CONSTANTS
  Vendors,      \* the vendors a deployment may configure
  NModels,      \* 1 + Len(fallback_models)
  NRegions,     \* 1 + Len(fallback_clients)
  MaxRetries,   \* config.max_retries
  MaxBatch,     \* bound: subtasks in a batch
  MaxCalls      \* bound: calls of one backend

\* What a deployment gives; MCAgentServices assumes it.
ModelCallsAssumption ==
  /\ Vendors \subseteq {"bedrock", "anthropic", "openai", "ollama"}
  /\ {NModels, NRegions, MaxRetries, MaxBatch, MaxCalls} \subseteq Nat \ {0}

VARIABLES
  vendor,   \* the vendor create_agent_backend was asked for
  sticky,   \* _sticky_state["index"]
  call,     \* the call being made
  calls,    \* calls so far
  trusted   \* the combination that answered last and has not failed since

vars == <<vendor, sticky, call, calls, trusted>>

\* create_agent_backend: only Bedrock is given more than one combination.
Size(v) == IF v = "bedrock" THEN NModels * NRegions ELSE 1
Combinations == 0..(Size(vendor) - 1)

Idle == [pc |-> "idle", op |-> "none", left |-> 0, start |-> 0, pos |-> 1,
         attempt |-> 1, sent |-> [c \in Combinations |-> 0], out |-> "none"]

(***************************************************************************)
(* Replies and answers.                                                    *)
(***************************************************************************)
Replies == {"ok", "rate_limited", "server_error", "no_connection", "timeout",
            "dropped", "denied", "rejected"}

\* What each vendor's client makes of a reply that is not a success: it
\* retries, or raises the error named.  A connection lost after the request
\* was sent is a BotoCoreError, but neither a URLError nor a timeout, so it
\* passes the three HTTP clients uncaught.
Chat(reply) ==
  CASE reply \in {"no_connection", "timeout"} -> "retry"
    [] reply = "dropped" -> "uncaught"
    [] OTHER -> "request_error"

Complete(reply) ==
  CASE reply \in {"rate_limited", "server_error", "no_connection", "timeout"} -> "retry"
    [] reply = "dropped" -> "uncaught"
    [] OTHER -> "request_error"

CallTool(reply) ==
  CASE reply \in {"rate_limited", "server_error", "no_connection", "timeout"} -> "retry"
    [] reply = "dropped" -> "uncaught"
    [] OTHER -> "request_error"

ConverseInOneRegion(reply) ==
  CASE reply = "denied" -> "access_denied"
    [] reply = "rejected" -> "request_error"
    [] OTHER -> "retry"

Handle(reply) ==
  CASE vendor = "ollama" -> Chat(reply)
    [] vendor = "openai" -> Complete(reply)
    [] vendor = "anthropic" -> CallTool(reply)
    [] vendor = "bedrock" -> ConverseInOneRegion(reply)

\* The contents of a successful reply, and what each vendor's translation
\* into a PlanOutput or a DiffOutput makes of them: a forced tool call's
\* input, or a message's text, of the required shape.
Contents == {"good", "not_json", "no_content", "wrong_shape"}

BedrockAnswer(content) == IF content = "good" THEN "ok" ELSE "malformed"

AnthropicAnswer(content) == IF content = "good" THEN "ok" ELSE "malformed"

OpenAIAnswer(content) == IF content = "good" THEN "ok" ELSE "malformed"

\* A content that is null is parsed all the same.
OllamaAnswer(content) ==
  CASE content = "good" -> "ok"
    [] content = "no_content" -> "uncaught"
    [] OTHER -> "malformed"

Translate(content) ==
  CASE vendor = "ollama" -> OllamaAnswer(content)
    [] vendor = "openai" -> OpenAIAnswer(content)
    [] vendor = "anthropic" -> AnthropicAnswer(content)
    [] vendor = "bedrock" -> BedrockAnswer(content)

(***************************************************************************)
(* A call.                                                                 *)
(***************************************************************************)

\* Variant: the order without the combinations before the start.
OrderToTheEnd(start) ==
  [p \in 1..(Size(vendor) - start) |-> start + p - 1]

\* call_converse_with_retry: from the sticky combination to the end of the
\* list, then from its beginning.
Order(start) ==
  [p \in 1..Size(vendor) |->
     IF start + p - 1 < Size(vendor) THEN start + p - 1
     ELSE start + p - 1 - Size(vendor)]

Combination == Order(call.start)[call.pos]

\* A converse request starts at the sticky combination.
Request(op, left, preferred) ==
  [Idle EXCEPT !.pc = "send", !.op = op, !.left = left,
               !.start = preferred % Size(vendor)]

\* author_plan and re_plan make one request, implement_subtasks_parallel one
\* per subtask, in order (implement_subtask is a batch of one).
Begin(op, n) ==
  /\ call.pc = "idle" /\ calls < MaxCalls
  /\ op = "plan" => n = 1
  /\ call' = Request(op, n, sticky)
  /\ calls' = calls + 1
  /\ UNCHANGED <<vendor, sticky, trusted>>

Sent == [call EXCEPT !.sent[Combination] = @ + 1]
Done(c, out) == [c EXCEPT !.pc = "done", !.out = out]

\* A transient failure: the same combination again, the next one once this
\* one has used its attempts, and the last error once all have.
AfterTransient ==
  IF call.attempt < MaxRetries THEN [Sent EXCEPT !.attempt = @ + 1]
  ELSE IF call.pos < Len(Order(call.start))
       THEN [Sent EXCEPT !.pos = @ + 1, !.attempt = 1]
  ELSE Done(Sent, "transient")

AttemptFails(reply) ==
  /\ call.pc = "send" /\ reply # "ok"
  /\ IF Handle(reply) = "retry"
       THEN call' = AfterTransient /\ trusted' = trusted \ {Combination}
       ELSE call' = Done(Sent, Handle(reply)) /\ UNCHANGED trusted
  /\ UNCHANGED <<vendor, sticky, calls>>

\* sticky_state["index"] = index.
Preference == Combination

\* A reply: the combination becomes the preferred one whatever its content;
\* content that does not translate ends the call and is not retried; the rest
\* of a batch follows.
AttemptAnswered(content) ==
  /\ call.pc = "send"
  /\ content = "not_json" => vendor # "bedrock"
  /\ sticky' = Preference /\ trusted' = {Combination}
  /\ call' = IF Translate(content) = "ok" /\ call.left > 1
             THEN Request(call.op, call.left - 1, sticky')
             ELSE Done(Sent, Translate(content))
  /\ UNCHANGED <<vendor, calls>>

\* The result or the exception is given to the caller.
Return ==
  /\ call.pc = "done"
  /\ call' = Idle
  /\ UNCHANGED <<vendor, sticky, calls, trusted>>

Init ==
  /\ vendor \in Vendors /\ sticky = 0 /\ calls = 0 /\ trusted = {}
  /\ call = Idle

Attempt ==
  \/ \E reply \in Replies : AttemptFails(reply)
  \/ \E content \in Contents : AttemptAnswered(content)

Next ==
  \/ \E op \in {"plan", "implement"}, n \in 1..MaxBatch : Begin(op, n)
  \/ Attempt \/ Return

\* An attempt ends: every client has a timeout.
Fairness == WF_vars(Attempt) /\ WF_vars(Return)

Spec == Init /\ [][Next]_vars /\ Fairness

(***************************************************************************)
(* Properties.                                                             *)
(***************************************************************************)
TypeOK ==
  /\ vendor \in Vendors /\ sticky \in Combinations /\ calls \in 0..MaxCalls
  /\ trusted \subseteq Combinations /\ call.attempt \in 1..MaxRetries
  /\ call.pos \in 1..Size(vendor)

\* call_converse_with_retry and the vendors' loops: a call gives up with the
\* transient error only after every combination has had all its attempts,
\* wherever the preference made it start; any other end comes after exactly
\* the attempts the order prescribes, so a refusal is never tried elsewhere
\* and no combination is passed over.
GivesUpOnlyAfterAll ==
  call.pc = "done" =>
    /\ call.out = "transient" =>
         \A c \in Combinations : call.sent[c] = MaxRetries
    /\ \A p \in 1..Len(Order(call.start)) :
         LET sent == call.sent[Order(call.start)[p]] IN
         /\ p < call.pos => sent = MaxRetries
         /\ p > call.pos => sent = 0
         /\ p = call.pos => sent \in 1..MaxRetries

\* sticky_state over several calls: while the combination that answered last
\* has not failed since, every attempt goes to it, so an outage of the
\* others is paid for once and not on every turn.
SendsWhereItWorks == call.pc = "send" => trusted \subseteq {Combination}

FailoverIsThorough == TypeOK /\ GivesUpOnlyAfterAll /\ SendsWhereItWorks

(***************************************************************************)
(* The inductive invariant from which FailoverIsThorough is proved.        *)
(***************************************************************************)
CallType ==
  [pc : {"idle", "send", "done"}, op : {"none", "plan", "implement"}, left : Nat,
   start : Combinations, pos : 1..Size(vendor), attempt : 1..MaxRetries,
   sent : [Combinations -> 0..MaxRetries],
   out : {"none", "ok", "malformed", "uncaught", "request_error", "access_denied", "transient"}]

\* The combinations before the current one have had all their attempts, the
\* ones after it none; the current one has had those before this attempt, or
\* at least one when the call has ended.
AttemptsInOrder ==
  /\ call.pc \in {"send", "done"} =>
       \A p \in 1..Size(vendor) :
         /\ p < call.pos => call.sent[Order(call.start)[p]] = MaxRetries
         /\ p > call.pos => call.sent[Order(call.start)[p]] = 0
  /\ call.pc = "send" => call.sent[Combination] = call.attempt - 1
  /\ call.pc = "done" =>
       /\ call.sent[Combination] >= 1
       /\ call.out = "transient" =>
            call.pos = Size(vendor) /\ call.sent[Combination] = MaxRetries

TrustsPreference ==
  trusted \subseteq {sticky} /\ (call.pc = "send" => trusted \subseteq {Combination})

CallInv ==
  /\ vendor \in Vendors /\ sticky \in Combinations /\ calls \in 0..MaxCalls
  /\ trusted \subseteq Combinations /\ call \in CallType
  /\ AttemptsInOrder /\ TrustsPreference
=============================================================================
