------------------------- MODULE AgentServicesProofs -------------------------
(***************************************************************************)
(* Theorems about what the orchestrator's agents work with, for any number *)
(* of models, regions, retries and calls, any plan and any number of       *)
(* crashes, and any calls, hooks and requests: a call to a model fails     *)
(* over thoroughly, recorded work is committed work, a failed batch leaves *)
(* nothing, and a tool call is held by its hooks, told truly and ended.    *)
(***************************************************************************)
EXTENDS MCAgentServices, FiniteSetTheorems, TLAPS

(***************************************************************************)
(* The calls to the models that the drive loop's agents make (ModelCalls). *)
(***************************************************************************)

\* There is at least one combination.
LEMMA SizePositive ==
  ASSUME M!ModelCallsAssumption, vendor \in Vendors
  PROVE  /\ M!Size(vendor) \in Nat \ {0} /\ MaxRetries \in Nat \ {0} /\ MaxCalls \in Nat \ {0}
         /\ M!Combinations = 0..(M!Size(vendor) - 1)
  <1>1. /\ NModels \in Nat \ {0} /\ NRegions \in Nat \ {0} /\ MaxRetries \in Nat \ {0}
        /\ MaxCalls \in Nat \ {0}
    BY DEF M!ModelCallsAssumption
  <1>2. NModels * NRegions \in Nat \ {0}
    BY <1>1
  <1>. QED BY <1>1, <1>2 DEF M!Size, M!Combinations

\* call_converse_with_retry tries every combination, and each once.
LEMMA OrderIsComplete ==
  ASSUME M!Size(vendor) \in Nat \ {0}, NEW start \in M!Combinations
  PROVE  /\ M!Order(start) \in [1..M!Size(vendor) -> M!Combinations]
         /\ DOMAIN M!Order(start) = 1..M!Size(vendor)
         /\ Len(M!Order(start)) = M!Size(vendor)
         /\ M!Order(start)[1] = start
         /\ \A p, q \in 1..M!Size(vendor) : p # q => M!Order(start)[p] # M!Order(start)[q]
         /\ \A c \in M!Combinations : \E p \in 1..M!Size(vendor) : M!Order(start)[p] = c
  <1>. PICK n \in Nat \ {0} : n = M!Size(vendor)
    OBVIOUS
  <1>. PICK f : f = M!Order(start)
    OBVIOUS
  <1>1. start \in 0..(n - 1) /\ M!Combinations = 0..(n - 1)
    BY DEF M!Combinations
  <1>2. f = [p \in 1..n |-> IF start + p - 1 < n THEN start + p - 1 ELSE start + p - 1 - n]
    BY DEF M!Order
  <1>3. f \in [1..n -> 0..(n - 1)] /\ DOMAIN f = 1..n
    BY <1>1, <1>2
  <1>4. f \in Seq(0..(n - 1)) /\ Len(f) = n
    BY <1>3
  <1>5. f[1] = start
    BY <1>1, <1>2
  <1>6. \A p, q \in 1..n : p # q => f[p] # f[q]
    BY <1>1, <1>2
  <1>7. ASSUME NEW c \in 0..(n - 1) PROVE \E p \in 1..n : f[p] = c
    <2>1. CASE c >= start
      <3>1. c - start + 1 \in 1..n /\ f[c - start + 1] = c
        BY <1>1, <1>2, <2>1
      <3>. QED BY <3>1
    <2>2. CASE c < start
      <3>1. c - start + 1 + n \in 1..n /\ f[c - start + 1 + n] = c
        BY <1>1, <1>2, <2>2
      <3>. QED BY <3>1
    <2>. QED BY <1>1, <2>1, <2>2
  <1>. QED BY <1>1, <1>3, <1>4, <1>5, <1>6, <1>7

\* Between calls.
LEMMA IdleCall ==
  ASSUME M!ModelCallsAssumption, vendor \in Vendors
  PROVE  M!Idle \in M!CallType /\ M!Idle.pc = "idle"
  <1>1. /\ M!Size(vendor) \in Nat \ {0} /\ MaxRetries \in Nat \ {0}
        /\ M!Combinations = 0..(M!Size(vendor) - 1)
    BY SizePositive
  <1>2. 0 \in M!Combinations /\ 1 \in 1..M!Size(vendor) /\ 1 \in 1..MaxRetries
        /\ [c \in M!Combinations |-> 0] \in [M!Combinations -> 0..MaxRetries]
    BY <1>1
  <1>. QED BY <1>2 DEF M!Idle, M!CallType

\* A request starts at the preferred combination, which nobody has tried yet.
LEMMA RequestMade ==
  ASSUME M!ModelCallsAssumption, M!CallInv, NEW o \in {"none", "plan", "implement"}, NEW n \in Nat,
         NEW s \in M!Combinations, ask' = M!Request(o, n, s), sticky' = s,
         trusted' \subseteq {s}, UNCHANGED vendor, calls' \in 0..MaxCalls
  PROVE  M!CallInv'
  <1>. PICK N \in Nat \ {0} : N = M!Size(vendor)
    BY SizePositive DEF M!CallInv
  <1>1. M!Combinations = 0..(N - 1) /\ s % N = s /\ s \in 0..(N - 1)
    BY DEF M!Combinations
  <1>2. /\ M!Combinations' = M!Combinations /\ M!Size(vendor)' = N
        /\ M!CallType' = M!CallType /\ M!Order(s)' = M!Order(s)
    BY DEF M!Combinations, M!CallType, M!Order, M!Size
  <1>3. M!Idle \in M!CallType /\ MaxRetries \in Nat \ {0}
    BY IdleCall, SizePositive DEF M!CallInv
  <1>4. /\ ask' \in M!CallType
        /\ ask'.pc = "send" /\ ask'.start = s /\ ask'.pos = 1 /\ ask'.attempt = 1
        /\ \A c \in M!Combinations : ask'.sent[c] = 0
    <2>1. ask' = [pc |-> "send", op |-> o, left |-> n, start |-> s, pos |-> 1, attempt |-> 1,
                  sent |-> [c \in M!Combinations |-> 0], out |-> "none"]
      BY <1>1 DEF M!Request, M!Idle
    <2>2. /\ 1 \in 1..N /\ 1 \in 1..MaxRetries
          /\ [c \in M!Combinations |-> 0] \in [M!Combinations -> 0..MaxRetries]
      BY <1>3
    <2>. QED BY <2>1, <2>2 DEF M!CallType
  <1>5. /\ M!Order(s)[1] = s
        /\ \A p \in 1..N : M!Order(s)[p] \in M!Combinations
    BY OrderIsComplete
  <1>6. M!Combination' = s
    BY <1>2, <1>4, <1>5 DEF M!Combination
  <1>o. M!Order(ask.start)' = M!Order(s)
    BY <1>4 DEF M!Order, M!Size
  <1>7. M!AttemptsInOrder'
    BY <1>1, <1>2, <1>4, <1>5, <1>6, <1>o DEF M!AttemptsInOrder
  <1>8. M!TrustsPreference'
    BY <1>6 DEF M!TrustsPreference
  <1>. QED BY <1>1, <1>2, <1>4, <1>7, <1>8 DEF M!CallInv

\* An attempt of the current combination has been made.
LEMMA AttemptSent ==
  ASSUME M!ModelCallsAssumption, M!CallInv, ask.pc = "send"
  PROVE  /\ M!Combination \in M!Combinations
         /\ M!Sent \in M!CallType
         /\ M!Sent = [ask EXCEPT !.sent = M!Sent.sent]
         /\ M!Sent.sent[M!Combination] = ask.attempt
         /\ \A p \in 1..M!Size(vendor) :
              /\ p < ask.pos => M!Sent.sent[M!Order(ask.start)[p]] = MaxRetries
              /\ p > ask.pos => M!Sent.sent[M!Order(ask.start)[p]] = 0
  <1>. PICK N \in Nat \ {0} : N = M!Size(vendor)
    BY SizePositive DEF M!CallInv
  <1>1. ask \in M!CallType /\ M!Combinations = 0..(N - 1) /\ MaxRetries \in Nat \ {0}
    BY SizePositive DEF M!CallInv
  <1>2. /\ ask.start \in M!Combinations /\ ask.pos \in 1..N /\ ask.attempt \in 1..MaxRetries
        /\ ask.sent \in [M!Combinations -> 0..MaxRetries]
    BY <1>1 DEF M!CallType
  <1>3. /\ \A p \in 1..N : M!Order(ask.start)[p] \in M!Combinations
        /\ \A p, q \in 1..N : p # q => M!Order(ask.start)[p] # M!Order(ask.start)[q]
    <2>1. PICK s \in M!Combinations : s = ask.start
      BY <1>2
    <2>a. M!Order(s) \in [1..N -> M!Combinations]
      BY OrderIsComplete
    <2>2. \A p \in 1..N : M!Order(s)[p] \in M!Combinations
      BY <2>a
    <2>3. \A p, q \in 1..N : p # q => M!Order(s)[p] # M!Order(s)[q]
      BY OrderIsComplete
    <2>. QED BY <2>1, <2>2, <2>3
  <1>4. PICK c \in M!Combinations : c = M!Combination /\ c = M!Order(ask.start)[ask.pos]
    BY <1>2, <1>3 DEF M!Combination
  <1>5. ask.sent[c] = ask.attempt - 1
    BY <1>4 DEF M!CallInv, M!AttemptsInOrder
  <1>6. PICK f \in [M!Combinations -> 0..MaxRetries] : f = [ask.sent EXCEPT ![c] = @ + 1]
    <2>1. ask.sent[c] + 1 \in 0..MaxRetries
      BY <1>1, <1>2, <1>5
    <2>. QED BY <1>2, <2>1
  <1>7. /\ f[c] = ask.attempt
        /\ \A d \in M!Combinations : d # c => f[d] = ask.sent[d]
    BY <1>2, <1>5, <1>6
  <1>8. M!Sent = [ask EXCEPT !.sent = f]
    BY <1>1, <1>4, <1>6 DEF M!Sent, M!CallType
  <1>9. M!Sent \in M!CallType /\ M!Sent.sent = f
    BY <1>1, <1>8 DEF M!CallType
  <1>10. ASSUME NEW p \in 1..N, p # ask.pos
         PROVE  f[M!Order(ask.start)[p]] = ask.sent[M!Order(ask.start)[p]]
    BY <1>2, <1>3, <1>4, <1>7, <1>10
  <1>11. \A p \in 1..N :
           /\ p < ask.pos => f[M!Order(ask.start)[p]] = MaxRetries
           /\ p > ask.pos => f[M!Order(ask.start)[p]] = 0
    BY <1>2, <1>10 DEF M!CallInv, M!AttemptsInOrder
  <1>. QED BY <1>4, <1>7, <1>8, <1>9, <1>11

\* The call ends with what its last attempt met.
LEMMA CallEnds ==
  ASSUME M!ModelCallsAssumption, M!CallInv, ask.pc = "send",
         NEW out \in {"ok", "malformed", "uncaught", "request_error", "access_denied",
                      "transient"},
         out = "transient" => ask.pos = M!Size(vendor) /\ ask.attempt = MaxRetries,
         ask' = M!Done(M!Sent, out), sticky' \in M!Combinations,
         trusted' \subseteq {sticky'}, UNCHANGED <<vendor, calls>>
  PROVE  M!CallInv'
  <1>1. /\ M!Combinations' = M!Combinations /\ M!Size(vendor)' = M!Size(vendor)
        /\ M!CallType' = M!CallType /\ M!Order(ask.start)' = M!Order(ask'.start)
    BY DEF M!Combinations, M!CallType, M!Order, M!Size
  <1>2. PICK f : f = M!Sent.sent
    OBVIOUS
  <1>3. /\ ask \in M!CallType /\ M!Sent \in M!CallType /\ M!Sent = [ask EXCEPT !.sent = f]
        /\ f[M!Combination] = ask.attempt
        /\ \A p \in 1..M!Size(vendor) :
              /\ p < ask.pos => f[M!Order(ask.start)[p]] = MaxRetries
              /\ p > ask.pos => f[M!Order(ask.start)[p]] = 0
    BY <1>2, AttemptSent DEF M!CallInv
  <1>4. /\ ask' \in M!CallType /\ ask'.pc = "done" /\ ask'.out = out
        /\ ask'.start = ask.start /\ ask'.pos = ask.pos /\ ask'.sent = f
    BY <1>2, <1>3 DEF M!Done, M!CallType
  <1>5. M!Combination' = M!Combination
    BY <1>1, <1>4 DEF M!Combination, M!Order
  <1>6. ask.attempt \in 1..MaxRetries /\ MaxRetries \in Nat
    BY <1>3, SizePositive DEF M!CallType, M!CallInv
  <1>7. M!AttemptsInOrder'
    BY <1>1, <1>3, <1>4, <1>5, <1>6 DEF M!AttemptsInOrder
  <1>8. M!TrustsPreference'
    BY <1>4 DEF M!TrustsPreference
  <1>. QED BY <1>1, <1>4, <1>7, <1>8 DEF M!CallInv

\* What the clients raise.
LEMMA HandleRaises ==
  ASSUME M!ModelCallsAssumption, vendor \in Vendors, NEW reply \in M!Replies, reply # "ok"
  PROVE  M!Handle(reply) \in {"retry", "uncaught", "request_error", "access_denied"}
  <1>1. /\ M!Chat(reply) \in {"retry", "uncaught", "request_error"}
        /\ M!Complete(reply) \in {"retry", "uncaught", "request_error"}
        /\ M!CallTool(reply) \in {"retry", "uncaught", "request_error"}
        /\ M!ConverseInOneRegion(reply) \in {"retry", "request_error", "access_denied"}
    BY DEF M!Chat, M!Complete, M!CallTool, M!ConverseInOneRegion
  <1>2. vendor \in {"bedrock", "anthropic", "openai", "ollama"}
    BY DEF M!ModelCallsAssumption
  <1>. QED BY <1>1, <1>2 DEF M!Handle

\* Whatever a vendor sends back is translated to one of three outcomes.
LEMMA TranslateAnswers ==
  ASSUME M!ModelCallsAssumption, vendor \in Vendors, NEW content \in M!Contents
  PROVE  M!Translate(content) \in {"ok", "malformed", "uncaught"}
  <1>1. vendor \in {"bedrock", "anthropic", "openai", "ollama"}
    BY DEF M!ModelCallsAssumption
  <1>. QED BY <1>1 DEF M!Translate, M!BedrockAnswer, M!AnthropicAnswer, M!OpenAIAnswer,
                       M!OllamaAnswer

\* The same combination again, or the next one.
LEMMA CallContinues ==
  ASSUME M!ModelCallsAssumption, M!CallInv, ask.pc = "send",
         ask.attempt < MaxRetries \/ ask.pos < M!Size(vendor),
         ask' = IF ask.attempt < MaxRetries THEN [M!Sent EXCEPT !.attempt = @ + 1]
                ELSE [M!Sent EXCEPT !.pos = @ + 1, !.attempt = 1],
         trusted' = trusted \ {M!Combination}, UNCHANGED <<vendor, sticky, calls>>
  PROVE  M!CallInv'
  <1>1. /\ M!Combinations' = M!Combinations /\ M!Size(vendor)' = M!Size(vendor)
        /\ M!CallType' = M!CallType
    BY DEF M!Combinations, M!CallType, M!Size
  <1>2. PICK next : next = M!Sent
    OBVIOUS
  <1>3. /\ next \in M!CallType /\ next = [ask EXCEPT !.sent = next.sent] /\ ask \in M!CallType
        /\ next.sent[M!Combination] = ask.attempt
        /\ \A p \in 1..M!Size(vendor) :
              /\ p < ask.pos => next.sent[M!Order(ask.start)[p]] = MaxRetries
              /\ p > ask.pos => next.sent[M!Order(ask.start)[p]] = 0
    BY <1>2, AttemptSent DEF M!CallInv
  <1>4. /\ /\ next.pc = "send" /\ next.start = ask.start
        /\ next.pos = ask.pos /\ next.attempt = ask.attempt
        /\ ask.pos \in 1..M!Size(vendor) /\ ask.attempt \in 1..MaxRetries
    BY <1>3 DEF M!CallType
  <1>5. M!Size(vendor) \in Nat \ {0} /\ MaxRetries \in Nat \ {0}
    BY SizePositive DEF M!CallInv
  <1>6. trusted' = {}
    BY DEF M!CallInv, M!TrustsPreference
  <1>7. M!Order(ask.start)' = M!Order(ask'.start)
    BY DEF M!Order, M!Size
  <1>8. CASE ask.attempt < MaxRetries
    <2>1. PICK n \in 1..MaxRetries : n = ask.attempt + 1
      BY <1>4, <1>5, <1>8
    <2>2. /\ ask' \in M!CallType /\ ask'.pc = "send" /\ ask'.start = ask.start
          /\ ask'.pos = ask.pos /\ ask'.attempt = n /\ ask'.sent = next.sent
      BY <1>2, <1>3, <1>4, <1>8, <2>1 DEF M!CallType
    <2>3. M!Combination' = M!Combination
      BY <1>7, <2>2 DEF M!Combination
    <2>4. M!AttemptsInOrder'
      BY <1>1, <1>3, <1>4, <1>7, <2>1, <2>2, <2>3 DEF M!AttemptsInOrder
    <2>. QED BY <1>1, <1>6, <2>2, <2>4 DEF M!CallInv, M!TrustsPreference
  <1>9. CASE ~(ask.attempt < MaxRetries)
    <2>1. PICK n \in 1..M!Size(vendor) : n = ask.pos + 1
      BY <1>4, <1>5, <1>9
    <2>2. ask.attempt = MaxRetries
      BY <1>4, <1>5, <1>9
    <2>a. ask' = [next EXCEPT !.pos = n, !.attempt = 1]
      BY <1>2, <1>4, <1>9, <2>1
    <2>b. 1 \in 1..MaxRetries
      BY <1>5
    <2>3. /\ ask' \in M!CallType /\ ask'.pc = "send" /\ ask'.start = ask.start
          /\ ask'.pos = n /\ ask'.attempt = 1 /\ ask'.sent = next.sent
      BY <1>3, <1>4, <2>a, <2>b DEF M!CallType
    <2>4. M!Combination' = M!Order(ask.start)[n]
      BY <1>7, <2>3 DEF M!Combination
    <2>5. M!Combination = M!Order(ask.start)[ask.pos]
      BY DEF M!Combination
    <2>6. next.sent[M!Order(ask.start)[n]] = 0
      BY <1>3, <1>4, <1>5, <2>1
    <2>7. ASSUME NEW p \in 1..M!Size(vendor)
          PROVE  /\ p < n => next.sent[M!Order(ask.start)[p]] = MaxRetries
                 /\ p > n => next.sent[M!Order(ask.start)[p]] = 0
      <3>1. p < n => p < ask.pos \/ p = ask.pos
        BY <1>4, <1>5, <2>1
      <3>2. p > n => p > ask.pos
        BY <1>4, <1>5, <2>1
      <3>. QED BY <1>3, <2>2, <2>5, <3>1, <3>2
    <2>8. M!AttemptsInOrder'
      BY <1>1, <1>7, <2>3, <2>4, <2>6, <2>7 DEF M!AttemptsInOrder
    <2>. QED BY <1>1, <1>6, <2>3, <2>8 DEF M!CallInv, M!TrustsPreference
  <1>. QED BY <1>8, <1>9

\* An attempt fails.
LEMMA AttemptFailsStep ==
  ASSUME M!ModelCallsAssumption, M!CallInv, NEW reply \in M!Replies, M!AttemptFails(reply)
  PROVE  M!CallInv'
  <1>1. /\ ask.pc = "send" /\ reply # "ok" /\ UNCHANGED <<vendor, sticky, calls>>
        /\ vendor \in Vendors /\ sticky \in M!Combinations /\ trusted \subseteq {sticky}
        /\ ask.pos \in 1..M!Size(vendor) /\ ask.attempt \in 1..MaxRetries
        /\ M!Size(vendor) \in Nat \ {0} /\ MaxRetries \in Nat
    BY SizePositive DEF M!AttemptFails, M!CallInv, M!TrustsPreference, M!CallType
  <1>2. PICK start \in M!Combinations : start = ask.start
    BY DEF M!CallInv, M!CallType
  <1>3. Len(M!Order(ask.start)) = M!Size(vendor)
    BY <1>1, <1>2, OrderIsComplete
  <1>4. CASE M!Handle(reply) = "retry"
    <2>1. ask' = M!AfterTransient /\ trusted' = trusted \ {M!Combination}
      BY <1>4 DEF M!AttemptFails
    <2>2. CASE ask.attempt < MaxRetries \/ ask.pos < M!Size(vendor)
      BY <1>1, <1>3, <2>1, <2>2, CallContinues DEF M!AfterTransient
    <2>3. CASE ~(ask.attempt < MaxRetries) /\ ~(ask.pos < M!Size(vendor))
      <3>1. ask' = M!Done(M!Sent, "transient")
        BY <1>3, <2>1, <2>3 DEF M!AfterTransient
      <3>2. ask.pos = M!Size(vendor) /\ ask.attempt = MaxRetries
        BY <1>1, <2>3
      <3>3. trusted' \subseteq {sticky'} /\ sticky' \in M!Combinations
        BY <1>1, <2>1
      <3>. QED BY <1>1, <3>1, <3>2, <3>3, CallEnds
    <2>. QED BY <2>2, <2>3
  <1>5. CASE M!Handle(reply) # "retry"
    <2>1. M!Handle(reply) \in {"uncaught", "request_error", "access_denied"}
      BY <1>1, <1>5, HandleRaises
    <2>2. PICK out \in {"uncaught", "request_error", "access_denied"} : out = M!Handle(reply)
      BY <2>1
    <2>3. ask' = M!Done(M!Sent, out) /\ UNCHANGED trusted
      BY <1>5, <2>2 DEF M!AttemptFails
    <2>. QED BY <1>1, <2>2, <2>3, CallEnds
  <1>. QED BY <1>4, <1>5

\* An attempt is answered.
LEMMA AttemptAnsweredStep ==
  ASSUME M!ModelCallsAssumption, M!CallInv, NEW content \in M!Contents,
         M!AttemptAnswered(content)
  PROVE  M!CallInv'
  <1>1. /\ ask.pc = "send" /\ UNCHANGED <<vendor, calls>> /\ vendor \in Vendors
        /\ sticky' = M!Combination /\ trusted' = {M!Combination}
    BY DEF M!AttemptAnswered, M!Preference, M!CallInv
  <1>2. M!Combination \in M!Combinations
    BY <1>1, AttemptSent
  <1>3. CASE M!Translate(content) = "ok" /\ ask.left > 1
    <2>1. ask.left - 1 \in Nat /\ ask.op \in {"none", "plan", "implement"}
      BY <1>3 DEF M!CallInv, M!CallType
    <2>2. PICK n \in Nat, o \in {"none", "plan", "implement"} : n = ask.left - 1 /\ o = ask.op
      BY <2>1
    <2>3. ask' = M!Request(o, n, sticky')
      BY <1>3, <2>2 DEF M!AttemptAnswered
    <2>4. PICK s \in M!Combinations : s = sticky'
      BY <1>1, <1>2
    <2>. QED BY <1>1, <2>3, <2>4, RequestMade DEF M!CallInv
  <1>4. CASE ~(M!Translate(content) = "ok" /\ ask.left > 1)
    <2>1. PICK out \in {"ok", "malformed", "uncaught"} : out = M!Translate(content)
      BY <1>1, TranslateAnswers
    <2>2. ask' = M!Done(M!Sent, out)
      BY <1>4, <2>1 DEF M!AttemptAnswered
    <2>. QED BY <1>1, <1>2, <2>1, <2>2, CallEnds
  <1>. QED BY <1>3, <1>4

\* A step of a backend preserves the invariant.
LEMMA CallNext ==
  ASSUME M!ModelCallsAssumption, M!CallInv, [M!Next]_(M!vars)
  PROVE  M!CallInv'
  <1>1. ASSUME NEW o \in {"plan", "implement"}, NEW n \in 1..MaxBatch, M!Begin(o, n)
        PROVE  M!CallInv'
    <2>1. PICK s \in M!Combinations : s = sticky
      BY DEF M!CallInv
    <2>2. ask' = M!Request(o, n, s) /\ sticky' = s /\ trusted' \subseteq {s} /\ UNCHANGED vendor
      BY <1>1, <2>1 DEF M!Begin, M!CallInv, M!TrustsPreference
    <2>3. MaxBatch \in Nat /\ MaxCalls \in Nat
      BY DEF M!ModelCallsAssumption
    <2>4. calls' \in 0..MaxCalls /\ n \in Nat
      BY <1>1, <2>3 DEF M!Begin, M!CallInv
    <2>. QED BY <2>2, <2>4, RequestMade
  <1>2. CASE M!Return
    <2>1. /\ M!Combinations' = M!Combinations /\ M!CallType' = M!CallType
          /\ M!Idle' = M!Idle
      BY <1>2 DEF M!Return, M!Combinations, M!CallType, M!Size, M!Idle
    <2>2. ask' \in M!CallType /\ ask'.pc = "idle"
      BY <1>2, IdleCall DEF M!Return, M!CallInv
    <2>3. M!AttemptsInOrder' /\ M!TrustsPreference'
      BY <1>2, <2>2 DEF M!Return, M!CallInv, M!AttemptsInOrder, M!TrustsPreference
    <2>. QED BY <1>2, <2>1, <2>2, <2>3 DEF M!Return, M!CallInv
  <1>3. CASE M!Attempt
    BY <1>3, AttemptFailsStep, AttemptAnsweredStep DEF M!Attempt
  <1>4. CASE UNCHANGED M!vars
    BY <1>4 DEF M!vars, M!CallInv, M!CallType, M!AttemptsInOrder, M!TrustsPreference,
                M!Combinations, M!Combination, M!Order, M!Size
  <1>. QED BY <1>1, <1>2, <1>3, <1>4 DEF M!Next

\* The invariant says that failover is thorough.
LEMMA CallInvImpliesThorough ==
  ASSUME M!ModelCallsAssumption, M!CallInv
  PROVE  M!FailoverIsThorough
  <1>. PICK N \in Nat \ {0} : N = M!Size(vendor)
    BY SizePositive DEF M!CallInv
  <1>1. ask \in M!CallType /\ MaxRetries \in Nat \ {0}
    BY SizePositive DEF M!CallInv
  <1>2. /\ ask.pos \in 1..N /\ ask.attempt \in 1..MaxRetries
        /\ ask.sent \in [M!Combinations -> 0..MaxRetries]
    BY <1>1 DEF M!CallType
  <1>3. PICK s \in M!Combinations : s = ask.start
    BY <1>1 DEF M!CallType
  <1>4. /\ M!Order(s) \in [1..N -> M!Combinations] /\ Len(M!Order(s)) = N
    BY OrderIsComplete
  <1>5. \A c \in M!Combinations : \E p \in 1..N : M!Order(s)[p] = c
    BY OrderIsComplete
  <1>6. M!Combination = M!Order(s)[ask.pos] /\ M!Combination \in M!Combinations
    BY <1>2, <1>3, <1>4 DEF M!Combination
  <1>7. ask.pc = "done" => \A p \in 1..N :
          /\ p < ask.pos => ask.sent[M!Order(s)[p]] = MaxRetries
          /\ p > ask.pos => ask.sent[M!Order(s)[p]] = 0
          /\ p = ask.pos => ask.sent[M!Order(s)[p]] \in 1..MaxRetries
    BY <1>1, <1>2, <1>3, <1>6 DEF M!CallInv, M!AttemptsInOrder
  <1>8. ASSUME ask.pc = "done", ask.out = "transient", NEW c \in M!Combinations
        PROVE  ask.sent[c] = MaxRetries
    <2>1. PICK p \in 1..N : M!Order(s)[p] = c
      BY <1>5
    <2>2. ask.pos = N /\ ask.sent[M!Combination] = MaxRetries
      BY <1>8 DEF M!CallInv, M!AttemptsInOrder
    <2>. QED BY <1>6, <1>7, <1>8, <2>1, <2>2
  <1>9. M!GivesUpOnlyAfterAll
    BY <1>3, <1>4, <1>7, <1>8 DEF M!GivesUpOnlyAfterAll
  <1>. QED BY <1>1, <1>2, <1>9 DEF M!CallInv, M!TrustsPreference, M!FailoverIsThorough,
                                   M!TypeOK, M!SendsWhereItWorks

\* call_converse_with_retry and the HTTP vendors' loops, for any number of
\* models, regions, retries and calls and whatever the services reply: a call
\* gives up with a transient error only after every combination has had all
\* its attempts, never passes one over, and keeps to the combination that
\* answered last until it fails.
THEOREM FailoverThorough == M!Spec => []FailoverIsThorough
  <1>. M!ModelCallsAssumption
    BY AgentServicesAssumption
  <1>1. M!Init => M!CallInv
    <2>. SUFFICES ASSUME M!Init PROVE M!CallInv
      OBVIOUS
    <2>1. vendor \in Vendors /\ ask \in M!CallType /\ ask.pc = "idle"
      BY IdleCall DEF M!Init
    <2>2. 0 \in M!Combinations /\ 0 \in 0..MaxCalls
      BY <2>1, SizePositive
    <2>. QED BY <2>1, <2>2 DEF M!Init, M!CallInv, M!AttemptsInOrder, M!TrustsPreference
  <1>2. M!CallInv /\ [M!Next]_(M!vars) => M!CallInv'
    BY CallNext
  <1>3. M!CallInv => FailoverIsThorough
    BY CallInvImpliesThorough DEF FailoverIsThorough
  <1>. QED BY <1>1, <1>2, <1>3, PTL DEF M!Spec

(***************************************************************************)
(* The tool-using backend on its worktrees (ToolUse).                      *)
(***************************************************************************)

\* Files of more edits are more files.
LEMMA FilesGrow ==
  ASSUME NEW A, NEW B
  PROVE  /\ A \subseteq B => FilesOf(A) \subseteq FilesOf(B)
         /\ FilesOf(A \cup B) = FilesOf(A) \cup FilesOf(B)
         /\ FilesOf({}) = {}
  BY DEF FilesOf

\* The plan orders its subtasks: of two, not each is before the other.
LEMMA BeforeAsymmetric ==
  ASSUME ToolUseAssumption, NEW t, NEW u
  PROVE  ~(Before(t, u) /\ Before(u, t))
  <1>. SUFFICES ASSUME Before(t, u), Before(u, t) PROVE FALSE
    OBVIOUS
  <1>1. DOMAIN Plan \subseteq Nat \ {0}
    BY DEF ToolUseAssumption
  <1>2. PICK i \in DOMAIN Plan : Plan[i] = t /\ \A j \in 1..i : Plan[j] # u
    BY DEF Before
  <1>3. PICK k \in DOMAIN Plan : Plan[k] = u /\ \A j \in 1..k : Plan[j] # t
    BY DEF Before
  <1>4. i \in Nat \ {0} /\ k \in Nat \ {0}
    BY <1>1
  <1>5. i \in 1..k \/ k \in 1..i
    BY <1>4
  <1>. QED BY <1>2, <1>3, <1>5

\* What core.py dispatches next depends on its record alone.
LEMMA OneNextBatch ==
  ASSUME ToolUseAssumption, NEW A \in NextBatches, NEW B \in NextBatches
  PROVE  A = B
  <1>1. ASSUME NEW t \in Earliest(ReadySubtasks), NEW u \in Earliest(ReadySubtasks)
        PROVE  t = u
    BY BeforeAsymmetric, <1>1 DEF Earliest
  <1>. QED BY <1>1 DEF NextBatches

\* A batch has a subtask, and none that is completed.
LEMMA NextBatchShape ==
  ASSUME NEW B \in NextBatches, "fixup" \notin done
  PROVE  B \subseteq Tasks /\ B # {} /\ B \cap done = {}
  <1>1. CASE ReadySubtasks = {}
    BY <1>1 DEF NextBatches, Tasks
  <1>2. CASE ReadySubtasks # {}
    <2>1. PICK first \in ReadySubtasks : B = ReadySubtaskBatch(first)
      BY <1>2 DEF NextBatches, Earliest
    <2>2. ReadySubtasks \subseteq Tasks /\ ReadySubtasks \cap done = {}
      BY DEF ReadySubtasks, Tasks
    <2>3. first \in B /\ B \subseteq ReadySubtasks
      BY <2>1 DEF ReadySubtaskBatch
    <2>. QED BY <2>2, <2>3
  <1>. QED BY <1>1, <1>2

\* While the record stays, so does the choice.
LEMMA SameNextBatches ==
  ASSUME UNCHANGED done
  PROVE  NextBatches' = NextBatches
  BY DEF NextBatches, ReadySubtasks, ReadySubtaskBatch

\* Main is no worktree of a batch.
LEMMA WorktreeNotMain ==
  ASSUME NEW t, NEW n \in Nat, n > 0
  PROVE  <<t, n>> # Main
  BY DEF Main

\* Whose loop may take a step: a subtask of a batch, alone or in a worktree.
LEMMA AtWork ==
  ASSUME LoopInv, NEW t \in Tasks, worker[t].pc \in {"create", "turn", "commit"}
  PROVE  /\ t \in op.batch /\ t \notin done
         /\ \/ /\ op.stage = "alone" /\ AloneOK /\ op.batch = {t} /\ worker[t].tree = Main
               /\ worker[t].pc # "create"
            \/ op.stage = "parallel" /\ ParallelOK
  <1>1. worker[t] # Rest
    BY DEF Rest
  <1>2. t \in op.batch
    BY <1>1 DEF LoopInv, LoopTypeOK
  <1>3. op.stage # "idle"
    BY <1>2 DEF LoopInv, BatchOK, NoOp
  <1>4. op.stage \notin {"save", "raise", "remove"}
    BY <1>3 DEF LoopInv, BatchOK, StageOK, RemoveOK, Running
  <1>5. op.stage # "merge"
    BY <1>2 DEF LoopInv, StageOK, MergeOK
  <1>6. op.stage \in {"alone", "parallel"}
    BY <1>3, <1>4, <1>5 DEF LoopInv, LoopTypeOK
  <1>7. t \notin done
    BY <1>2, <1>3 DEF LoopInv, BatchOK
  <1>8. CASE op.stage = "alone"
    <2>1. op.batch = {t}
      BY <1>2, <1>8 DEF LoopInv, BatchOK, IsAlone
    <2>. QED BY <1>2, <1>7, <1>8, <2>1 DEF LoopInv, StageOK, AloneOK
  <1>. QED BY <1>2, <1>6, <1>7, <1>8 DEF LoopInv, StageOK

\* One loop takes a step in its tree, the others and the call stay as they are.
LoopMoves(t, w, x, edits) ==
  /\ worker' = [worker EXCEPT ![t] = w]
  /\ trees' = [trees EXCEPT ![worker[t].tree] = x]
  /\ made' = [made EXCEPT ![t] = edits]
  /\ UNCHANGED <<op, done, touched, batches, leaky, cut>>

\* A step of the loop of t keeps what the invariant says of everything else.
LEMMA LoopMovesKeep ==
  ASSUME ToolUseAssumption, LoopInv, NEW t \in Tasks, NEW w, NEW x, NEW edits,
         LoopMoves(t, w, x, edits), worker[t].pc \in {"turn", "commit"},
         IsWorker(w), w.tree = worker[t].tree, w.base = worker[t].base,
         w.pc \in {"turn", "commit", "ok", "failed"},
         IsTree(x), trees[worker[t].tree].head \subseteq x.head,
         worker[t].tree = Main => x.merging = "no" /\ x.marked = "no",
         WorkOK(w, x, edits, op.before)
  PROVE  LoopInv'
  <1>1. /\ t \in op.batch /\ t \notin done
        /\ \/ /\ op.stage = "alone" /\ AloneOK /\ op.batch = {t} /\ worker[t].tree = Main
           \/ op.stage = "parallel" /\ ParallelOK
    BY AtWork
  <1>2. PICK tr : tr = worker[t].tree
    OBVIOUS
  <1>3. tr \in DOMAIN trees /\ Main \in DOMAIN trees
    BY <1>1, <1>2 DEF LoopInv, LoopTypeOK, ParallelOK, InWorktree
  <1>4. /\ worker'[t] = w /\ \A u \in Tasks \ {t} : worker'[u] = worker[u]
        /\ worker' = [u \in Tasks |-> worker'[u]]
    BY DEF LoopMoves, LoopInv, LoopTypeOK
  <1>5. /\ made'[t] = edits /\ \A u \in Tasks \ {t} : made'[u] = made[u]
        /\ made' = [u \in Tasks |-> made'[u]]
    BY DEF LoopMoves, LoopInv, LoopTypeOK
  <1>6. /\ DOMAIN trees' = DOMAIN trees /\ trees'[tr] = x
        /\ \A i \in DOMAIN trees \ {tr} : trees'[i] = trees[i]
        /\ trees' = [i \in DOMAIN trees' |-> trees'[i]]
    BY <1>2, <1>3 DEF LoopMoves, LoopInv, LoopTypeOK
  <1>7. op.batch \subseteq Tasks /\ op.stage \in {"alone", "parallel"}
    BY <1>1 DEF LoopInv, BatchOK
  <1>8. UNCHANGED <<op, done, touched, batches, leaky, cut>>
    BY DEF LoopMoves
  <1>9. CASE op.stage = "alone"
    <2>1. tr = Main /\ op.batch = {t} /\ AloneOK
      BY <1>1, <1>2, <1>9
    <2>2. trees'[Main] = x /\ x.merging = "no" /\ x.marked = "no"
      BY <1>2, <1>6, <2>1 DEF AloneOK
    <2>3. LoopTypeOK'
      BY <1>3, <1>4, <1>5, <1>6, <1>8, <2>1, <2>2 DEF LoopInv, LoopTypeOK
    <2>4. AloneOK'
      BY <1>2, <1>4, <1>5, <1>8, <2>1, <2>2 DEF AloneOK
    <2>5. RecordOK'
      BY <1>1, <1>2, <1>5, <1>8, <1>9, <2>1, <2>2 DEF LoopInv, LoopTypeOK, RecordOK
    <2>6. BatchOK' /\ ConflictOK'
      BY <1>8, <1>9, <2>2, SameNextBatches DEF LoopInv, BatchOK, ConflictOK, IsAlone
    <2>7. TreesOK'
      BY <1>6, <1>8, <1>9 DEF LoopInv, TreesOK
    <2>. QED BY <1>8, <1>9, <2>3, <2>4, <2>5, <2>6, <2>7 DEF LoopInv, StageOK
  <1>10. CASE op.stage = "parallel"
    <2>1. ParallelOK /\ InWorktree(t) /\ tr = <<t, batches>> /\ batches \in Nat /\ batches > 0
      BY <1>1, <1>2, <1>10 DEF LoopInv, LoopTypeOK, BatchOK, ParallelOK, InWorktree
    <2>2. tr # Main
      BY <2>1, WorktreeNotMain
    <2>3. trees'[Main] = trees[Main]
      BY <1>3, <1>6, <2>2
    <2>4. LoopTypeOK'
      BY <1>1, <1>3, <1>4, <1>5, <1>6, <1>8, <2>3 DEF LoopInv, LoopTypeOK
    <2>5. InWorktree(t)'
      BY <1>2, <1>3, <1>4, <1>5, <1>6, <1>8, <2>1 DEF InWorktree
    <2>6. ASSUME NEW u \in op.batch, u # t, InWorktree(u) PROVE InWorktree(u)'
      <3>1. worker[u].tree # tr /\ worker[u].tree \in DOMAIN trees
        BY <2>1, <2>6 DEF InWorktree
      <3>. QED BY <1>4, <1>5, <1>6, <1>7, <1>8, <2>6, <3>1 DEF InWorktree
    <2>7. ParallelOK'
      BY <1>4, <1>5, <1>7, <1>8, <2>1, <2>3, <2>5, <2>6 DEF ParallelOK
    <2>8. RecordOK' /\ ConflictOK'
      BY <1>1, <1>5, <1>8, <1>10, <2>3, SameNextBatches
         DEF LoopInv, LoopTypeOK, RecordOK, ConflictOK, IsAlone
    <2>9. BatchOK'
      BY <1>8, <1>10, SameNextBatches DEF LoopInv, BatchOK, IsAlone
    <2>10. BatchTrees' = BatchTrees
      BY <1>2, <1>4, <1>7, <1>8 DEF BatchTrees
    <2>11. TreesOK'
      BY <1>6, <1>8, <1>10, <2>10 DEF LoopInv, TreesOK
    <2>. QED BY <1>8, <1>10, <2>4, <2>7, <2>8, <2>9, <2>11 DEF LoopInv, StageOK
  <1>. QED BY <1>7, <1>9, <1>10

\* The tree of a loop at work.
LEMMA TreeAtWork ==
  ASSUME LoopInv, NEW t \in Tasks, worker[t].pc \in {"turn", "commit"}
  PROVE  /\ IsWorker(worker[t]) /\ IsTree(trees[worker[t].tree])
         /\ worker[t].tree \in DOMAIN trees
         /\ WorkOK(worker[t], trees[worker[t].tree], made[t], op.before)
         /\ worker[t].tree = Main =>
              trees[Main].merging = "no" /\ trees[Main].marked = "no"
  <1>1. CASE op.stage = "alone"
    BY <1>1, AtWork DEF LoopInv, LoopTypeOK, AloneOK, ConflictOK
  <1>2. CASE op.stage = "parallel"
    <2>1. InWorktree(t) /\ batches \in Nat /\ batches > 0
      BY <1>2, AtWork DEF ParallelOK, LoopInv, LoopTypeOK, BatchOK
    <2>2. worker[t].tree # Main
      BY <2>1, WorktreeNotMain DEF InWorktree
    <2>. QED BY <2>1, <2>2 DEF LoopInv, LoopTypeOK, InWorktree
  <1>. QED BY <1>1, <1>2, AtWork

\* implement_subtask: a turn, in which the model's tools may edit the tree.
LEMMA TurnKeeps ==
  ASSUME ToolUseAssumption, LoopInv, NEW t \in Tasks, NEW edits, NEW finish \in BOOLEAN,
         Turn(t, edits, finish)
  PROVE  LoopInv'
  <1>1. PICK w : w = IF finish THEN [worker[t] EXCEPT !.pc = "commit", !.turn = 0]
                     ELSE NextTurn(worker[t])
    OBVIOUS
  <1>2. PICK x : x = Edited(trees[worker[t].tree], edits)
    OBVIOUS
  <1>3. PICK m : m = made[t] \cup edits
    OBVIOUS
  <1>4. worker[t].pc = "turn"
    BY DEF Turn
  <1>5. /\ IsWorker(w) /\ w.tree = worker[t].tree /\ w.base = worker[t].base
        /\ w.pc \in {"turn", "commit", "failed"}
    <2>1. PICK v : v = worker[t]
      OBVIOUS
    <2>2. IsWorker(v)
      BY <1>4, <2>1, TreeAtWork
    <2>3. v = [pc |-> v.pc, tree |-> v.tree, turn |-> v.turn, files |-> v.files,
               base |-> v.base]
      BY <2>2 DEF IsWorker
    <2>. QED BY <1>1, <1>4, <2>1, <2>3 DEF IsWorker, NextTurn
  <1>6. /\ IsTree(x) /\ x.head = trees[worker[t].tree].head
        /\ x.dirty = trees[worker[t].tree].dirty \cup edits
        /\ worker[t].tree = Main => x.merging = "no" /\ x.marked = "no"
    <2>1. PICK y : y = trees[worker[t].tree]
      OBVIOUS
    <2>2. IsTree(y) /\ (worker[t].tree = Main => y.merging = "no" /\ y.marked = "no")
      BY <1>4, <2>1, TreeAtWork
    <2>. QED BY <1>2, <2>1, <2>2 DEF IsTree, Edited
  <1>7. WorkOK(w, x, m, op.before)
    BY <1>3, <1>4, <1>5, <1>6, TreeAtWork DEF WorkOK
  <1>8. LoopMoves(t, w, x, m)
    BY <1>1, <1>2, <1>3, <1>4, TreeAtWork DEF Turn, SetWorker, LoopMoves, LoopInv, LoopTypeOK
  <1>. QED BY <1>4, <1>5, <1>6, <1>7, <1>8, LoopMovesKeep

\* The loop fails: its tree keeps the edits.
LEMMA TurnRaisesKeeps ==
  ASSUME ToolUseAssumption, LoopInv, NEW t \in Tasks, TurnRaises(t)
  PROVE  LoopInv'
  <1>1. PICK w : w = [worker[t] EXCEPT !.pc = "failed", !.turn = 0]
    OBVIOUS
  <1>2. PICK x : x = trees[worker[t].tree]
    OBVIOUS
  <1>3. worker[t].pc = "turn"
    BY DEF TurnRaises
  <1>4. /\ IsWorker(w) /\ w.tree = worker[t].tree /\ w.base = worker[t].base
        /\ w.pc = "failed"
    <2>1. PICK v : v = worker[t]
      OBVIOUS
    <2>2. IsWorker(v)
      BY <1>3, <2>1, TreeAtWork
    <2>. QED BY <1>1, <2>1, <2>2 DEF IsWorker
  <1>5. /\ IsTree(x) /\ x.head = trees[worker[t].tree].head
        /\ worker[t].tree = Main => x.merging = "no" /\ x.marked = "no"
    BY <1>2, <1>3, TreeAtWork
  <1>6. WorkOK(w, x, made[t], op.before)
    BY <1>3, <1>4, <1>5, TreeAtWork DEF WorkOK
  <1>7. LoopMoves(t, w, x, made[t])
    BY <1>1, <1>2, <1>3, TreeAtWork DEF TurnRaises, SetWorker, LoopMoves, LoopInv, LoopTypeOK
  <1>. QED BY <1>3, <1>4, <1>5, <1>6, <1>7, LoopMovesKeep

\* The statistics and the commit after finish, or git's refusal.
LEMMA FinishSubtaskKeeps ==
  ASSUME ToolUseAssumption, LoopInv, NEW t \in Tasks, NEW refused \in BOOLEAN,
         FinishSubtask(t, refused)
  PROVE  LoopInv'
  <1>1. PICK y : y = trees[worker[t].tree]
    OBVIOUS
  <1>2. worker[t].pc = "commit"
    BY DEF FinishSubtask
  <1>3. CASE refused
    <2>1. PICK w : w = [worker[t] EXCEPT !.pc = "failed"]
      OBVIOUS
    <2>2. /\ IsWorker(w) /\ w.tree = worker[t].tree /\ w.base = worker[t].base
          /\ w.pc = "failed"
      <3>1. PICK v : v = worker[t]
        OBVIOUS
      <3>2. IsWorker(v)
        BY <1>2, <3>1, TreeAtWork
      <3>. QED BY <2>1, <3>1, <3>2 DEF IsWorker
    <2>3. WorkOK(w, y, made[t], op.before)
      BY <1>1, <1>2, <2>2, TreeAtWork DEF WorkOK
    <2>4. LoopMoves(t, w, y, made[t])
      BY <1>1, <1>2, <1>3, <2>1, TreeAtWork
         DEF FinishSubtask, SetWorker, LoopMoves, LoopInv, LoopTypeOK
    <2>. QED BY <1>1, <1>2, <2>2, <2>3, <2>4, TreeAtWork, LoopMovesKeep
  <1>4. CASE ~refused
    <2>1. PICK w : w = [worker[t] EXCEPT !.pc = "ok", !.files = DiffStats(y)]
      OBVIOUS
    <2>2. PICK x : x = Committed(y)
      OBVIOUS
    <2>3. /\ IsWorker(w) /\ w.tree = worker[t].tree /\ w.base = worker[t].base
          /\ w.pc = "ok" /\ w.files = FilesOf(y.dirty)
      <3>1. PICK v : v = worker[t]
        OBVIOUS
      <3>2. IsWorker(v)
        BY <1>2, <3>1, TreeAtWork
      <3>. QED BY <2>1, <3>1, <3>2 DEF IsWorker, DiffStats
    <2>4. /\ IsTree(x) /\ x.head = y.head \cup y.dirty
          /\ worker[t].tree = Main => x.merging = "no" /\ x.marked = "no"
      <3>1. IsTree(y) /\ (worker[t].tree = Main => y.merging = "no" /\ y.marked = "no")
        BY <1>1, <1>2, TreeAtWork
      <3>. QED BY <2>2, <3>1 DEF IsTree, Committed
    <2>5. y.head = op.before /\ made[t] \subseteq y.head \cup y.dirty
      BY <1>1, <1>2, TreeAtWork DEF WorkOK
    <2>6. FilesOf(x.head \ op.before) \subseteq FilesOf(y.dirty)
      <3>1. x.head \ op.before \subseteq y.dirty
        BY <2>4, <2>5
      <3>. QED BY <3>1, FilesGrow
    <2>7. WorkOK(w, x, made[t], op.before)
      BY <2>3, <2>4, <2>5, <2>6 DEF WorkOK
    <2>8. LoopMoves(t, w, x, made[t])
      BY <1>1, <1>2, <1>4, <2>1, <2>2, TreeAtWork
         DEF FinishSubtask, SetWorker, LoopMoves, LoopInv, LoopTypeOK
    <2>. QED BY <1>1, <1>2, <2>3, <2>4, <2>7, <2>8, LoopMovesKeep
  <1>. QED BY <1>3, <1>4

\* git refuses to create a worktree.
LEMMA CreationRefusedKeeps ==
  ASSUME ToolUseAssumption, LoopInv, NEW t \in Tasks, CreationRefused(t)
  PROVE  LoopInv'
  <1>1. worker[t].pc = "create" /\ UNCHANGED <<op, done, touched, batches, made, cut>>
    BY DEF CreationRefused
  <1>2. /\ t \in op.batch /\ t \notin done /\ op.stage = "parallel" /\ ParallelOK
        /\ op.batch \subseteq Tasks
    BY <1>1, AtWork DEF LoopInv, BatchOK
  <1>3. worker[t].tree = Main /\ made[t] = {} /\ batches \in Nat /\ batches > 0
    BY <1>1, <1>2 DEF ParallelOK, LoopInv, LoopTypeOK, BatchOK
  <1>4. BatchOK'
    BY <1>1, <1>2, SameNextBatches DEF LoopInv, BatchOK, IsAlone
  <1>5. PICK w : w = [Rest EXCEPT !.pc = "uncreated"]
    OBVIOUS
  <1>6. IsWorker(w) /\ w.pc = "uncreated" /\ w.tree = Main
    BY <1>5 DEF Rest, IsWorker
  <1>7. /\ worker'[t] = w /\ \A u \in Tasks \ {t} : worker'[u] = worker[u]
        /\ worker' = [u \in Tasks |-> worker'[u]] /\ UNCHANGED trees /\ leaky' = TRUE
    BY <1>5 DEF CreationRefused, SetWorker, LoopInv, LoopTypeOK
  <1>8. LoopTypeOK'
    BY <1>1, <1>2, <1>6, <1>7 DEF LoopInv, LoopTypeOK
  <1>9. ASSUME NEW u \in op.batch, u # t, InWorktree(u) PROVE InWorktree(u)'
    BY <1>1, <1>2, <1>7, <1>9 DEF InWorktree
  <1>10. ParallelOK'
    BY <1>1, <1>2, <1>6, <1>7, <1>9 DEF ParallelOK
  <1>11. RecordOK' /\ ConflictOK' /\ TreesOK'
    BY <1>1, <1>7, SameNextBatches DEF LoopInv, RecordOK, ConflictOK, TreesOK, IsAlone
  <1>. QED BY <1>1, <1>2, <1>4, <1>8, <1>10, <1>11 DEF LoopInv, StageOK

\* create_agent_worktree.
LEMMA CreateAgentWorktreeKeeps ==
  ASSUME ToolUseAssumption, LoopInv, NEW t \in Tasks, CreateAgentWorktree(t)
  PROVE  LoopInv'
  <1>1. worker[t].pc = "create" /\ UNCHANGED <<op, done, touched, batches, made, cut>>
    BY DEF CreateAgentWorktree
  <1>2. /\ t \in op.batch /\ t \notin done /\ op.stage = "parallel" /\ ParallelOK
        /\ op.batch \subseteq Tasks
    BY <1>1, AtWork DEF LoopInv, BatchOK
  <1>3. worker[t].tree = Main /\ made[t] = {} /\ batches \in Nat /\ batches > 0
    BY <1>1, <1>2 DEF ParallelOK, LoopInv, LoopTypeOK, BatchOK
  <1>4. BatchOK'
    BY <1>1, <1>2, SameNextBatches DEF LoopInv, BatchOK, IsAlone
  <1>5. PICK id : id = <<t, batches>>
    OBVIOUS
  <1>6. PICK x : x = [trees[Main] EXCEPT !.dirty = {}, !.merging = "no"]
    OBVIOUS
  <1>7. PICK w : w = [Rest EXCEPT !.pc = "turn", !.tree = id, !.base = trees[Main].head]
    OBVIOUS
  <1>8. Main \in DOMAIN trees /\ IsTree(trees[Main]) /\ trees[Main].head = op.before
    BY <1>2 DEF LoopInv, LoopTypeOK, ParallelOK
  <1>9. IsTree(x) /\ x.head = op.before
    BY <1>6, <1>8 DEF IsTree
  <1>10. IsWorker(w) /\ w.pc = "turn" /\ w.tree = id /\ w.base = op.before
    BY <1>7, <1>8 DEF Rest, IsWorker
  <1>11. id # Main
    BY <1>3, <1>5, WorktreeNotMain
  <1>12. /\ worker'[t] = w /\ \A u \in Tasks \ {t} : worker'[u] = worker[u]
        /\ worker' = [u \in Tasks |-> worker'[u]] /\ UNCHANGED leaky
    BY <1>5, <1>7 DEF CreateAgentWorktree, SetWorker, LoopInv, LoopTypeOK
  <1>13. trees' = [i \in DOMAIN trees \cup {id} |-> IF i = id THEN x ELSE trees[i]]
    BY <1>5, <1>6 DEF CreateAgentWorktree, Register
  <1>14. /\ DOMAIN trees' = DOMAIN trees \cup {id} /\ trees'[id] = x
         /\ \A i \in DOMAIN trees \ {id} : trees'[i] = trees[i]
         /\ trees' = [i \in DOMAIN trees' |-> trees'[i]] /\ trees'[Main] = trees[Main]
    BY <1>8, <1>11, <1>13
  <1>15. LoopTypeOK'
    BY <1>1, <1>2, <1>8, <1>9, <1>10, <1>12, <1>14 DEF LoopInv, LoopTypeOK
  <1>16. ASSUME NEW u \in op.batch, u # t, InWorktree(u) PROVE InWorktree(u)'
    <2>1. worker[u].tree # id /\ worker[u].tree \in DOMAIN trees
      BY <1>5, <1>16 DEF InWorktree
    <2>. QED BY <1>1, <1>2, <1>12, <1>14, <1>16, <2>1 DEF InWorktree
  <1>17. InWorktree(t)'
    BY <1>1, <1>3, <1>5, <1>9, <1>10, <1>12, <1>14 DEF InWorktree, WorkOK
  <1>18. ParallelOK'
    BY <1>1, <1>2, <1>10, <1>12, <1>14, <1>16, <1>17 DEF ParallelOK
  <1>19. RecordOK' /\ ConflictOK'
    BY <1>1, <1>14, SameNextBatches DEF LoopInv, RecordOK, ConflictOK, IsAlone
  <1>20. BatchTrees' = BatchTrees \cup {id}
    <2>1. \A u \in op.batch \ {t} : worker'[u].tree = worker[u].tree
      BY <1>2, <1>12
    <2>. QED BY <1>1, <1>2, <1>3, <1>10, <1>11, <1>12, <2>1 DEF BatchTrees
  <1>21. TreesOK'
    BY <1>1, <1>2, <1>12, <1>14, <1>20 DEF LoopInv, TreesOK
  <1>. QED BY <1>1, <1>2, <1>4, <1>15, <1>18, <1>19, <1>21 DEF LoopInv, StageOK

\* _implementation_step dispatches a batch.
LEMMA ImplementationStepKeeps ==
  ASSUME ToolUseAssumption, LoopInv, ImplementationStep
  PROVE  LoopInv'
  <1>1. PICK batch \in NextBatches : Start(batch)
    BY DEF ImplementationStep
  <1>2. op.stage = "idle" /\ UNCHANGED <<trees, done, touched, leaky, cut>>
    BY DEF ImplementationStep
  <1>3. batch \subseteq Tasks /\ batch # {} /\ batch \cap done = {}
    BY <1>1, NextBatchShape DEF LoopInv, LoopTypeOK
  <1>4. PICK st : st = IF IsAlone(batch) THEN "alone" ELSE "parallel"
    OBVIOUS
  <1>5. op' = [stage |-> st, batch |-> batch, todo |-> batch, before |-> trees[Main].head,
               dirt |-> trees[Main].dirty, files |-> {}, then |-> "none"]
    BY <1>1, <1>4 DEF Start, NoOp
  <1>6. PICK pc : pc = IF IsAlone(batch) THEN "turn" ELSE "create"
    OBVIOUS
  <1>7. PICK w : w = [Rest EXCEPT !.pc = pc]
    OBVIOUS
  <1>8. IsWorker(w) /\ w.pc = pc /\ w.tree = Main /\ IsWorker(Rest) /\ Rest.tree = Main
    BY <1>6, <1>7 DEF IsWorker, Rest
  <1>9. /\ worker' = [t \in Tasks |-> IF t \in batch THEN w ELSE Rest]
        /\ made' = [t \in Tasks |-> IF t \in batch THEN {} ELSE made[t]]
        /\ batches' = batches + 1 /\ batches \in Nat
    BY <1>1, <1>6, <1>7 DEF Start, LoopInv, LoopTypeOK
  <1>10. LoopTypeOK'
    BY <1>2, <1>3, <1>4, <1>5, <1>8, <1>9 DEF LoopInv, LoopTypeOK
  <1>11. BatchOK'
    <2>1. batch \in NextBatches'
      BY <1>1, <1>2, SameNextBatches
    <2>. QED BY <1>2, <1>3, <1>4, <1>5, <1>9, <2>1 DEF BatchOK
  <1>12. ConflictOK'
    BY <1>2, SameNextBatches DEF LoopInv, ConflictOK, IsAlone
  <1>13. RecordOK'
    BY <1>2, <1>3, <1>4, <1>5, <1>9 DEF LoopInv, LoopTypeOK, RecordOK
  <1>14. TreesOK'
    BY <1>2, <1>4, <1>5, <1>3, <1>8, <1>9 DEF LoopInv, TreesOK, BatchTrees
  <1>15. CASE IsAlone(batch)
    <2>1. trees[Main].merging = "no"
      BY <1>1, <1>15 DEF LoopInv, ConflictOK, LoopTypeOK
    <2>2. AloneOK'
      BY <1>2, <1>3, <1>5, <1>6, <1>8, <1>9, <1>15, <2>1 DEF AloneOK, WorkOK
    <2>. QED BY <1>4, <1>5, <1>10, <1>11, <1>12, <1>13, <1>14, <1>15, <2>2 DEF LoopInv, StageOK
  <1>16. CASE ~IsAlone(batch)
    <2>1. ParallelOK'
      BY <1>2, <1>3, <1>5, <1>6, <1>8, <1>9, <1>16 DEF ParallelOK
    <2>. QED BY <1>4, <1>5, <1>10, <1>11, <1>12, <1>13, <1>14, <1>16, <2>1 DEF LoopInv, StageOK
  <1>. QED BY <1>15, <1>16

\* The call moves to another stage; the loops and the record stay.
CallMoves(o) ==
  /\ op' = o /\ o = [stage |-> o.stage, batch |-> op.batch, todo |-> o.todo,
                     before |-> op.before, dirt |-> op.dirt, files |-> o.files, then |-> o.then]
  /\ o.stage \in {"merge", "remove", "save", "raise"} /\ leaky' \in {leaky, TRUE}
  /\ UNCHANGED <<worker, done, touched, batches, made>>

\* The batch under way is still the one core.py would dispatch.
LEMMA CallMovesKeep ==
  ASSUME LoopInv, NEW o, CallMoves(o), op.stage \notin {"idle"},
         o.stage \in {"merge", "remove"} => op.stage \in {"parallel", "merge", "remove"},
         o.stage \in {"save", "raise"} => Running = {}
  PROVE  BatchOK'
  <1>1. op.batch \in NextBatches'
    BY SameNextBatches DEF CallMoves, LoopInv, BatchOK
  <1>2. o.stage # "idle" /\ o.batch = op.batch
    BY DEF CallMoves
  <1>3. Running' = Running
    BY DEF CallMoves, Running
  <1>. QED BY <1>1, <1>2, <1>3 DEF CallMoves, LoopInv, BatchOK, IsAlone

\* implement_subtask of a lone subtask returns or raises.
LEMMA ReturnAloneKeeps ==
  ASSUME ToolUseAssumption, LoopInv, ReturnAlone
  PROVE  LoopInv'
  <1>1. PICK t \in op.batch :
          /\ worker[t].pc \in {"ok", "failed"}
          /\ op' = [op EXCEPT !.stage = IF worker[t].pc = "ok" THEN "save" ELSE "raise",
                              !.files = worker[t].files]
    BY DEF ReturnAlone
  <1>2. /\ op.stage = "alone"
        /\ UNCHANGED <<trees, worker, done, touched, batches, made, leaky, cut>>
    BY DEF ReturnAlone
  <1>3. op.batch = {t} /\ AloneOK /\ t \in Tasks
    BY <1>1, <1>2 DEF LoopInv, BatchOK, StageOK, IsAlone
  <1>4. PICK o : o = op'
    OBVIOUS
  <1>5. /\ o = [stage |-> o.stage, batch |-> op.batch, todo |-> o.todo,
                before |-> op.before, dirt |-> op.dirt, files |-> o.files, then |-> o.then]
        /\ o.stage = IF worker[t].pc = "ok" THEN "save" ELSE "raise"
        /\ o.files = worker[t].files
    <2>1. PICK p : p = op
      OBVIOUS
    <2>2. p = [stage |-> p.stage, batch |-> p.batch, todo |-> p.todo, before |-> p.before,
               dirt |-> p.dirt, files |-> p.files, then |-> p.then]
      BY <2>1 DEF LoopInv, LoopTypeOK
    <2>. QED BY <1>1, <1>4, <2>1, <2>2
  <1>6. CallMoves(o)
    BY <1>1, <1>2, <1>4, <1>5 DEF CallMoves
  <1>7. Running = {}
    BY <1>1, <1>3 DEF LoopInv, LoopTypeOK, Running, Rest
  <1>8. BatchOK'
    BY <1>1, <1>2, <1>5, <1>6, <1>7, CallMovesKeep
  <1>9. LoopTypeOK'
    BY <1>1, <1>2, <1>4, <1>5 DEF LoopInv, LoopTypeOK
  <1>10. RecordOK' /\ ConflictOK' /\ TreesOK'
    BY <1>1, <1>2, <1>4, <1>5, SameNextBatches
       DEF LoopInv, RecordOK, ConflictOK, TreesOK, IsAlone
  <1>11. CASE worker[t].pc = "ok"
    <2>0. /\ op'.batch = {t} /\ op'.before = op.before /\ op'.files = worker[t].files
          /\ made[t] \subseteq trees[Main].head /\ trees[Main].merging = "no"
          /\ FilesOf(trees[Main].head \ op.before) \subseteq worker[t].files
      BY <1>3, <1>4, <1>5, <1>11 DEF AloneOK, WorkOK
    <2>1. SaveOK'
      BY <1>2, <2>0 DEF SaveOK
    <2>. QED BY <1>4, <1>5, <1>8, <1>9, <1>10, <1>11, <2>1 DEF LoopInv, StageOK
  <1>12. CASE worker[t].pc = "failed"
    <2>1. RaiseOK'
      BY <1>2, <1>3, <1>4, <1>5, <1>12 DEF RaiseOK, AloneOK, WorkOK, IsAlone
    <2>. QED BY <1>4, <1>5, <1>8, <1>9, <1>10, <1>12, <2>1 DEF LoopInv, StageOK
  <1>. QED BY <1>1, <1>11, <1>12

\* All loops rest and no call is under way.
LEMMA BackToIdle ==
  ASSUME LoopInv, op' = NoOp, worker' = [t \in Tasks |-> Rest],
         trees' = trees, made' = made, batches' = batches,
         done' \subseteq Tasks \ {"fixup"}, leaky' \in BOOLEAN, cut' \in BOOLEAN
  PROVE  LoopTypeOK' /\ BatchOK' /\ StageOK'
  <1>1. IsWorker(Rest)
    BY DEF Rest, IsWorker
  <1>2. LoopTypeOK'
    BY <1>1 DEF LoopInv, LoopTypeOK, NoOp
  <1>. QED BY <1>2 DEF BatchOK, StageOK, NoOp

\* The batch is recorded.
LEMMA SaveKeeps ==
  ASSUME ToolUseAssumption, LoopInv, Save
  PROVE  LoopInv'
  <1>1. /\ op.stage = "save" /\ SaveOK /\ op.batch \subseteq Tasks
        /\ op' = NoOp /\ worker' = [t \in Tasks |-> Rest]
        /\ done' = done \cup (op.batch \ {"fixup"}) /\ touched' = touched \cup op.files
        /\ UNCHANGED <<trees, batches, made, leaky, cut>>
    BY DEF Save, LoopInv, StageOK, BatchOK
  <1>2. LoopTypeOK' /\ BatchOK' /\ StageOK'
    BY <1>1, BackToIdle DEF LoopInv, LoopTypeOK
  <1>3. FilesOf(trees[Main].head) \subseteq
          FilesOf(op.before) \cup FilesOf(trees[Main].head \ op.before)
    BY DEF FilesOf
  <1>4. RecordOK'
    BY <1>1, <1>3 DEF LoopInv, RecordOK, SaveOK, NoOp
  <1>5. ConflictOK' /\ TreesOK'
    BY <1>1 DEF LoopInv, ConflictOK, SaveOK, TreesOK, NoOp
  <1>. QED BY <1>2, <1>4, <1>5 DEF LoopInv

\* A failure is counted.
LEMMA FailureKeeps ==
  ASSUME ToolUseAssumption, LoopInv, HandleImplementationFailure
  PROVE  LoopInv'
  <1>1. /\ op.stage = "raise" /\ RaiseOK
        /\ op' = NoOp /\ worker' = [t \in Tasks |-> Rest]
        /\ UNCHANGED <<trees, done, touched, batches, made, leaky, cut>>
    BY DEF HandleImplementationFailure, LoopInv, StageOK
  <1>2. LoopTypeOK' /\ BatchOK' /\ StageOK'
    BY <1>1, BackToIdle DEF LoopInv, LoopTypeOK
  <1>3. RecordOK' /\ ConflictOK' /\ TreesOK'
    BY <1>1, SameNextBatches
       DEF LoopInv, RecordOK, RaiseOK, ConflictOK, TreesOK, NoOp, IsAlone
  <1>. QED BY <1>2, <1>3 DEF LoopInv

\* The worker process is killed.
LEMMA CrashKeeps ==
  ASSUME ToolUseAssumption, LoopInv, Crash
  PROVE  LoopInv'
  <1>1. /\ op' = NoOp /\ worker' = [t \in Tasks |-> Rest] /\ leaky' = TRUE /\ cut' = TRUE
        /\ UNCHANGED <<trees, done, touched, batches, made>>
    BY DEF Crash
  <1>2. LoopTypeOK' /\ BatchOK' /\ StageOK'
    BY <1>1, BackToIdle DEF LoopInv, LoopTypeOK
  <1>3. RecordOK' /\ ConflictOK' /\ TreesOK'
    BY <1>1, SameNextBatches DEF LoopInv, RecordOK, ConflictOK, TreesOK, NoOp, IsAlone
  <1>. QED BY <1>2, <1>3 DEF LoopInv

\* A person aborts the merge.
LEMMA AbortKeeps ==
  ASSUME ToolUseAssumption, LoopInv, HumanAbortsMerge
  PROVE  LoopInv'
  <1>1. PICK y : y = trees[Main]
    OBVIOUS
  <1>2. PICK x : x = [y EXCEPT !.merging = "no", !.dirty = {}]
    OBVIOUS
  <1>3. IsTree(y) /\ Main \in DOMAIN trees
    BY <1>1 DEF LoopInv, LoopTypeOK
  <1>4. IsTree(x) /\ x.head = y.head /\ x.marked = y.marked /\ x.merging = "no"
    BY <1>2, <1>3 DEF IsTree
  <1>5. trees' = [trees EXCEPT ![Main] = x]
    BY <1>1, <1>2, <1>3 DEF HumanAbortsMerge
  <1>6. /\ DOMAIN trees' = DOMAIN trees /\ trees'[Main] = x
        /\ \A i \in DOMAIN trees \ {Main} : trees'[i] = trees[i]
        /\ trees' = [i \in DOMAIN trees' |-> trees'[i]]
    BY <1>3, <1>5 DEF LoopInv, LoopTypeOK
  <1>7. op.stage = "idle" /\ UNCHANGED <<op, worker, done, touched, batches, made, leaky, cut>>
    BY DEF HumanAbortsMerge
  <1>8. LoopTypeOK'
    BY <1>3, <1>4, <1>6, <1>7 DEF LoopInv, LoopTypeOK
  <1>. QED BY <1>1, <1>4, <1>6, <1>7, <1>8
           DEF LoopInv, BatchOK, StageOK, RecordOK, ConflictOK, TreesOK

\* Another stage of the call, as a record.
Stage(st, todo, files, then) ==
  [stage |-> st, batch |-> op.batch, todo |-> todo, before |-> op.before,
   dirt |-> op.dirt, files |-> files, then |-> then]

\* The fields of a call that moves to another stage.
LEMMA StageRecord ==
  ASSUME LoopInv
  PROVE  /\ \A st : [op EXCEPT !.stage = st] = Stage(st, op.todo, op.files, op.then)
         /\ \A out : Cleanup(out) = Stage("remove", op.todo, op.files, out)
         /\ \A todo, files :
              [op EXCEPT !.todo = todo, !.files = files] = Stage(op.stage, todo, files, op.then)
  <1>1. PICK p : p = op
    OBVIOUS
  <1>2. p = [stage |-> p.stage, batch |-> p.batch, todo |-> p.todo, before |-> p.before,
             dirt |-> p.dirt, files |-> p.files, then |-> p.then]
    BY <1>1 DEF LoopInv, LoopTypeOK
  <1>3. ASSUME NEW st PROVE [p EXCEPT !.stage = st] = Stage(st, p.todo, p.files, p.then)
    BY <1>1, <1>2 DEF Stage
  <1>4. ASSUME NEW todo, NEW files
        PROVE  [p EXCEPT !.todo = todo, !.files = files] = Stage(p.stage, todo, files, p.then)
    <2>1. PICK q : q = [p EXCEPT !.todo = todo]
      OBVIOUS
    <2>2. q = Stage(p.stage, todo, p.files, p.then)
      BY <1>1, <1>2, <2>1 DEF Stage
    <2>3. [q EXCEPT !.files = files] = Stage(p.stage, todo, files, p.then)
      BY <2>2 DEF Stage
    <2>. QED BY <2>1, <2>3
  <1>5. ASSUME NEW out PROVE Cleanup(out) = Stage("remove", p.todo, p.files, out)
    <2>1. PICK q : q = [p EXCEPT !.stage = "remove"]
      OBVIOUS
    <2>2. q = Stage("remove", p.todo, p.files, p.then)
      BY <1>1, <1>2, <2>1 DEF Stage
    <2>3. [q EXCEPT !.then = out] = Stage("remove", p.todo, p.files, out)
      BY <2>2 DEF Stage
    <2>. QED BY <1>1, <2>1, <2>3 DEF Cleanup
  <1>. QED BY <1>1, <1>3, <1>4, <1>5

\* The parts of the invariant that a step of the call leaves alone.
LEMMA CallMovesFrame ==
  ASSUME ToolUseAssumption, LoopInv, NEW o, CallMoves(o), op.stage # "idle",
         o.stage \in {"merge", "remove"} => op.stage \in {"parallel", "merge", "remove"},
         o.stage \in {"save", "raise"} => Running = {},
         trees' = [i \in DOMAIN trees' |-> trees'[i]], Main \in DOMAIN trees',
         \A i \in DOMAIN trees' : IsTree(trees'[i]),
         trees[Main].head \subseteq trees'[Main].head,
         trees'[Main].merging \in {"yes", "no"}, trees'[Main].marked = "no",
         trees'[Main].merging = "yes" => trees[Main].merging = "yes" \/ ~IsAlone(op.batch),
         cut' \in {cut, TRUE}
  PROVE  LoopTypeOK' /\ BatchOK' /\ ConflictOK' /\ RecordOK'
  <1>1. /\ o.stage # "idle" /\ o.batch = op.batch /\ o.before = op.before /\ op' = o
        /\ UNCHANGED <<worker, done, touched, batches, made>>
    BY DEF CallMoves
  <1>2. BatchOK'
    BY CallMovesKeep
  <1>3. cut' \in BOOLEAN /\ leaky' \in BOOLEAN
    BY DEF CallMoves, LoopInv, LoopTypeOK
  <1>4. LoopTypeOK'
    BY <1>1, <1>3 DEF CallMoves, LoopInv, LoopTypeOK
  <1>5. ConflictOK'
    <2>1. NextBatches' = NextBatches /\ op.batch \in NextBatches
      BY <1>1, SameNextBatches DEF LoopInv, BatchOK
    <2>2. ~IsAlone(op.batch) => \A batch \in NextBatches : ~IsAlone(batch)
      BY <2>1, OneNextBatch
    <2>. QED BY <2>1, <2>2 DEF LoopInv, ConflictOK, IsAlone
  <1>6. RecordOK'
    BY <1>1 DEF LoopInv, RecordOK
  <1>. QED BY <1>2, <1>4, <1>5, <1>6

\* The loops of a batch have ended.
LEMMA JoinKeeps ==
  ASSUME ToolUseAssumption, LoopInv, Join
  PROVE  LoopInv'
  <1>1. /\ op.stage = "parallel" /\ Running = {} /\ ParallelOK /\ op.batch \subseteq Tasks
        /\ ~IsAlone(op.batch)
        /\ UNCHANGED <<worker, done, touched, batches, made, leaky, cut>>
    BY DEF Join, LoopInv, StageOK, BatchOK
  <1>2. /\ trees = [i \in DOMAIN trees |-> trees[i]] /\ Main \in DOMAIN trees
        /\ \A i \in DOMAIN trees : IsTree(trees[i])
        /\ trees[Main].merging \in {"yes", "no"} /\ trees[Main].marked = "no"
    BY DEF LoopInv, LoopTypeOK, ConflictOK
  <1>3. ASSUME NEW st \in {"merge", "remove", "raise"}, NEW then,
               op' = Stage(st, op.todo, op.files, then), UNCHANGED trees
        PROVE  /\ LoopTypeOK' /\ BatchOK' /\ ConflictOK' /\ RecordOK'
               /\ op'.stage = st /\ op'.batch = op.batch /\ op'.before = op.before
               /\ op'.dirt = op.dirt /\ op'.todo = op.batch /\ op'.then = then
    <2>1. PICK o : o = Stage(st, op.todo, op.files, then)
      OBVIOUS
    <2>2. /\ o = [stage |-> o.stage, batch |-> op.batch, todo |-> o.todo,
                  before |-> op.before, dirt |-> op.dirt, files |-> o.files, then |-> o.then]
          /\ o.stage = st /\ o.todo = op.todo /\ op' = o /\ o.then = then
      BY <1>3, <2>1 DEF Stage
    <2>. CallMoves(o) /\ o.stage = st /\ o.todo = op.batch
      BY <1>1, <2>2 DEF CallMoves, ParallelOK
    <2>3. LoopTypeOK' /\ BatchOK' /\ ConflictOK' /\ RecordOK'
      BY <1>1, <1>2, <1>3, <2>2, CallMovesFrame
    <2>. QED BY <2>2, <2>3 DEF CallMoves
  <1>4. CASE Ended({"uncreated"})
    <2>1. op' = Stage("raise", op.todo, op.files, op.then) /\ UNCHANGED trees /\ leaky
      BY <1>1, <1>4, StageRecord DEF Join, Ended, ParallelOK
    <2>2. /\ LoopTypeOK' /\ BatchOK' /\ ConflictOK' /\ RecordOK'
          /\ op'.stage = "raise" /\ op'.batch = op.batch /\ op'.before = op.before
          /\ op'.dirt = op.dirt
      BY <1>3, <2>1
    <2>3. RaiseOK' /\ TreesOK'
      BY <1>1, <2>1, <2>2 DEF ParallelOK, RaiseOK, TreesOK
    <2>. QED BY <2>2, <2>3 DEF LoopInv, StageOK
  <1>5. CASE ~Ended({"uncreated"}) /\ Ended({"failed"})
    <2>1. op' = Stage("remove", op.todo, op.files, "raise") /\ UNCHANGED trees
      BY <1>5, StageRecord DEF Join
    <2>2. /\ LoopTypeOK' /\ BatchOK' /\ ConflictOK' /\ RecordOK'
          /\ op'.stage = "remove" /\ op'.batch = op.batch /\ op'.before = op.before
          /\ op'.dirt = op.dirt /\ op'.then = "raise"
      BY <1>3, <2>1
    <2>3. RaiseOK'
      BY <1>1, <2>1, <2>2 DEF ParallelOK, RaiseOK
    <2>4. Running' = {} /\ \A t \in op.batch : worker[t].tree \in {Main, <<t, batches>>}
      BY <1>1 DEF Running, ParallelOK, InWorktree
    <2>5. RemoveOK'
      BY <1>1, <2>2, <2>3, <2>4 DEF RemoveOK
    <2>6. TreesOK'
      BY <1>1, <2>1, <2>2 DEF LoopInv, TreesOK, BatchTrees
    <2>. QED BY <2>2, <2>5, <2>6 DEF LoopInv, StageOK
  <1>6. CASE ~Ended({"uncreated"}) /\ ~Ended({"failed"})
    <2>1. op' = Stage("merge", op.todo, op.files, op.then) /\ UNCHANGED trees
      BY <1>6, StageRecord DEF Join
    <2>2. /\ LoopTypeOK' /\ BatchOK' /\ ConflictOK' /\ RecordOK'
          /\ op'.stage = "merge" /\ op'.batch = op.batch /\ op'.before = op.before
          /\ op'.todo = op.batch
      BY <1>3, <2>1
    <2>3. ASSUME NEW t \in op.batch PROVE worker[t].pc = "ok" /\ InWorktree(t)
      <3>1. worker[t].pc \notin {"uncreated", "failed"}
        BY <1>6 DEF Ended
      <3>2. worker[t].pc \notin {"create", "turn", "commit"}
        BY <1>1 DEF Running
      <3>. QED BY <1>1, <3>1, <3>2 DEF ParallelOK
    <2>4. ASSUME NEW t \in op.batch PROVE worker'[t].pc = "ok" /\ InWorktree(t)'
      BY <1>1, <2>1, <2>2, <2>3 DEF InWorktree
    <2>5. FilesOf(trees[Main].head \ op.before) = {}
      BY <1>1 DEF ParallelOK, FilesOf
    <2>6. MergeOK'
      BY <1>1, <2>1, <2>2, <2>4, <2>5 DEF MergeOK, ParallelOK
    <2>7. TreesOK'
      BY <1>1, <2>1, <2>2 DEF LoopInv, TreesOK, BatchTrees
    <2>. QED BY <2>2, <2>6, <2>7 DEF LoopInv, StageOK
  <1>. QED BY <1>4, <1>5, <1>6

\* No loop runs while the branches are merged.
LEMMA MergeRests ==
  ASSUME LoopInv, MergeOK
  PROVE  Running = {}
  <1>1. ASSUME NEW u \in Tasks PROVE worker[u].pc \in {"rest", "ok"}
    <2>1. CASE u \in op.batch
      BY <2>1 DEF MergeOK
    <2>2. CASE u \notin op.batch
      BY <2>2 DEF LoopInv, LoopTypeOK, Rest
    <2>. QED BY <2>1, <2>2
  <1>. QED BY <1>1 DEF Running

\* Everything was merged.
LEMMA ReturnParallelKeeps ==
  ASSUME ToolUseAssumption, LoopInv, ReturnParallel
  PROVE  LoopInv'
  <1>1. /\ op.stage = "merge" /\ op.todo = {} /\ MergeOK /\ op.batch # {}
        /\ op.batch \subseteq Tasks /\ op' = Cleanup("save")
        /\ UNCHANGED <<trees, worker, done, touched, batches, made, leaky, cut>>
    BY DEF ReturnParallel, LoopInv, StageOK, BatchOK
  <1>2. /\ trees = [i \in DOMAIN trees |-> trees[i]] /\ Main \in DOMAIN trees
        /\ \A i \in DOMAIN trees : IsTree(trees[i])
    BY DEF LoopInv, LoopTypeOK
  <1>3. trees[Main].merging = "no" /\ trees[Main].marked = "no"
    BY <1>1 DEF MergeOK, LoopInv, LoopTypeOK, ConflictOK
  <1>4. PICK o : o = Stage("remove", op.todo, op.files, "save")
    OBVIOUS
  <1>5. CallMoves(o) /\ o.stage = "remove" /\ o.files = op.files /\ o.then = "save"
    <2>1. /\ o = [stage |-> o.stage, batch |-> op.batch, todo |-> o.todo,
                  before |-> op.before, dirt |-> op.dirt, files |-> o.files, then |-> o.then]
          /\ o.stage = "remove" /\ o.files = op.files /\ op' = o /\ o.then = "save"
      <3>1. op' = o
        BY <1>1, <1>4, StageRecord
      <3>. QED BY <1>4, <3>1 DEF Stage
    <2>. QED BY <1>1, <2>1 DEF CallMoves
  <1>6. Running = {}
    BY <1>1, MergeRests
  <1>7. LoopTypeOK' /\ BatchOK' /\ ConflictOK' /\ RecordOK'
    BY <1>1, <1>2, <1>3, <1>5, CallMovesFrame
  <1>8. /\ op'.stage = "remove" /\ op'.batch = op.batch /\ op'.before = op.before
        /\ op'.files = op.files /\ op'.then = "save"
    BY <1>5 DEF CallMoves
  <1>9. SaveOK'
    BY <1>1, <1>3, <1>8 DEF MergeOK, SaveOK
  <1>10. Running' = {} /\ ~Ended({"failed", "uncreated"})'
    BY <1>1, <1>6, <1>8 DEF Running, Ended, MergeOK
  <1>11. \A t \in op.batch : worker[t].tree \in {Main, <<t, batches>>}
    BY <1>1 DEF MergeOK, InWorktree
  <1>12. RemoveOK'
    BY <1>1, <1>8, <1>9, <1>10, <1>11 DEF RemoveOK
  <1>13. TreesOK'
    BY <1>1, <1>8 DEF LoopInv, TreesOK, BatchTrees
  <1>. QED BY <1>7, <1>8, <1>12, <1>13 DEF LoopInv, StageOK

\* The call ends after its removals, as it was about to.
LEMMA RemovalEnds ==
  ASSUME ToolUseAssumption, LoopInv, NEW st \in {"save", "raise"}, op.stage = "remove",
         op' = [op EXCEPT !.stage = st], leaky' \in {leaky, TRUE}, cut' \in {cut, TRUE},
         UNCHANGED <<worker, done, touched, batches, made>>,
         trees' = [i \in DOMAIN trees' |-> trees'[i]], Main \in DOMAIN trees',
         \A i \in DOMAIN trees' : IsTree(trees'[i]), trees'[Main] = trees[Main]
  PROVE  /\ LoopTypeOK' /\ BatchOK' /\ ConflictOK' /\ RecordOK'
         /\ op'.stage = st /\ op'.batch = op.batch /\ op'.before = op.before
         /\ op'.files = op.files /\ op'.dirt = op.dirt
  <1>1. PICK o : o = Stage(st, op.todo, op.files, op.then)
    OBVIOUS
  <1>2. /\ o = [stage |-> o.stage, batch |-> op.batch, todo |-> o.todo,
                before |-> op.before, dirt |-> op.dirt, files |-> o.files, then |-> o.then]
        /\ o.stage = st /\ o.files = op.files /\ op' = o
    <2>1. op' = o
      BY <1>1, StageRecord
    <2>. QED BY <1>1, <2>1 DEF Stage
  <1>3. CallMoves(o)
    BY <1>2 DEF CallMoves
  <1>4. Running = {}
    BY DEF LoopInv, StageOK, RemoveOK
  <1>5. trees[Main].merging \in {"yes", "no"} /\ trees[Main].marked = "no"
    BY DEF LoopInv, LoopTypeOK, ConflictOK
  <1>6. LoopTypeOK' /\ BatchOK' /\ ConflictOK' /\ RecordOK'
    BY <1>2, <1>3, <1>4, <1>5, CallMovesFrame
  <1>. QED BY <1>2, <1>6

\* git refuses to remove a worktree.
LEMMA RemovalRefusedKeeps ==
  ASSUME ToolUseAssumption, LoopInv, RemovalRefused
  PROVE  LoopInv'
  <1>1. /\ op.stage = "remove" /\ RemoveOK /\ op' = [op EXCEPT !.stage = "raise"]
        /\ leaky' = TRUE /\ cut' = (cut \/ op.then = "save")
        /\ UNCHANGED <<trees, worker, done, touched, batches, made>>
    BY DEF RemovalRefused, LoopInv, StageOK
  <1>2. cut' \in {cut, TRUE}
    <2>1. cut \in BOOLEAN
      BY DEF LoopInv, LoopTypeOK
    <2>. QED BY <1>1, <2>1, Zenon
  <1>3. /\ LoopTypeOK' /\ BatchOK' /\ ConflictOK' /\ RecordOK'
        /\ op'.stage = "raise" /\ op'.batch = op.batch /\ op'.before = op.before
        /\ op'.dirt = op.dirt
    <2>1. /\ trees = [i \in DOMAIN trees |-> trees[i]] /\ Main \in DOMAIN trees
          /\ \A i \in DOMAIN trees : IsTree(trees[i])
      BY DEF LoopInv, LoopTypeOK
    <2>. QED BY <1>1, <1>2, <2>1, RemovalEnds
  <1>4. RaiseOK'
    <2>1. CASE op.then = "save"
      BY <1>1, <1>3, <2>1 DEF RemoveOK, RaiseOK, Ended
    <2>2. CASE op.then = "raise"
      BY <1>1, <1>3, <2>2 DEF RemoveOK, RaiseOK, Ended, IsAlone
    <2>. QED BY <1>1, <2>1, <2>2 DEF RemoveOK
  <1>5. TreesOK'
    BY <1>1 DEF TreesOK
  <1>. QED BY <1>3, <1>4, <1>5 DEF LoopInv, StageOK

\* A worktree of the batch is removed.
LEMMA RemoveAgentWorktreeKeeps ==
  ASSUME ToolUseAssumption, LoopInv, NEW t \in Tasks, RemoveAgentWorktree(t)
  PROVE  LoopInv'
  <1>1. PICK tr : tr = worker[t].tree
    OBVIOUS
  <1>2. /\ op.stage = "remove" /\ RemoveOK /\ t \in op.batch /\ tr \in DOMAIN trees \ {Main}
        /\ trees' = [i \in DOMAIN trees \ {tr} |-> trees[i]]
        /\ UNCHANGED <<worker, done, touched, batches, made, leaky, cut>>
    BY <1>1 DEF RemoveAgentWorktree, LoopInv, StageOK
  <1>3. /\ trees' = [i \in DOMAIN trees' |-> trees'[i]] /\ Main \in DOMAIN trees'
        /\ \A i \in DOMAIN trees' : IsTree(trees'[i])
        /\ trees'[Main] = trees[Main] /\ DOMAIN trees' = DOMAIN trees \ {tr}
    BY <1>2 DEF LoopInv, LoopTypeOK
  <1>4. CASE CleanedUp(t)
    <2>1. op' = [op EXCEPT !.stage = op.then] /\ op.then \in {"save", "raise"}
      BY <1>2, <1>4 DEF RemoveAgentWorktree, RemoveOK
    <2>2. /\ LoopTypeOK' /\ BatchOK' /\ ConflictOK' /\ RecordOK'
          /\ op'.stage = op.then /\ op'.batch = op.batch /\ op'.before = op.before
          /\ op'.files = op.files /\ op'.dirt = op.dirt
      BY <1>2, <1>3, <2>1, RemovalEnds
    <2>3. op.then = "save" => SaveOK'
      BY <1>2, <1>3, <2>2 DEF RemoveOK, SaveOK
    <2>4. op.then = "raise" => RaiseOK'
      BY <1>2, <1>3, <2>2 DEF RemoveOK, RaiseOK, Ended, IsAlone
    <2>5. TreesOK'
      BY <1>1, <1>2, <1>3, <1>4, <2>1, <2>2 DEF LoopInv, TreesOK, CleanedUp
    <2>. QED BY <2>1, <2>2, <2>3, <2>4, <2>5 DEF LoopInv, StageOK
  <1>5. CASE ~CleanedUp(t)
    <2>1. UNCHANGED op
      BY <1>5 DEF RemoveAgentWorktree
    <2>2. LoopTypeOK'
      BY <1>2, <1>3, <2>1 DEF LoopInv, LoopTypeOK
    <2>3. BatchOK' /\ ConflictOK' /\ RecordOK'
      BY <1>2, <1>3, <2>1, SameNextBatches DEF LoopInv, BatchOK, ConflictOK, RecordOK, IsAlone
    <2>4. RemoveOK'
      <3>1. op.then = "save" => SaveOK'
        BY <1>2, <1>3, <2>1 DEF RemoveOK, SaveOK
      <3>2. op.then = "raise" => RaiseOK'
        BY <1>2, <1>3, <2>1 DEF RemoveOK, RaiseOK, Ended, IsAlone
      <3>. QED BY <1>2, <2>1, <3>1, <3>2 DEF RemoveOK, Running, Ended
    <2>5. TreesOK'
      BY <1>2, <1>3, <2>1 DEF LoopInv, TreesOK, BatchTrees
    <2>. QED BY <1>2, <2>1, <2>2, <2>3, <2>4, <2>5 DEF LoopInv, StageOK
  <1>. QED BY <1>4, <1>5

\* The branch of a subtask is merged, or the merge fails.
LEMMA MergeSubtaskKeeps ==
  ASSUME ToolUseAssumption, LoopInv, NEW t \in Tasks, NEW conflict \in BOOLEAN,
         MergeSubtask(t, conflict)
  PROVE  LoopInv'
  <1>1. /\ op.stage = "merge" /\ t \in op.todo /\ t \in op.batch /\ MergeOK
        /\ op.batch \subseteq Tasks /\ ~IsAlone(op.batch) /\ batches \in Nat /\ batches > 0
        /\ UNCHANGED <<worker, done, touched, batches, made, leaky>>
    BY DEF MergeSubtask, Earliest, LoopInv, StageOK, BatchOK, MergeOK, LoopTypeOK
  <1>2. /\ trees = [i \in DOMAIN trees |-> trees[i]] /\ Main \in DOMAIN trees
        /\ \A i \in DOMAIN trees : IsTree(trees[i])
        /\ trees[Main].merging \in {"yes", "no"} /\ trees[Main].marked = "no"
    BY DEF LoopInv, LoopTypeOK, ConflictOK
  <1>3. PICK y : y = trees[Main]
    OBVIOUS
  <1>4. IsTree(y)
    BY <1>2, <1>3
  <1>5. CASE MergeRefused(t) \/ (conflict /\ MayConflict(t))
    <2>1. PICK x : x = IF MergeRefused(t) THEN y ELSE Conflicted(t)
      OBVIOUS
    <2>2. /\ IsTree(x) /\ x.head = y.head /\ x.marked = y.marked
          /\ x.merging \in {"yes", "no"}
      BY <1>2, <1>3, <1>4, <2>1 DEF IsTree, Conflicted
    <2>3. trees' = IF MergeRefused(t) THEN trees ELSE [trees EXCEPT ![Main] = x]
      BY <1>5, <2>1 DEF MergeSubtask, MergeFailed
    <2>4. /\ trees' = [i \in DOMAIN trees' |-> trees'[i]] /\ DOMAIN trees' = DOMAIN trees
          /\ Main \in DOMAIN trees' /\ trees'[Main] = x
          /\ \A i \in DOMAIN trees' : IsTree(trees'[i])
      BY <1>2, <1>3, <2>1, <2>2, <2>3
    <2>5. PICK o : o = Stage("remove", op.todo, op.files, "raise")
      OBVIOUS
    <2>6. op' = Cleanup("raise") /\ cut' = TRUE
      BY <1>5 DEF MergeSubtask, MergeFailed
    <2>7. /\ o = [stage |-> o.stage, batch |-> op.batch, todo |-> o.todo,
                  before |-> op.before, dirt |-> op.dirt, files |-> o.files, then |-> o.then]
          /\ o.stage = "remove" /\ op' = o /\ o.then = "raise"
      <3>1. op' = o
        BY <2>5, <2>6, StageRecord
      <3>. QED BY <2>5, <3>1 DEF Stage
    <2>8. CallMoves(o)
      BY <1>1, <2>7 DEF CallMoves
    <2>9. LoopTypeOK' /\ BatchOK' /\ ConflictOK' /\ RecordOK'
      BY <1>1, <1>2, <1>3, <2>2, <2>4, <2>6, <2>7, <2>8, CallMovesFrame
    <2>10. op'.stage = "remove" /\ op'.batch = op.batch /\ op'.then = "raise"
      BY <2>7
    <2>11. \A u \in op.batch : worker'[u].pc = "ok"
      BY <1>1 DEF MergeOK
    <2>12. RaiseOK'
      BY <2>6, <2>10, <2>11 DEF RaiseOK, Ended
    <2>13. Running' = {} /\ \A u \in op.batch : worker[u].tree \in {Main, <<u, batches>>}
      BY <1>1, MergeRests DEF Running, MergeOK, InWorktree
    <2>14. RemoveOK'
      BY <1>1, <2>10, <2>12, <2>13 DEF RemoveOK
    <2>15. TreesOK'
      BY <1>1, <2>4, <2>10 DEF LoopInv, TreesOK, BatchTrees
    <2>. QED BY <2>9, <2>10, <2>14, <2>15 DEF LoopInv, StageOK
  <1>6. CASE ~(MergeRefused(t) \/ (conflict /\ MayConflict(t)))
    <2>1. PICK x : x = Merged(t)
      OBVIOUS
    <2>2. InWorktree(t) /\ worker[t].pc = "ok" /\ worker[t].tree # Main
      BY <1>1, WorktreeNotMain DEF MergeOK, InWorktree
    <2>3. PICK z : z = trees[worker[t].tree]
      OBVIOUS
    <2>4. /\ made[t] \subseteq z.head /\ op.before \subseteq z.head
          /\ FilesOf(z.head \ op.before) \subseteq worker[t].files
      BY <2>2, <2>3 DEF InWorktree, WorkOK
    <2>5. Incoming(t) = z.head \ op.before
      BY <2>2, <2>3 DEF Incoming, InWorktree
    <2>6. y.merging = "no"
      BY <1>2, <1>3, <1>6 DEF MergeRefused
    <2>7. /\ IsTree(x) /\ x.head = y.head \cup (z.head \ op.before)
          /\ x.marked = y.marked /\ x.merging = "no"
      BY <1>3, <1>4, <2>1, <2>5, <2>6 DEF IsTree, Merged
    <2>8. trees' = [trees EXCEPT ![Main] = x] /\ UNCHANGED cut
      BY <1>6, <2>1 DEF MergeSubtask
    <2>9. /\ DOMAIN trees' = DOMAIN trees /\ trees'[Main] = x
          /\ \A i \in DOMAIN trees \ {Main} : trees'[i] = trees[i]
          /\ trees' = [i \in DOMAIN trees' |-> trees'[i]]
      BY <1>2, <2>8
    <2>10. \A i \in DOMAIN trees' : IsTree(trees'[i])
      BY <1>2, <2>7, <2>9
    <2>11. PICK o : o = Stage("merge", op.todo \ {t}, op.files \cup worker[t].files, op.then)
      OBVIOUS
    <2>12. /\ o = [stage |-> o.stage, batch |-> op.batch, todo |-> o.todo,
                   before |-> op.before, dirt |-> op.dirt, files |-> o.files, then |-> o.then]
           /\ o.stage = "merge" /\ o.todo = op.todo \ {t}
           /\ o.files = op.files \cup worker[t].files
      BY <2>11 DEF Stage
    <2>13. op' = o
      <3>1. op' = [op EXCEPT !.todo = op.todo \ {t}, !.files = op.files \cup worker[t].files]
        BY <1>6 DEF MergeSubtask
      <3>2. op' = Stage(op.stage, op.todo \ {t}, op.files \cup worker[t].files, op.then)
        BY <3>1, StageRecord
      <3>. QED BY <1>1, <2>11, <3>2
    <2>14. CallMoves(o)
      BY <1>1, <2>12, <2>13 DEF CallMoves
    <2>15. LoopTypeOK' /\ BatchOK' /\ ConflictOK' /\ RecordOK'
      BY <1>1, <1>2, <1>3, <2>7, <2>8, <2>9, <2>10, <2>12, <2>14, CallMovesFrame
    <2>16. ASSUME NEW u \in op.batch PROVE worker'[u].pc = "ok" /\ InWorktree(u)'
      <3>1. InWorktree(u) /\ worker[u].pc = "ok" /\ worker[u].tree # Main
        BY <1>1, WorktreeNotMain DEF MergeOK, InWorktree
      <3>2. trees'[worker[u].tree] = trees[worker[u].tree]
        BY <2>9, <3>1 DEF InWorktree
      <3>3. op'.before = op.before
        BY <2>12, <2>13
      <3>. QED BY <1>1, <2>9, <3>1, <3>2, <3>3 DEF InWorktree
    <2>17. FilesOf(x.head \ op.before) \subseteq o.files
      <3>1. FilesOf(y.head \ op.before) \subseteq op.files
        BY <1>1, <1>3 DEF MergeOK
      <3>2. x.head \ op.before = (y.head \ op.before) \cup (z.head \ op.before)
        BY <2>7
      <3>3. FilesOf(x.head \ op.before) =
              FilesOf(y.head \ op.before) \cup FilesOf(z.head \ op.before)
        BY <3>2, FilesGrow
      <3>. QED BY <2>4, <2>12, <3>1, <3>3
    <2>18. ASSUME NEW u \in op.batch, u \notin o.todo PROVE made[u] \subseteq x.head
      <3>1. CASE u = t
        BY <1>1, <1>3, <2>4, <2>7, <3>1 DEF MergeOK
      <3>2. CASE u # t
        BY <1>1, <1>3, <2>7, <2>12, <2>18, <3>2 DEF MergeOK
      <3>. QED BY <3>1, <3>2
    <2>19. /\ o.todo \subseteq o.batch /\ o.batch = op.batch /\ o.before = op.before
           /\ op.before \subseteq x.head
      BY <1>1, <1>3, <2>7, <2>12 DEF MergeOK
    <2>20. MergeOK'
      BY <1>1, <2>7, <2>9, <2>13, <2>16, <2>17, <2>18, <2>19 DEF MergeOK
    <2>21. TreesOK'
      BY <1>1, <2>9, <2>12, <2>13, <2>19 DEF LoopInv, TreesOK, BatchTrees
    <2>. QED BY <2>12, <2>13, <2>15, <2>20, <2>21 DEF LoopInv, StageOK
  <1>. QED BY <1>5, <1>6

\* The first state.
LEMMA LoopStarts ==
  ASSUME Init
  PROVE  LoopInv
  <1>1. IsWorker(Rest)
    BY DEF Rest, IsWorker
  <1>2. LoopTypeOK
    BY <1>1 DEF Init, LoopTypeOK, NoOp, IsTree
  <1>3. FilesOf({}) = {}
    BY FilesGrow
  <1>. QED BY <1>2, <1>3 DEF Init, LoopInv, BatchOK, StageOK, ConflictOK, RecordOK, TreesOK, NoOp

\* Every step keeps the invariant.
LEMMA LoopNext ==
  ASSUME ToolUseAssumption, LoopInv, [Next]_vars
  PROVE  LoopInv'
  <1>1. CASE Next
    <2>1. CASE \E t \in Tasks : Loop(t)
      <3>1. PICK t \in Tasks : Loop(t)
        BY <2>1
      <3>2. CASE ModelTurn(t)
        BY <3>2, TurnKeeps DEF ModelTurn
      <3>. QED BY <3>1, <3>2, TurnRaisesKeeps, FinishSubtaskKeeps, CreateAgentWorktreeKeeps,
                  CreationRefusedKeeps DEF Loop
    <2>2. CASE Call
      BY <2>2, ReturnAloneKeeps, SaveKeeps, FailureKeeps, JoinKeeps, ReturnParallelKeeps,
         RemovalRefusedKeeps, RemoveAgentWorktreeKeeps, MergeSubtaskKeeps DEF Call
    <2>. QED BY <1>1, <2>1, <2>2, ImplementationStepKeeps, CrashKeeps, AbortKeeps DEF Next
  <1>2. CASE UNCHANGED vars
    <2>1. UNCHANGED <<trees, op, worker, done, touched, batches, made, leaky, cut>>
      BY <1>2 DEF vars
    <2>2. LoopTypeOK' /\ RecordOK' /\ TreesOK'
      BY <2>1 DEF LoopInv, LoopTypeOK, RecordOK, TreesOK, BatchTrees
    <2>3. BatchOK' /\ ConflictOK'
      BY <2>1, SameNextBatches DEF LoopInv, BatchOK, ConflictOK, IsAlone, Running
    <2>4. StageOK'
      BY <2>1 DEF LoopInv, StageOK, AloneOK, ParallelOK, MergeOK, SaveOK, RaiseOK, RemoveOK,
                  InWorktree, Ended, IsAlone, Running
    <2>. QED BY <2>2, <2>3, <2>4 DEF LoopInv
  <1>. QED BY <1>1, <1>2

\* The invariant holds in every state of the loop.
LEMMA LoopInvariant ==
  Spec => []LoopInv
  <1>1. Init => LoopInv
    BY LoopStarts
  <1>2. LoopInv /\ [Next]_vars => LoopInv'
    BY LoopNext, AgentServicesAssumption
  <1>. QED BY <1>1, <1>2, PTL DEF Spec

\* implement_subtask, implement_subtasks_parallel and the record of core.py,
\* for any plan, groups, dependencies and edits, with crashes, failed turns,
\* refused commits, conflicts and worktrees that git will not create or remove:
\* what a subtask recorded as completed wrote is committed on the run's branch,
\* and files_touched has every file changed there, unless a kill, a failed merge
\* or a worktree not removed after the merges has lost a result.
THEOREM RecordedWorkReal ==
  Spec => []RecordedWorkIsReal
  <1>1. LoopInv => RecordedWorkIsReal
    BY DEF LoopInv, RecordOK, RecordedWorkIsReal
  <1>. QED BY <1>1, LoopInvariant, PTL

\* implement_subtasks_parallel: a batch in which a loop failed leaves the run's
\* branch and worktree as they were, no conflict is ever committed by a later
\* subtask, and no worktree stays behind unless the process was killed or git
\* refused to create or to remove one.
THEOREM FailedBatchClean ==
  Spec => []FailedBatchLeavesNothing
  <1>1. LoopInv => FailedBatchLeavesNothing
    BY DEF LoopInv, StageOK, RaiseOK, ConflictOK, TreesOK, FailedBatchLeavesBranch,
           NoWorktreeLeft, FailedBatchLeavesNothing
  <1>. QED BY <1>1, LoopInvariant, PTL

(***************************************************************************)
(* Hooks, tools and sandboxes (Sandbox).                                   *)
(***************************************************************************)

\* g is f with at most the value at c changed.
Only(c, f, g) ==
  g = [e \in Calls |-> g[e]] /\ \A e \in Calls : e # c => g[e] = f[e]

\* A log with at most records of c more.
OnlyOf(c, A, B) == \A e : e.call # c => (e \in B <=> e \in A)

\* One value changes, or none.
LEMMA OneChanges ==
  ASSUME NEW c \in Calls, NEW f, f = [e \in Calls |-> f[e]], NEW x
  PROVE  Only(c, f, [f EXCEPT ![c] = x]) /\ [f EXCEPT ![c] = x][c] = x /\ Only(c, f, f)
  BY DEF Only

\* A step of call c, its command or its container.
StepOf(c) ==
  /\ Only(c, call, call') /\ Only(c, box, box') /\ Only(c, request, request')
  /\ Only(c, proxy, proxy') /\ Only(c, conn, conn') /\ Only(c, decisions, decisions')
  /\ failures' \in 0..MaxFailures
  /\ ran' \subseteq Calls /\ \A e \in Calls : e # c => (e \in ran' <=> e \in ran)
  /\ OnlyOf(c, hookLog, hookLog') /\ OnlyOf(c, execLog, execLog')

\* The other calls keep what the invariant says of them.
LEMMA StepOfKeeps ==
  ASSUME S!SandboxInv, NEW c \in Calls, StepOf(c), S!CallOK(c)'
  PROVE  S!SandboxInv'
  <1>1. ASSUME NEW e \in Calls, e # c PROVE S!CallOK(e)'
    <2>1. /\ call'[e] = call[e] /\ box'[e] = box[e] /\ request'[e] = request[e]
          /\ proxy'[e] = proxy[e] /\ conn'[e] = conn[e] /\ decisions'[e] = decisions[e]
          /\ (e \in ran' <=> e \in ran)
      BY <1>1 DEF StepOf, Only
    <2>2. S!CallOK(e)
      BY DEF S!SandboxInv
    <2>3. S!WhereOK(e, call[e], box[e], request[e], proxy[e], ran')
      BY <2>1, <2>2 DEF S!CallOK, S!WhereOK, S!Entered
    <2>4. S!RecordedOK(e, call[e], execLog', conn[e])
      BY <1>1, <2>2 DEF S!CallOK, S!RecordedOK, StepOf, OnlyOf
    <2>5. S!PassedOK(e, call[e], Hooks, ran')
      BY <2>1, <2>2 DEF S!CallOK, S!PassedOK
    <2>6. S!LoggedOK(e, call[e], Hooks, hookLog')
      <3>1. {f \in hookLog' : f.call = e} = {f \in hookLog : f.call = e}
        BY <1>1 DEF StepOf, OnlyOf
      <3>. QED BY <1>1, <2>2, <3>1 DEF S!CallOK, S!LoggedOK, StepOf, OnlyOf
    <2>. QED BY <2>1, <2>2, <2>3, <2>4, <2>5, <2>6 DEF S!CallOK
  <1>2. \A e \in Calls : S!CallOK(e)'
    BY <1>1
  <1>. QED BY <1>2 DEF S!SandboxInv, StepOf, Only

\* The command or the container of c moves, its thread does not.
LEMMA EnvironmentStep ==
  ASSUME S!SandboxInv, NEW c \in Calls,
         Only(c, box, box'), Only(c, request, request'), Only(c, conn, conn'),
         Only(c, decisions, decisions'),
         UNCHANGED <<call, ran, hookLog, proxy, execLog, failures>>,
         S!WhereOK(c, call[c], box'[c], request'[c], proxy[c], ran),
         S!ToldOK(conn'[c], decisions'[c]),
         S!RecordedOK(c, call[c], execLog, conn'[c])
  PROVE  S!SandboxInv'
  <1>1. StepOf(c)
    BY DEF StepOf, S!SandboxInv, Only, OnlyOf
  <1>2. S!CallOK(c)
    BY DEF S!SandboxInv
  <1>3. S!CallOK(c)'
    BY <1>2 DEF S!CallOK
  <1>. QED BY <1>1, <1>3, StepOfKeeps

\* What moves in a step of the thread of c: x is the thread after it.
ThreadStep(c, x) ==
  /\ call' = [call EXCEPT ![c] = x] /\ x.req = call[c].req
  /\ Only(c, box, box') /\ Only(c, request, request') /\ Only(c, proxy, proxy')
  /\ ran' \in {ran, ran \cup {c}} /\ failures' \in 0..MaxFailures
  /\ UNCHANGED <<conn, decisions>>
  /\ S!WhereOK(c, x, box'[c], request'[c], proxy'[c], ran')
  /\ S!PassedOK(c, x, Hooks, ran')

\* Such a step keeps the invariant when its records do.
LEMMA ThreadStepKeeps ==
  ASSUME S!SandboxInv, NEW c \in Calls, NEW x, ThreadStep(c, x),
         OnlyOf(c, hookLog, hookLog'), OnlyOf(c, execLog, execLog'),
         S!RecordedOK(c, x, execLog', conn[c]), S!LoggedOK(c, x, Hooks, hookLog')
  PROVE  S!SandboxInv'
  <1>1. Only(c, call, call') /\ call'[c] = x
    <2>1. call' = [call EXCEPT ![c] = x]
      BY DEF ThreadStep
    <2>2. call = [e \in Calls |-> call[e]]
      BY DEF S!SandboxInv
    <2>. QED BY <2>1, <2>2, OneChanges
  <1>2. StepOf(c)
    BY <1>1 DEF StepOf, S!SandboxInv, Only, ThreadStep
  <1>3. S!CallOK(c)
    BY DEF S!SandboxInv
  <1>4. S!CallOK(c)'
    BY <1>1, <1>3 DEF S!CallOK, ThreadStep
  <1>. QED BY <1>2, <1>4, StepOfKeeps

Unlogged(x) == x.answer \notin {"ok", "error", "blocked"}

\* A step that records nothing.
LEMMA QuietThread ==
  ASSUME S!SandboxInv, NEW c \in Calls, NEW x, ThreadStep(c, x),
         UNCHANGED <<hookLog, execLog>>,
         ~S!Concluded(call[c]), ~S!Concluded(x), Unlogged(call[c]), Unlogged(x)
  PROVE  S!SandboxInv'
  <1>1. S!CallOK(c)
    BY DEF S!SandboxInv
  <1>2. S!RecordedOK(c, x, execLog', conn[c])
    BY <1>1 DEF S!CallOK, S!RecordedOK
  <1>3. S!LoggedOK(c, x, Hooks, hookLog')
    BY <1>1 DEF S!CallOK, S!LoggedOK, Unlogged
  <1>. QED BY <1>2, <1>3, ThreadStepKeeps DEF OnlyOf

\* A step that records an execution.
LEMMA AuditStep ==
  ASSUME S!SandboxInv, NEW c \in Calls, NEW x, ThreadStep(c, x), NEW r,
         execLog' = execLog \cup {r}, r.call = c, r.code = x.code, r.timedOut = x.timedOut,
         S!RuntimeFor(x) = "docker" => r.decisions = decisions[c], UNCHANGED hookLog,
         ~S!Concluded(call[c]), S!Concluded(x), Unlogged(call[c]), Unlogged(x)
  PROVE  S!SandboxInv'
  <1>1. S!CallOK(c)
    BY DEF S!SandboxInv
  <1>2. S!RecordedOK(c, x, execLog', conn[c])
    BY <1>1 DEF S!CallOK, S!RecordedOK, S!ToldOK
  <1>3. S!LoggedOK(c, x, Hooks, hookLog')
    BY <1>1 DEF S!CallOK, S!LoggedOK, Unlogged
  <1>. QED BY <1>2, <1>3, ThreadStepKeeps DEF OnlyOf

\* A step that records the call in the chain's log.
LEMMA LogStep ==
  ASSUME S!SandboxInv, NEW c \in Calls, NEW x, ThreadStep(c, x), NEW h,
         hookLog' = hookLog \cup {h}, h.call = c, UNCHANGED execLog,
         h.blockedBy # "none" <=> x.answer = "blocked",
         h.error = "yes" <=> x.answer = "error",
         (\E j \in 1..Len(Hooks) : Hooks[j] = "SecretRedactionHook") => h.redacted = "yes",
         Unlogged(call[c]), ~Unlogged(x), S!Concluded(x) <=> S!Concluded(call[c]),
         x.code = call[c].code, x.timedOut = call[c].timedOut, x.removed = call[c].removed
  PROVE  S!SandboxInv'
  <1>1. S!CallOK(c)
    BY DEF S!SandboxInv
  <1>2. S!RecordedOK(c, x, execLog', conn[c])
    BY <1>1 DEF S!CallOK, S!RecordedOK, ThreadStep, S!RuntimeFor
  <1>3. S!LoggedOK(c, x, Hooks, hookLog')
    <2>1. \A e \in hookLog : e.call # c
      BY <1>1 DEF S!CallOK, S!LoggedOK, Unlogged
    <2>2. {f \in hookLog' : f.call = c} = {h}
      BY <2>1
    <2>. QED BY <2>2 DEF S!LoggedOK, Unlogged
  <1>. QED BY <1>2, <1>3, ThreadStepKeeps DEF OnlyOf

\* What an action of c's thread starts from.
LEMMA CallFacts ==
  ASSUME S!SandboxInv, NEW c \in Calls
  PROVE  /\ S!WhereOK(c, call[c], box[c], request[c], proxy[c], ran)
         /\ S!PassedOK(c, call[c], Hooks, ran) /\ S!IsCall(call[c]) /\ S!IsBox(box[c])
         /\ Only(c, box, box) /\ Only(c, request, request) /\ Only(c, proxy, proxy)
         /\ Only(c, conn, conn) /\ Only(c, decisions, decisions)
         /\ Hooks \in Seq(S!HookNames) /\ failures \in 0..MaxFailures
         /\ (call[c].pc # "over" => call[c].answer = "none" /\ Unlogged(call[c]))
         /\ (call[c].pc \notin {"over", "returned"} => ~S!Concluded(call[c]))
  <1>1. S!CallOK(c)
    BY DEF S!SandboxInv
  <1>2. S!WhereOK(c, call[c], box[c], request[c], proxy[c], ran)
    BY <1>1 DEF S!CallOK
  <1>3. call[c].pc # "over" => call[c].answer = "none"
    BY <1>2 DEF S!WhereOK, S!Entered
  <1>4. S!IsCall(call[c]) /\ S!IsBox(box[c])
    BY <1>2 DEF S!WhereOK
  <1>5. Hooks \in Seq(S!HookNames)
    BY AgentServicesAssumption DEF S!SandboxAssumption
  <1>. QED BY <1>1, <1>2, <1>3, <1>4, <1>5
           DEF S!SandboxInv, S!CallOK, Only, Unlogged, S!Concluded

\* A call that has not reached its tool, or never will.
LEMMA Outside ==
  ASSUME NEW c, NEW y, NEW b, NEW q, NEW p, NEW R, S!IsCall(y),
         \/ y.pc \in {"invoke", "pre"} /\ y.answer = "none"
         \/ y.pc = "over" /\ y.answer \in {"blocked", "unknown", "forbidden"},
         y.timedOut = "no", y.limited = "no", y.code = "none", y.removed = "no",
         b = S!NoBox, q = "none", p = "off", c \notin R
  PROVE  S!WhereOK(c, y, b, q, p, R)
  <1>1. /\ b.st = "absent" /\ b.limit = "no" /\ b.code = "none" /\ b.oom = "no"
        /\ S!IsBox(b) /\ S!BoxOK(b)
    BY DEF S!NoBox, S!IsBox, S!BoxOK
  <1>2. S!Entered(c, y, b, q, p, R)
    BY DEF S!Entered
  <1>3. ~S!Concluded(y)
    BY DEF S!Concluded
  <1>4. S!InSubprocess(y, b, q, p)
    BY <1>1 DEF S!InSubprocess
  <1>5. S!InContainer(y, b, q, p)
    BY <1>1, <1>3 DEF S!InContainer
  <1>. QED BY <1>1, <1>2, <1>4, <1>5 DEF S!WhereOK

\* The call goes to the chain, or nobody registered the tool.
LEMMA InvokeKeeps ==
  ASSUME S!SandboxInv, NEW c \in Calls, S!Invoke(c)
  PROVE  S!SandboxInv'
  <1>1. PICK x : x = call[c]
    OBVIOUS
  <1>2. /\ S!WhereOK(c, x, box[c], request[c], proxy[c], ran) /\ S!PassedOK(c, x, Hooks, ran)
        /\ S!IsCall(x)
        /\ x.pc = "invoke" /\ x.answer = "none" /\ ~S!Concluded(x) /\ Unlogged(x)
    BY <1>1, CallFacts DEF S!Invoke
  <1>3. PICK y : y = IF x.req.tool \in Registered THEN [x EXCEPT !.pc = "pre"]
                     ELSE [x EXCEPT !.pc = "over", !.answer = "unknown"]
    OBVIOUS
  <1>4. /\ S!IsCall(y) /\ y.req = x.req
        /\ y.inspected = x.inspected /\ y.removed = x.removed /\ y.i = x.i
        /\ y.code = x.code /\ y.timedOut = x.timedOut /\ y.limited = x.limited
        /\ (y.pc = "pre" /\ y.answer = "none") \/ (y.pc = "over" /\ y.answer = "unknown")
    BY <1>2, <1>3 DEF S!IsCall, S!PCs
  <1>5. S!WhereOK(c, y, box[c], request[c], proxy[c], ran)
    <2>1. /\ box[c] = S!NoBox /\ request[c] = "none" /\ proxy[c] = "off" /\ c \notin ran
          /\ x.timedOut = "no" /\ x.limited = "no" /\ x.code = "none" /\ x.removed = "no"
      BY <1>2 DEF S!WhereOK, S!Entered
    <2>. QED BY <2>1, <1>4, Outside
  <1>6. S!PassedOK(c, y, Hooks, ran)
    BY <1>2, <1>4 DEF S!PassedOK
  <1>7. ThreadStep(c, y)
    BY <1>1, <1>3, <1>4, <1>5, <1>6, CallFacts DEF ThreadStep, S!Invoke, S!SetCall, S!egress
  <1>8. ~S!Concluded(y) /\ Unlogged(y)
    BY <1>4 DEF S!Concluded, Unlogged
  <1>. QED BY <1>1, <1>2, <1>7, <1>8, QuietThread DEF S!Invoke

\* A skill or a subagent makes the call.
LEMMA CallToolKeeps ==
  ASSUME S!SandboxInv, NEW c \in Calls, NEW r, S!CallTool(c, r)
  PROVE  S!SandboxInv'
  <1>1. /\ S!WhereOK(c, call[c], box[c], request[c], proxy[c], ran)
        /\ call[c].pc = "idle" /\ ~S!Concluded(call[c]) /\ Unlogged(call[c])
        /\ S!CallOK(c)
    BY CallFacts DEF S!CallTool, S!SandboxInv
  <1>2. PICK y : y = [S!NoCall EXCEPT !.req = r,
                        !.pc = IF r.tool \in Permitted[r.agent] THEN "invoke" ELSE "over",
                        !.answer = IF r.tool \in Permitted[r.agent] THEN "none" ELSE "forbidden"]
    OBVIOUS
  <1>3. Hooks \in Seq(S!HookNames) /\ Len(Hooks) \in Nat
    BY CallFacts
  <1>4. /\ S!IsCall(y) /\ y.i = 1 /\ y.removed = "no"
        /\ y.code = "none" /\ y.timedOut = "no" /\ y.limited = "no"
        /\ (y.pc = "invoke" /\ y.answer = "none") \/ (y.pc = "over" /\ y.answer = "forbidden")
    <2>1. y = [pc |-> y.pc, req |-> r, i |-> 1, code |-> "none",
               timedOut |-> "no", limited |-> "no", inspected |-> "no", removed |-> "no",
               answer |-> y.answer]
      BY <1>2 DEF S!NoCall
    <2>2. (y.pc = "invoke" /\ y.answer = "none") \/ (y.pc = "over" /\ y.answer = "forbidden")
      BY <1>2 DEF S!NoCall
    <2>. QED BY <1>3, <2>1, <2>2 DEF S!IsCall, S!PCs
  <1>5. /\ box[c] = S!NoBox /\ request[c] = "none" /\ proxy[c] = "off" /\ c \notin ran
    BY <1>1 DEF S!WhereOK, S!Entered
  <1>6. S!WhereOK(c, y, box[c], request[c], proxy[c], ran)
    BY <1>4, <1>5, Outside
  <1>7. S!PassedOK(c, y, Hooks, ran)
    BY <1>3, <1>4, <1>5 DEF S!PassedOK
  <1>8. ~S!Concluded(y) /\ Unlogged(y)
    BY <1>4 DEF S!Concluded, Unlogged
  <1>9. S!RecordedOK(c, y, execLog, conn[c])
    BY <1>1, <1>8 DEF S!CallOK, S!RecordedOK
  <1>10. S!LoggedOK(c, y, Hooks, hookLog)
    BY <1>1, <1>8 DEF S!CallOK, S!LoggedOK, Unlogged
  <1>11. Only(c, call, call') /\ call'[c] = y
    <2>1. call' = [call EXCEPT ![c] = y]
      BY <1>2 DEF S!CallTool, S!SetCall
    <2>2. call = [e \in Calls |-> call[e]]
      BY DEF S!SandboxInv
    <2>. QED BY <2>1, <2>2, OneChanges
  <1>12. S!CallOK(c)'
    BY <1>1, <1>6, <1>7, <1>9, <1>10, <1>11 DEF S!CallOK, S!CallTool, S!egress
  <1>13. StepOf(c)
    BY <1>11, CallFacts DEF StepOf, S!CallTool, S!egress, S!SandboxInv, OnlyOf
  <1>. QED BY <1>12, <1>13, StepOfKeeps

\* The redaction hook of the chain redacts what is recorded.
LEMMA Redacts ==
  ASSUME Hooks \in Seq(S!HookNames),
         \E j \in 1..Len(Hooks) : Hooks[j] = "SecretRedactionHook"
  PROVE  S!RedactedCtx = "yes"
  <1>1. PICK j \in 1..Len(Hooks) : Hooks[j] = "SecretRedactionHook"
    OBVIOUS
  <1>2. j \in DOMAIN Hooks
    BY <1>1
  <1>. QED BY <1>1, <1>2 DEF S!RedactedCtx, S!ToSet

\* The next hook blocks the call or lets it pass.
LEMMA PreToolUseKeeps ==
  ASSUME S!SandboxInv, NEW c \in Calls, S!PreToolUse(c)
  PROVE  S!SandboxInv'
  <1>1. PICK x : x = call[c]
    OBVIOUS
  <1>2. /\ S!WhereOK(c, x, box[c], request[c], proxy[c], ran) /\ S!PassedOK(c, x, Hooks, ran)
        /\ S!IsCall(x) /\ x.pc = "pre" /\ x.answer = "none" /\ ~S!Concluded(x) /\ Unlogged(x)
        /\ Hooks \in Seq(S!HookNames) /\ Len(Hooks) \in Nat /\ x.i <= Len(Hooks)
        /\ x.i \in Nat \ {0}
    <2>1. S!IsCall(x) /\ S!PassedOK(c, x, Hooks, ran) /\ x.pc = "pre"
      BY <1>1, CallFacts DEF S!PreToolUse
    <2>2. x.i \in Nat \ {0}
      BY <2>1 DEF S!IsCall
    <2>. QED BY <1>1, <2>1, <2>2, CallFacts DEF S!PreToolUse
  <1>3. /\ box[c] = S!NoBox /\ request[c] = "none" /\ proxy[c] = "off" /\ c \notin ran
        /\ x.timedOut = "no" /\ x.limited = "no" /\ x.code = "none" /\ x.removed = "no"
    BY <1>2 DEF S!WhereOK, S!Entered
  <1>4. CASE S!Blocks(Hooks[x.i], x.req)
    <2>1. PICK y : y = [x EXCEPT !.pc = "over", !.answer = "blocked"]
      OBVIOUS
    <2>2. /\ S!IsCall(y) /\ y.req = x.req
          /\ y.inspected = x.inspected /\ y.removed = x.removed /\ y.i = x.i
          /\ y.code = x.code /\ y.timedOut = x.timedOut /\ y.limited = x.limited
          /\ y.pc = "over" /\ y.answer = "blocked"
      BY <1>2, <2>1 DEF S!IsCall, S!PCs
    <2>3. S!WhereOK(c, y, box[c], request[c], proxy[c], ran)
      BY <1>3, <2>2, Outside
    <2>4. S!PassedOK(c, y, Hooks, ran)
      BY <1>2, <2>2 DEF S!PassedOK
    <2>5. ThreadStep(c, y)
      BY <1>1, <1>4, <2>1, <2>2, <2>3, <2>4, CallFacts
         DEF ThreadStep, S!PreToolUse, S!SetCall, S!egress
    <2>6. PICK h : h = [call |-> c, blockedBy |-> Hooks[x.i], error |-> "no",
                        redacted |-> S!RedactedCtx]
      OBVIOUS
    <2>7. Hooks[x.i] \in S!HookNames
      BY <1>2
    <2>8. h.call = c /\ h.blockedBy # "none" /\ h.error = "no" /\ h.redacted = S!RedactedCtx
      BY <2>6, <2>7 DEF S!HookNames
    <2>9. hookLog' = hookLog \cup {h} /\ UNCHANGED execLog
      BY <1>1, <1>4, <2>6 DEF S!PreToolUse, S!Log
    <2>10. (\E j \in 1..Len(Hooks) : Hooks[j] = "SecretRedactionHook") => h.redacted = "yes"
      BY <1>2, <2>2, <2>8, Redacts
    <2>11. ~Unlogged(y) /\ (S!Concluded(y) <=> S!Concluded(call[c]))
      BY <1>1, <1>2, <2>2 DEF Unlogged, S!Concluded
    <2>. QED BY <1>1, <1>2, <2>2, <2>5, <2>8, <2>9, <2>10, <2>11, LogStep
  <1>5. CASE ~S!Blocks(Hooks[x.i], x.req)
    <2>1. PICK y : y = [x EXCEPT !.i = x.i + 1]
      OBVIOUS
    <2>2. /\ S!IsCall(y) /\ y.req = x.req
          /\ y.inspected = x.inspected /\ y.removed = x.removed /\ y.i = x.i + 1
          /\ y.code = x.code /\ y.timedOut = x.timedOut /\ y.limited = x.limited
          /\ y.pc = "pre" /\ y.answer = "none"
      BY <1>2, <2>1 DEF S!IsCall, S!PCs
    <2>3. S!WhereOK(c, y, box[c], request[c], proxy[c], ran)
      BY <1>3, <2>2, Outside
    <2>4. S!PassedOK(c, y, Hooks, ran)
      BY <1>2, <1>3, <1>5, <2>2 DEF S!PassedOK
    <2>5. ThreadStep(c, y)
      BY <1>1, <1>5, <2>1, <2>2, <2>3, <2>4, CallFacts
         DEF ThreadStep, S!PreToolUse, S!SetCall, S!egress
    <2>6. UNCHANGED <<hookLog, execLog>>
      BY <1>1, <1>5 DEF S!PreToolUse
    <2>7. ~S!Concluded(y) /\ Unlogged(y)
      BY <2>2 DEF S!Concluded, Unlogged
    <2>. QED BY <1>1, <1>2, <2>5, <2>6, <2>7, QuietThread
  <1>. QED BY <1>4, <1>5

\* The tool raised.
LEMMA ToolRaisedKeeps ==
  ASSUME S!SandboxInv, NEW c \in Calls, S!ToolRaised(c)
  PROVE  S!SandboxInv'
  <1>1. PICK x : x = call[c]
    OBVIOUS
  <1>2. /\ S!WhereOK(c, x, box[c], request[c], proxy[c], ran) /\ S!PassedOK(c, x, Hooks, ran)
        /\ S!IsCall(x) /\ x.pc = "raised" /\ x.answer = "none" /\ ~S!Concluded(x) /\ Unlogged(x)
        /\ Hooks \in Seq(S!HookNames)
    BY <1>1, CallFacts DEF S!ToolRaised
  <1>4. PICK y : y = [x EXCEPT !.pc = "over", !.answer = "error"]
    OBVIOUS
  <1>5. /\ S!IsCall(y) /\ y.req = x.req
        /\ y.inspected = x.inspected /\ y.removed = x.removed /\ y.i = x.i
        /\ y.code = x.code /\ y.timedOut = x.timedOut /\ y.limited = x.limited
        /\ y.pc = "over" /\ y.answer = "error"
    BY <1>2, <1>4 DEF S!IsCall, S!PCs
  <1>6. S!WhereOK(c, y, box[c], request[c], proxy[c], ran)
    BY <1>2, <1>5
       DEF S!WhereOK, S!Entered, S!InSubprocess, S!InContainer, S!RuntimeFor, S!Concluded
  <1>7. S!PassedOK(c, y, Hooks, ran)
    BY <1>2, <1>5 DEF S!PassedOK
  <1>8. ThreadStep(c, y)
    BY <1>1, <1>4, <1>5, <1>6, <1>7, CallFacts DEF ThreadStep, S!ToolRaised, S!SetCall, S!egress
  <1>9. PICK h : h = [call |-> c, blockedBy |-> "none", error |-> "yes", redacted |-> S!RedactedCtx]
    OBVIOUS
  <1>10. /\ h.call = c /\ h.blockedBy = "none" /\ h.error = "yes" /\ h.redacted = S!RedactedCtx
         /\ hookLog' = hookLog \cup {h} /\ UNCHANGED execLog
    BY <1>9 DEF S!ToolRaised, S!Log
  <1>11. (\E j \in 1..Len(Hooks) : Hooks[j] = "SecretRedactionHook") => h.redacted = "yes"
    BY <1>2, <1>5, <1>10, Redacts
  <1>12. ~Unlogged(y) /\ (S!Concluded(y) <=> S!Concluded(call[c]))
    BY <1>1, <1>2, <1>5 DEF Unlogged, S!Concluded
  <1>. QED BY <1>1, <1>2, <1>5, <1>8, <1>10, <1>11, <1>12, LogStep

\* The tool returned.
LEMMA PostToolUseKeeps ==
  ASSUME S!SandboxInv, NEW c \in Calls, S!PostToolUse(c)
  PROVE  S!SandboxInv'
  <1>1. PICK x : x = call[c]
    OBVIOUS
  <1>2. /\ S!WhereOK(c, x, box[c], request[c], proxy[c], ran) /\ S!PassedOK(c, x, Hooks, ran)
        /\ S!IsCall(x) /\ x.pc = "returned" /\ x.answer = "none" /\ Unlogged(x)
        /\ Hooks \in Seq(S!HookNames)
    BY <1>1, CallFacts DEF S!PostToolUse
  <1>4. PICK y : y = [x EXCEPT !.pc = "over", !.answer = "ok"]
    OBVIOUS
  <1>5. /\ S!IsCall(y) /\ y.req = x.req
        /\ y.inspected = x.inspected /\ y.removed = x.removed /\ y.i = x.i
        /\ y.code = x.code /\ y.timedOut = x.timedOut /\ y.limited = x.limited
        /\ y.pc = "over" /\ y.answer = "ok"
    BY <1>2, <1>4 DEF S!IsCall, S!PCs
  <1>6. S!WhereOK(c, y, box[c], request[c], proxy[c], ran)
    BY <1>2, <1>5
       DEF S!WhereOK, S!Entered, S!InSubprocess, S!InContainer, S!RuntimeFor, S!Concluded
  <1>7. S!PassedOK(c, y, Hooks, ran)
    BY <1>2, <1>5 DEF S!PassedOK
  <1>8. ThreadStep(c, y)
    BY <1>1, <1>4, <1>5, <1>6, <1>7, CallFacts DEF ThreadStep, S!PostToolUse, S!SetCall, S!egress
  <1>9. PICK h : h = [call |-> c, blockedBy |-> "none", error |-> "no", redacted |-> S!RedactedCtx]
    OBVIOUS
  <1>10. /\ h.call = c /\ h.blockedBy = "none" /\ h.error = "no" /\ h.redacted = S!RedactedCtx
         /\ hookLog' = hookLog \cup {h} /\ UNCHANGED execLog
    BY <1>9 DEF S!PostToolUse, S!Log
  <1>11. (\E j \in 1..Len(Hooks) : Hooks[j] = "SecretRedactionHook") => h.redacted = "yes"
    BY <1>2, <1>5, <1>10, Redacts
  <1>12. ~Unlogged(y) /\ (S!Concluded(y) <=> S!Concluded(call[c]))
    BY <1>1, <1>2, <1>5 DEF Unlogged, S!Concluded
  <1>. QED BY <1>1, <1>2, <1>5, <1>8, <1>10, <1>11, <1>12, LogStep

\* The proxy of c, started or stopped.
LEMMA ProxyMoves ==
  ASSUME S!SandboxInv, NEW c \in Calls
  PROVE  /\ Only(c, proxy, S!ProxyStarted(c)) /\ S!ProxyStarted(c)[c] \in {proxy[c], "listening"}
         /\ Only(c, proxy, S!ProxyStopped(c)) /\ S!ProxyStopped(c)[c] \in {proxy[c], "closed"}
         /\ S!ProxyStopped(c)[c] # "listening"
         /\ Only(c, proxy, [proxy EXCEPT ![c] = "closed"])
         /\ [proxy EXCEPT ![c] = "closed"][c] = "closed"
  <1>1. proxy = [e \in Calls |-> proxy[e]]
    BY DEF S!SandboxInv
  <1>. QED BY <1>1 DEF Only, S!ProxyStarted, S!ProxyStopped

\* The tool starts its command.
LEMMA ExecuteSubprocessKeeps ==
  ASSUME S!SandboxInv, NEW c \in Calls, S!ExecuteSubprocess(c)
  PROVE  S!SandboxInv'
  <1>1. PICK x, b : x = call[c] /\ b = box[c]
    OBVIOUS
  <1>2. /\ S!WhereOK(c, x, b, request[c], proxy[c], ran) /\ S!PassedOK(c, x, Hooks, ran)
        /\ S!IsCall(x) /\ S!IsBox(b) /\ x.answer = "none" /\ ~S!Concluded(x) /\ Unlogged(x)
        /\ x.pc = "pre"
        /\ S!RuntimeFor(x) = "subprocess"
        /\ x.i > Len(Hooks)
    BY <1>1, CallFacts DEF S!ExecuteSubprocess, S!Runtime, S!RuntimeFor
  <1>3. PICK y : y = [x EXCEPT !.pc = "wait"]
    OBVIOUS
  <1>4. /\ S!IsCall(y) /\ y.answer = "none"
        /\ y.req = x.req
        /\ y.inspected = x.inspected /\ y.removed = x.removed /\ y.i = x.i /\ y.code = x.code
        /\ y.timedOut = x.timedOut /\ y.limited = x.limited
        /\ y.pc = "wait"
    BY <1>2, <1>3 DEF S!IsCall, S!PCs
  <1>5. PICK d : d = [S!NoBox EXCEPT !.st = "running"]
    OBVIOUS
  <1>6. S!IsBox(d) /\ d.st = "running" /\ d.code = "none" /\ d.limit = "no"
    BY <1>2, <1>5 DEF S!IsBox, S!NoBox
  <1>7. Only(c, box, box') /\ box'[c] = d
    <2>1. box' = [box EXCEPT ![c] = d]
      BY <1>1, <1>5 DEF S!ExecuteSubprocess, S!SetBox
    <2>2. box = [e \in Calls |-> box[e]]
      BY DEF S!SandboxInv
    <2>. QED BY <2>1, <2>2, OneChanges
  <1>8. Only(c, proxy, proxy') /\ proxy'[c] \in {proxy[c], "listening"}
    BY <1>1, <1>2, CallFacts, ProxyMoves DEF S!ExecuteSubprocess
  <1>9. Only(c, request, request') /\ request'[c] = request[c]
    BY CallFacts DEF S!ExecuteSubprocess
  <1>10. S!WhereOK(c, y, d, request'[c], proxy'[c], ran \cup {c})
    BY <1>2, <1>4, <1>6, <1>8, <1>9
       DEF S!WhereOK, S!Entered, S!InSubprocess, S!InContainer, S!RuntimeFor, S!Concluded, S!BoxOK
  <1>11. S!PassedOK(c, y, Hooks, ran \cup {c})
    <2>1. x.i \in Nat /\ Len(Hooks) \in Nat
      BY <1>2, CallFacts DEF S!IsCall
    <2>. QED BY <1>2, <1>4, <2>1 DEF S!PassedOK
  <1>12. ThreadStep(c, y)
    BY <1>1, <1>3, <1>4, <1>7, <1>8, <1>9, <1>10, <1>11, CallFacts
       DEF ThreadStep, S!ExecuteSubprocess, S!SetCall, S!egress
  <1>13. ~S!Concluded(y) /\ Unlogged(y)
    BY <1>4 DEF S!Concluded, Unlogged
  <1>. QED BY <1>1, <1>2, <1>12, <1>13, QuietThread DEF S!ExecuteSubprocess

\* The operating system refuses the command.
LEMMA SubprocessRefusedKeeps ==
  ASSUME S!SandboxInv, NEW c \in Calls, S!SubprocessRefused(c)
  PROVE  S!SandboxInv'
  <1>1. PICK x, b : x = call[c] /\ b = box[c]
    OBVIOUS
  <1>2. /\ S!WhereOK(c, x, b, request[c], proxy[c], ran) /\ S!PassedOK(c, x, Hooks, ran)
        /\ S!IsCall(x) /\ S!IsBox(b) /\ x.answer = "none" /\ ~S!Concluded(x) /\ Unlogged(x)
        /\ x.pc = "pre"
        /\ S!RuntimeFor(x) = "subprocess"
        /\ x.i > Len(Hooks)
    BY <1>1, CallFacts DEF S!SubprocessRefused, S!Runtime, S!RuntimeFor
  <1>3. PICK y : y = [x EXCEPT !.pc = "raised"]
    OBVIOUS
  <1>4. /\ S!IsCall(y) /\ y.answer = "none"
        /\ y.req = x.req
        /\ y.inspected = x.inspected /\ y.removed = x.removed /\ y.i = x.i /\ y.code = x.code
        /\ y.timedOut = x.timedOut /\ y.limited = x.limited
        /\ y.pc = "raised"
    BY <1>2, <1>3 DEF S!IsCall, S!PCs
  <1>5. Only(c, box, box') /\ box'[c] = b
    BY <1>1, CallFacts DEF S!SubprocessRefused
  <1>6. Only(c, proxy, proxy') /\ proxy'[c] \in {proxy[c], "closed"}
    BY <1>1, <1>2, CallFacts, ProxyMoves DEF S!SubprocessRefused
  <1>7. Only(c, request, request') /\ request'[c] = request[c]
    BY CallFacts DEF S!SubprocessRefused
  <1>8. S!WhereOK(c, y, b, request'[c], proxy'[c], ran \cup {c})
    BY <1>2, <1>4, <1>6, <1>7
       DEF S!WhereOK, S!Entered, S!InSubprocess, S!InContainer, S!RuntimeFor, S!Concluded,
           S!BoxOK, S!NoBox
  <1>9. S!PassedOK(c, y, Hooks, ran \cup {c})
    <2>1. x.i \in Nat /\ Len(Hooks) \in Nat
      BY <1>2, CallFacts DEF S!IsCall
    <2>. QED BY <1>2, <1>4, <2>1 DEF S!PassedOK
  <1>10. ThreadStep(c, y)
    <2>1. failures' \in 0..MaxFailures
      BY CallFacts, AgentServicesAssumption DEF S!SubprocessRefused, S!SandboxAssumption
    <2>. QED BY <1>1, <1>3, <1>4, <1>5, <1>6, <1>7, <1>8, <1>9, <2>1
                DEF ThreadStep, S!SubprocessRefused, S!SetCall, S!egress
  <1>11. ~S!Concluded(y) /\ Unlogged(y)
    BY <1>4 DEF S!Concluded, Unlogged
  <1>. QED BY <1>1, <1>2, <1>10, <1>11, QuietThread DEF S!SubprocessRefused

\* The tool asks for its container.
LEMMA ExecuteDockerKeeps ==
  ASSUME S!SandboxInv, NEW c \in Calls, S!ExecuteDocker(c)
  PROVE  S!SandboxInv'
  <1>1. PICK x, b : x = call[c] /\ b = box[c]
    OBVIOUS
  <1>2. /\ S!WhereOK(c, x, b, request[c], proxy[c], ran) /\ S!PassedOK(c, x, Hooks, ran)
        /\ S!IsCall(x) /\ S!IsBox(b) /\ x.answer = "none" /\ ~S!Concluded(x) /\ Unlogged(x)
        /\ x.pc = "pre"
        /\ S!RuntimeFor(x) = "docker"
        /\ x.i > Len(Hooks)
    BY <1>1, CallFacts DEF S!ExecuteDocker, S!Runtime, S!RuntimeFor
  <1>3. PICK y : y = [x EXCEPT !.pc = "wait"]
    OBVIOUS
  <1>4. /\ S!IsCall(y) /\ y.answer = "none"
        /\ y.req = x.req
        /\ y.inspected = x.inspected /\ y.removed = x.removed /\ y.i = x.i /\ y.code = x.code
        /\ y.timedOut = x.timedOut /\ y.limited = x.limited
        /\ y.pc = "wait"
    BY <1>2, <1>3 DEF S!IsCall, S!PCs
  <1>5. Only(c, box, box') /\ box'[c] = b
    BY <1>1, CallFacts DEF S!ExecuteDocker
  <1>6. Only(c, proxy, proxy') /\ proxy'[c] \in {proxy[c], "listening"}
    BY <1>1, <1>2, CallFacts, ProxyMoves DEF S!ExecuteDocker
  <1>7. Only(c, request, request') /\ request'[c] = "create"
    <2>1. request' = [request EXCEPT ![c] = "create"]
      BY DEF S!ExecuteDocker
    <2>2. request = [e \in Calls |-> request[e]]
      BY DEF S!SandboxInv
    <2>. QED BY <2>1, <2>2, OneChanges
  <1>8. S!WhereOK(c, y, b, request'[c], proxy'[c], ran \cup {c})
    BY <1>2, <1>4, <1>6, <1>7
       DEF S!WhereOK, S!Entered, S!InSubprocess, S!InContainer, S!RuntimeFor, S!Concluded,
           S!BoxOK, S!NoBox
  <1>9. S!PassedOK(c, y, Hooks, ran \cup {c})
    <2>1. x.i \in Nat /\ Len(Hooks) \in Nat
      BY <1>2, CallFacts DEF S!IsCall
    <2>. QED BY <1>2, <1>4, <2>1 DEF S!PassedOK
  <1>10. ThreadStep(c, y)
    BY <1>1, <1>3, <1>4, <1>5, <1>6, <1>7, <1>8, <1>9, CallFacts
       DEF ThreadStep, S!ExecuteDocker, S!SetCall, S!egress
  <1>11. ~S!Concluded(y) /\ Unlogged(y)
    BY <1>4 DEF S!Concluded, Unlogged
  <1>. QED BY <1>1, <1>2, <1>10, <1>11, QuietThread DEF S!ExecuteDocker

\* The client returns the code of the container.
LEMMA DockerEndedKeeps ==
  ASSUME S!SandboxInv, NEW c \in Calls, S!DockerEnded(c)
  PROVE  S!SandboxInv'
  <1>1. PICK x, b : x = call[c] /\ b = box[c]
    OBVIOUS
  <1>2. /\ S!WhereOK(c, x, b, request[c], proxy[c], ran) /\ S!PassedOK(c, x, Hooks, ran)
        /\ S!IsCall(x) /\ S!IsBox(b) /\ x.answer = "none" /\ ~S!Concluded(x) /\ Unlogged(x)
        /\ x.pc = "wait"
        /\ S!RuntimeFor(x) = "docker"
        /\ b.st = "exited"
    BY <1>1, CallFacts DEF S!DockerEnded, S!Runtime, S!RuntimeFor
  <1>3. PICK y : y = [x EXCEPT !.pc = "inspect", !.code = b.code]
    OBVIOUS
  <1>4. /\ S!IsCall(y) /\ y.answer = "none"
        /\ y.req = x.req /\ y.inspected = x.inspected /\ y.removed = x.removed /\ y.i = x.i
        /\ y.timedOut = x.timedOut /\ y.limited = x.limited
        /\ y.pc = "inspect" /\ y.code = b.code
    BY <1>2, <1>3 DEF S!IsCall, S!PCs
  <1>5. Only(c, box, box') /\ box'[c] = b
    BY <1>1, CallFacts DEF S!DockerEnded
  <1>6. Only(c, proxy, proxy') /\ proxy'[c] = proxy[c]
    BY CallFacts DEF S!DockerEnded, S!egress
  <1>7. Only(c, request, request') /\ request'[c] = request[c]
    BY CallFacts DEF S!DockerEnded
  <1>8. S!WhereOK(c, y, b, request'[c], proxy'[c], ran)
    BY <1>2, <1>4, <1>6, <1>7
       DEF S!WhereOK, S!Entered, S!InSubprocess, S!InContainer, S!RuntimeFor, S!Concluded, S!BoxOK
  <1>9. S!PassedOK(c, y, Hooks, ran)
    BY <1>2, <1>4 DEF S!PassedOK
  <1>10. ThreadStep(c, y)
    BY <1>1, <1>3, <1>4, <1>5, <1>6, <1>7, <1>8, <1>9, CallFacts
       DEF ThreadStep, S!DockerEnded, S!SetCall, S!egress
  <1>11. ~S!Concluded(y) /\ Unlogged(y)
    BY <1>4 DEF S!Concluded, Unlogged
  <1>. QED BY <1>1, <1>2, <1>10, <1>11, QuietThread DEF S!DockerEnded

\* The client is killed.
LEMMA DockerTimeoutKeeps ==
  ASSUME S!SandboxInv, NEW c \in Calls, S!DockerTimeout(c)
  PROVE  S!SandboxInv'
  <1>1. PICK x, b : x = call[c] /\ b = box[c]
    OBVIOUS
  <1>2. /\ S!WhereOK(c, x, b, request[c], proxy[c], ran) /\ S!PassedOK(c, x, Hooks, ran)
        /\ S!IsCall(x) /\ S!IsBox(b) /\ x.answer = "none" /\ ~S!Concluded(x) /\ Unlogged(x)
        /\ x.pc = "wait"
        /\ S!RuntimeFor(x) = "docker"
        /\ b.st # "exited"
    BY <1>1, CallFacts DEF S!DockerTimeout, S!Runtime, S!RuntimeFor
  <1>3. PICK y : y = [x EXCEPT !.pc = "kill", !.timedOut = "yes"]
    OBVIOUS
  <1>4. /\ S!IsCall(y) /\ y.answer = "none"
        /\ y.req = x.req
        /\ y.inspected = x.inspected /\ y.removed = x.removed /\ y.i = x.i /\ y.code = x.code /\ y.limited = x.limited
        /\ y.pc = "kill" /\ y.timedOut = "yes"
    BY <1>2, <1>3 DEF S!IsCall, S!PCs
  <1>5. Only(c, box, box') /\ box'[c] = b
    BY <1>1, CallFacts DEF S!DockerTimeout
  <1>6. Only(c, proxy, proxy') /\ proxy'[c] = proxy[c]
    BY CallFacts DEF S!DockerTimeout, S!egress
  <1>7. Only(c, request, request') /\ request'[c] = request[c]
    BY CallFacts DEF S!DockerTimeout
  <1>8. S!WhereOK(c, y, b, request'[c], proxy'[c], ran)
    BY <1>2, <1>4, <1>6, <1>7
       DEF S!WhereOK, S!Entered, S!InSubprocess, S!InContainer, S!RuntimeFor, S!Concluded, S!BoxOK
  <1>9. S!PassedOK(c, y, Hooks, ran)
    BY <1>2, <1>4 DEF S!PassedOK
  <1>10. ThreadStep(c, y)
    BY <1>1, <1>3, <1>4, <1>5, <1>6, <1>7, <1>8, <1>9, CallFacts
       DEF ThreadStep, S!DockerTimeout, S!SetCall, S!egress
  <1>11. ~S!Concluded(y) /\ Unlogged(y)
    BY <1>4 DEF S!Concluded, Unlogged
  <1>. QED BY <1>1, <1>2, <1>10, <1>11, QuietThread DEF S!DockerTimeout

\* The container is killed, if it runs.
LEMMA DockerKillKeeps ==
  ASSUME S!SandboxInv, NEW c \in Calls, NEW ok \in BOOLEAN, S!DockerKill(c, ok)
  PROVE  S!SandboxInv'
  <1>1. PICK x, b : x = call[c] /\ b = box[c]
    OBVIOUS
  <1>2. /\ S!WhereOK(c, x, b, request[c], proxy[c], ran) /\ S!PassedOK(c, x, Hooks, ran)
        /\ S!IsCall(x) /\ S!IsBox(b) /\ x.answer = "none" /\ ~S!Concluded(x) /\ Unlogged(x)
        /\ x.pc = "kill"
    BY <1>1, CallFacts DEF S!DockerKill, S!Runtime, S!RuntimeFor
  <1>3. PICK y : y = [x EXCEPT !.pc = "inspect"]
    OBVIOUS
  <1>4. /\ S!IsCall(y) /\ y.answer = "none"
        /\ y.req = x.req
        /\ y.inspected = x.inspected /\ y.removed = x.removed /\ y.i = x.i /\ y.code = x.code
        /\ y.timedOut = x.timedOut /\ y.limited = x.limited
        /\ y.pc = "inspect"
    BY <1>2, <1>3 DEF S!IsCall, S!PCs
  <1>5. PICK d : d = IF ok /\ b.st = "running"
                     THEN [b EXCEPT !.st = "exited", !.code = "signal"] ELSE b
    OBVIOUS
  <1>6. /\ S!IsBox(d) /\ d.oom = b.oom /\ d.limit = b.limit
        /\ d = b \/ (b.st = "running" /\ d.st = "exited" /\ d.code = "signal")
    BY <1>2, <1>5 DEF S!IsBox, S!NoBox
  <1>7. Only(c, box, box') /\ box'[c] = d
    <2>1. CASE ok /\ b.st = "running"
      <3>1. box' = [box EXCEPT ![c] = d]
        BY <1>1, <1>5, <2>1 DEF S!DockerKill, S!SetBox
      <3>2. box = [e \in Calls |-> box[e]]
        BY DEF S!SandboxInv
      <3>. QED BY <3>1, <3>2, OneChanges
    <2>2. CASE ~(ok /\ b.st = "running")
      BY <1>1, <1>5, <2>2, CallFacts DEF S!DockerKill
    <2>. QED BY <2>1, <2>2
  <1>8. Only(c, proxy, proxy') /\ proxy'[c] = proxy[c]
    BY CallFacts DEF S!DockerKill, S!egress
  <1>9. Only(c, request, request') /\ request'[c] = request[c]
    BY CallFacts DEF S!DockerKill
  <1>10. S!WhereOK(c, y, d, request'[c], proxy'[c], ran)
    BY <1>2, <1>4, <1>6, <1>8, <1>9
       DEF S!WhereOK, S!Entered, S!InSubprocess, S!InContainer, S!RuntimeFor, S!Concluded, S!BoxOK
  <1>11. S!PassedOK(c, y, Hooks, ran)
    BY <1>2, <1>4 DEF S!PassedOK
  <1>12. ThreadStep(c, y)
    BY <1>1, <1>3, <1>4, <1>7, <1>8, <1>9, <1>10, <1>11, CallFacts
       DEF ThreadStep, S!DockerKill, S!SetCall, S!egress
  <1>13. ~S!Concluded(y) /\ Unlogged(y)
    BY <1>4 DEF S!Concluded, Unlogged
  <1>. QED BY <1>1, <1>2, <1>12, <1>13, QuietThread DEF S!DockerKill

\* The container is removed, whatever its state, unless `docker rm' fails.
LEMMA RemoveBoxKeeps ==
  ASSUME S!SandboxInv, NEW c \in Calls, NEW ok \in BOOLEAN, S!RemoveBox(c, ok)
  PROVE  S!SandboxInv'
  <1>1. PICK x, b : x = call[c] /\ b = box[c]
    OBVIOUS
  <1>2. /\ S!WhereOK(c, x, b, request[c], proxy[c], ran) /\ S!PassedOK(c, x, Hooks, ran)
        /\ S!IsCall(x) /\ S!IsBox(b) /\ x.answer = "none" /\ ~S!Concluded(x) /\ Unlogged(x)
        /\ x.pc = "remove"
    BY <1>1, CallFacts DEF S!RemoveBox, S!Runtime, S!RuntimeFor
  <1>3. PICK y : y = [x EXCEPT !.pc = "conclude", !.removed = IF ok THEN "yes" ELSE "no"]
    OBVIOUS
  <1>4. /\ S!IsCall(y) /\ y.answer = "none"
        /\ y.req = x.req
        /\ y.inspected = x.inspected /\ (y.removed = "yes" <=> ok) /\ y.i = x.i /\ y.code = x.code
        /\ y.timedOut = x.timedOut /\ y.limited = x.limited
        /\ y.pc = "conclude"
    BY <1>2, <1>3 DEF S!IsCall, S!PCs
  <1>5. PICK d : d = IF ok THEN S!NoBox ELSE b
    OBVIOUS
  <1>6. /\ S!IsBox(d) /\ (ok => d.st = "absent" /\ d.code = "none" /\ d.limit = "no")
        /\ (~ok => d = b)
    BY <1>2, <1>5 DEF S!IsBox, S!NoBox
  <1>7. Only(c, box, box') /\ box'[c] = d
    <2>1. box' = [box EXCEPT ![c] = d]
      BY <1>1, <1>5 DEF S!RemoveBox, S!SetBox, S!BoxRemoved
    <2>2. box = [e \in Calls |-> box[e]]
      BY DEF S!SandboxInv
    <2>. QED BY <2>1, <2>2, OneChanges
  <1>8. Only(c, proxy, proxy') /\ proxy'[c] = proxy[c]
    BY CallFacts DEF S!RemoveBox, S!egress
  <1>9. Only(c, request, request') /\ request'[c] = request[c]
    BY CallFacts DEF S!RemoveBox
  <1>10. S!WhereOK(c, y, d, request'[c], proxy'[c], ran)
    BY <1>2, <1>4, <1>6, <1>8, <1>9
       DEF S!WhereOK, S!Entered, S!InSubprocess, S!InContainer, S!RuntimeFor, S!Concluded, S!BoxOK
  <1>11. S!PassedOK(c, y, Hooks, ran)
    BY <1>2, <1>4 DEF S!PassedOK
  <1>12. ThreadStep(c, y)
    BY <1>1, <1>3, <1>4, <1>7, <1>8, <1>9, <1>10, <1>11, CallFacts
       DEF ThreadStep, S!RemoveBox, S!SetCall, S!egress
  <1>13. ~S!Concluded(y) /\ Unlogged(y)
    BY <1>4 DEF S!Concluded, Unlogged
  <1>. QED BY <1>1, <1>2, <1>12, <1>13, QuietThread DEF S!RemoveBox

\* The command ended, and is recorded.
LEMMA SubprocessEndedKeeps ==
  ASSUME S!SandboxInv, NEW c \in Calls, S!SubprocessEnded(c)
  PROVE  S!SandboxInv'
  <1>1. PICK x, b : x = call[c] /\ b = box[c]
    OBVIOUS
  <1>2. /\ S!WhereOK(c, x, b, request[c], proxy[c], ran) /\ S!PassedOK(c, x, Hooks, ran)
        /\ S!IsCall(x) /\ S!IsBox(b) /\ x.answer = "none" /\ ~S!Concluded(x) /\ Unlogged(x)
        /\ x.pc = "wait"
        /\ S!RuntimeFor(x) = "subprocess"
        /\ b.st = "exited"
    BY <1>1, CallFacts DEF S!SubprocessEnded, S!Runtime, S!RuntimeFor
  <1>3. PICK y : y = [x EXCEPT !.pc = "returned", !.code = b.code,
                      !.limited = IF b.code = "signal" THEN "yes" ELSE "no"]
    OBVIOUS
  <1>4. /\ S!IsCall(y) /\ y.answer = "none"
        /\ y.req = x.req
        /\ y.inspected = x.inspected /\ y.removed = x.removed /\ y.i = x.i /\ y.timedOut = x.timedOut
        /\ y.pc = "returned" /\ y.code = b.code /\ y.limited = IF b.code = "signal"
                    THEN "yes" ELSE "no"
    BY <1>2, <1>3 DEF S!IsCall, S!PCs
  <1>5. PICK gone, d : /\ gone \in {"absent", "orphaned"} /\ d = [b EXCEPT !.st = gone]
                    /\ box' = [box EXCEPT ![c] = d]
    BY <1>1 DEF S!SubprocessEnded, S!SetBox
  <1>6. S!IsBox(d) /\ d.st \in {"absent", "orphaned"} /\ d.code = b.code /\ d.limit = b.limit /\ d.oom = b.oom
    BY <1>2, <1>5 DEF S!IsBox, S!NoBox
  <1>7. Only(c, box, box') /\ box'[c] = d
    <2>1. box' = [box EXCEPT ![c] = d]
      BY <1>5
    <2>2. box = [e \in Calls |-> box[e]]
      BY DEF S!SandboxInv
    <2>. QED BY <2>1, <2>2, OneChanges
  <1>8. Only(c, proxy, proxy') /\ proxy'[c] \in {proxy[c], "closed"} /\ proxy'[c] # "listening"
    BY <1>1, <1>2, CallFacts, ProxyMoves DEF S!SubprocessEnded
  <1>9. Only(c, request, request') /\ request'[c] = request[c]
    BY CallFacts DEF S!SubprocessEnded
  <1>10. S!WhereOK(c, y, d, request'[c], proxy'[c], ran)
    BY <1>2, <1>4, <1>6, <1>8, <1>9
       DEF S!WhereOK, S!Entered, S!InSubprocess, S!InContainer, S!RuntimeFor, S!Concluded, S!BoxOK
  <1>11. S!PassedOK(c, y, Hooks, ran)
    BY <1>2, <1>4 DEF S!PassedOK
  <1>12. ThreadStep(c, y)
    BY <1>1, <1>3, <1>4, <1>7, <1>8, <1>9, <1>10, <1>11, CallFacts
       DEF ThreadStep, S!SubprocessEnded, S!SetCall, S!egress
  <1>13. x.code = "none" /\ x.timedOut = "no"
    BY <1>2 DEF S!WhereOK, S!Entered
  <1>14. PICK r : r = [call |-> c, tier |-> S!TierOf(x.req), code |-> b.code,
                       timedOut |-> "no", decisions |-> {}]
    OBVIOUS
  <1>15. /\ execLog' = execLog \cup {r} /\ UNCHANGED hookLog
         /\ r.call = c /\ r.code = y.code /\ r.timedOut = y.timedOut
         /\ S!RuntimeFor(y) = "docker" => r.decisions = decisions[c]
    BY <1>1, <1>2, <1>4, <1>13, <1>14 DEF S!SubprocessEnded, S!Audit, S!RuntimeFor
  <1>16. S!Concluded(y) /\ Unlogged(y)
    BY <1>4 DEF S!Concluded, Unlogged
  <1>. QED BY <1>1, <1>2, <1>12, <1>15, <1>16, AuditStep

\* The command is killed, and recorded as timed out.
LEMMA SubprocessTimeoutKeeps ==
  ASSUME S!SandboxInv, NEW c \in Calls, S!SubprocessTimeout(c)
  PROVE  S!SandboxInv'
  <1>1. PICK x, b : x = call[c] /\ b = box[c]
    OBVIOUS
  <1>2. /\ S!WhereOK(c, x, b, request[c], proxy[c], ran) /\ S!PassedOK(c, x, Hooks, ran)
        /\ S!IsCall(x) /\ S!IsBox(b) /\ x.answer = "none" /\ ~S!Concluded(x) /\ Unlogged(x)
        /\ x.pc = "wait"
        /\ S!RuntimeFor(x) = "subprocess"
        /\ b.st = "running"
    BY <1>1, CallFacts DEF S!SubprocessTimeout, S!Runtime, S!RuntimeFor
  <1>3. PICK y : y = [x EXCEPT !.pc = "returned", !.timedOut = "yes"]
    OBVIOUS
  <1>4. /\ S!IsCall(y) /\ y.answer = "none"
        /\ y.req = x.req
        /\ y.inspected = x.inspected /\ y.removed = x.removed /\ y.i = x.i /\ y.code = x.code /\ y.limited = x.limited
        /\ y.pc = "returned" /\ y.timedOut = "yes"
    BY <1>2, <1>3 DEF S!IsCall, S!PCs
  <1>5. PICK gone, d : /\ gone \in {"absent", "orphaned"} /\ d = [S!NoBox EXCEPT !.st = gone]
                    /\ box' = [box EXCEPT ![c] = d]
    BY DEF S!SubprocessTimeout, S!SetBox
  <1>6. S!IsBox(d) /\ d.st \in {"absent", "orphaned"} /\ d.code = "none" /\ d.limit = "no"
    BY <1>2, <1>5 DEF S!IsBox, S!NoBox
  <1>7. Only(c, box, box') /\ box'[c] = d
    <2>1. box' = [box EXCEPT ![c] = d]
      BY <1>5
    <2>2. box = [e \in Calls |-> box[e]]
      BY DEF S!SandboxInv
    <2>. QED BY <2>1, <2>2, OneChanges
  <1>8. Only(c, proxy, proxy') /\ proxy'[c] \in {proxy[c], "closed"} /\ proxy'[c] # "listening"
    BY <1>1, <1>2, CallFacts, ProxyMoves DEF S!SubprocessTimeout
  <1>9. Only(c, request, request') /\ request'[c] = request[c]
    BY CallFacts DEF S!SubprocessTimeout
  <1>10. S!WhereOK(c, y, d, request'[c], proxy'[c], ran)
    BY <1>2, <1>4, <1>6, <1>8, <1>9
       DEF S!WhereOK, S!Entered, S!InSubprocess, S!InContainer, S!RuntimeFor, S!Concluded, S!BoxOK
  <1>11. S!PassedOK(c, y, Hooks, ran)
    BY <1>2, <1>4 DEF S!PassedOK
  <1>12. ThreadStep(c, y)
    BY <1>1, <1>3, <1>4, <1>7, <1>8, <1>9, <1>10, <1>11, CallFacts
       DEF ThreadStep, S!SubprocessTimeout, S!SetCall, S!egress
  <1>13. x.code = "none" /\ x.timedOut = "no"
    BY <1>2 DEF S!WhereOK, S!Entered
  <1>14. PICK r : r = [call |-> c, tier |-> S!TierOf(x.req), code |-> "none",
                       timedOut |-> "yes", decisions |-> {}]
    OBVIOUS
  <1>15. /\ execLog' = execLog \cup {r} /\ UNCHANGED hookLog
         /\ r.call = c /\ r.code = y.code /\ r.timedOut = y.timedOut
         /\ S!RuntimeFor(y) = "docker" => r.decisions = decisions[c]
    BY <1>1, <1>2, <1>4, <1>13, <1>14 DEF S!SubprocessTimeout, S!Audit, S!RuntimeFor
  <1>16. S!Concluded(y) /\ Unlogged(y)
    BY <1>4 DEF S!Concluded, Unlogged
  <1>. QED BY <1>1, <1>2, <1>12, <1>15, <1>16, AuditStep

\* The execution in the container is recorded.
LEMMA ConcludeKeeps ==
  ASSUME S!SandboxInv, NEW c \in Calls, S!Conclude(c)
  PROVE  S!SandboxInv'
  <1>1. PICK x, b : x = call[c] /\ b = box[c]
    OBVIOUS
  <1>2. /\ S!WhereOK(c, x, b, request[c], proxy[c], ran) /\ S!PassedOK(c, x, Hooks, ran)
        /\ S!IsCall(x) /\ S!IsBox(b) /\ x.answer = "none" /\ ~S!Concluded(x) /\ Unlogged(x)
        /\ x.pc = "conclude"
    BY <1>1, CallFacts DEF S!Conclude, S!Runtime, S!RuntimeFor
  <1>3. PICK y : y = [x EXCEPT !.pc = "returned"]
    OBVIOUS
  <1>4. /\ S!IsCall(y) /\ y.answer = "none"
        /\ y.req = x.req
        /\ y.inspected = x.inspected /\ y.removed = x.removed /\ y.i = x.i /\ y.code = x.code
        /\ y.timedOut = x.timedOut /\ y.limited = x.limited
        /\ y.pc = "returned"
    BY <1>2, <1>3 DEF S!IsCall, S!PCs
  <1>5. Only(c, box, box') /\ box'[c] = b
    BY <1>1, CallFacts DEF S!Conclude
  <1>6. Only(c, proxy, proxy') /\ proxy'[c] \in {proxy[c], "closed"} /\ proxy'[c] # "listening"
    BY <1>1, <1>2, CallFacts, ProxyMoves DEF S!Conclude
  <1>7. Only(c, request, request') /\ request'[c] = request[c]
    BY CallFacts DEF S!Conclude
  <1>8. S!WhereOK(c, y, b, request'[c], proxy'[c], ran)
    BY <1>2, <1>4, <1>6, <1>7
       DEF S!WhereOK, S!Entered, S!InSubprocess, S!InContainer, S!RuntimeFor, S!Concluded, S!BoxOK
  <1>9. S!PassedOK(c, y, Hooks, ran)
    BY <1>2, <1>4 DEF S!PassedOK
  <1>10. ThreadStep(c, y)
    BY <1>1, <1>3, <1>4, <1>5, <1>6, <1>7, <1>8, <1>9, CallFacts
       DEF ThreadStep, S!Conclude, S!SetCall, S!egress
  <1>11. PICK r : r = [call |-> c, tier |-> S!TierOf(x.req), code |-> x.code,
                       timedOut |-> x.timedOut, decisions |-> decisions[c]]
    OBVIOUS
  <1>12. /\ execLog' = execLog \cup {r} /\ UNCHANGED hookLog
         /\ r.call = c /\ r.code = y.code /\ r.timedOut = y.timedOut
         /\ S!RuntimeFor(y) = "docker" => r.decisions = decisions[c]
    BY <1>1, <1>2, <1>4, <1>11 DEF S!Conclude, S!Audit, S!RuntimeFor
  <1>13. S!Concluded(y) /\ Unlogged(y)
    BY <1>4 DEF S!Concluded, Unlogged
  <1>. QED BY <1>1, <1>2, <1>10, <1>12, <1>13, AuditStep

\* A docker command cannot be launched.
LEMMA DockerRefusedKeeps ==
  ASSUME S!SandboxInv, NEW c \in Calls, S!DockerRefused(c)
  PROVE  S!SandboxInv'
  <1>1. PICK x, b : x = call[c] /\ b = box[c]
    OBVIOUS
  <1>2. /\ S!WhereOK(c, x, b, request[c], proxy[c], ran) /\ S!PassedOK(c, x, Hooks, ran)
        /\ S!IsCall(x) /\ S!IsBox(b) /\ x.answer = "none" /\ ~S!Concluded(x) /\ Unlogged(x)
        /\ \/ x.pc = "pre" /\ x.i > Len(Hooks) /\ S!RuntimeFor(x) = "docker"
           \/ x.pc \in {"kill", "inspect", "remove"}
    BY <1>1, CallFacts DEF S!DockerRefused, S!Runtime, S!RuntimeFor
  <1>3. PICK y : y = [x EXCEPT !.pc = "raised"]
    OBVIOUS
  <1>4. /\ S!IsCall(y) /\ y.answer = "none" /\ y.pc = "raised"
        /\ y.req = x.req
        /\ y.inspected = x.inspected /\ y.removed = x.removed /\ y.i = x.i /\ y.code = x.code
        /\ y.timedOut = x.timedOut /\ y.limited = x.limited
    BY <1>2, <1>3 DEF S!IsCall, S!PCs
  <1>5. Only(c, proxy, proxy') /\ proxy'[c] \in {proxy[c], "listening"}
    BY CallFacts, ProxyMoves DEF S!DockerRefused
  <1>6. S!WhereOK(c, y, b, request[c], proxy'[c], ran \cup {c})
    BY <1>2, <1>4, <1>5
       DEF S!WhereOK, S!Entered, S!InSubprocess, S!InContainer, S!RuntimeFor, S!Concluded,
                            S!BoxOK, S!NoBox
  <1>7. S!PassedOK(c, y, Hooks, ran \cup {c})
    <2>1. x.i \in Nat /\ Len(Hooks) \in Nat
      BY <1>2, CallFacts DEF S!IsCall
    <2>2. Len(Hooks) < x.i
      BY <1>2, <2>1 DEF S!PassedOK, S!WhereOK, S!Entered
    <2>. QED BY <1>2, <1>4, <2>1, <2>2 DEF S!PassedOK
  <1>8. ThreadStep(c, y)
    <2>1. failures' \in 0..MaxFailures
      BY CallFacts, AgentServicesAssumption DEF S!DockerRefused, S!SandboxAssumption
    <2>. QED BY <1>1, <1>3, <1>4, <1>5, <1>6, <1>7, <2>1, CallFacts
             DEF ThreadStep, S!DockerRefused, S!SetCall
  <1>9. ~S!Concluded(y) /\ Unlogged(y)
    BY <1>4 DEF S!Concluded, Unlogged
  <1>. QED BY <1>1, <1>2, <1>8, <1>9, QuietThread DEF S!DockerRefused

\* The container is inspected before it is removed.
LEMMA InspectKeeps ==
  ASSUME S!SandboxInv, NEW c \in Calls, NEW ok \in BOOLEAN, S!Inspect(c, ok)
  PROVE  S!SandboxInv'
  <1>1. PICK x, b : x = call[c] /\ b = box[c]
    OBVIOUS
  <1>2. /\ S!WhereOK(c, x, b, request[c], proxy[c], ran) /\ S!PassedOK(c, x, Hooks, ran)
        /\ S!IsCall(x) /\ S!IsBox(b) /\ x.answer = "none" /\ ~S!Concluded(x) /\ Unlogged(x)
        /\ x.pc = "inspect"
    BY <1>1, CallFacts DEF S!Inspect, S!Runtime, S!RuntimeFor
  <1>3. PICK y : y = [x EXCEPT !.pc = "remove", !.inspected = IF ok THEN "yes" ELSE "no",
                      !.limited = IF x.code # "none" /\ ((ok /\ b.oom = "yes") \/ x.code = "signal")
                                  THEN "yes" ELSE "no"]
    OBVIOUS
  <1>4. /\ S!IsCall(y) /\ y.answer = "none"
        /\ y.req = x.req
        /\ (y.inspected = "yes" <=> ok) /\ y.removed = x.removed /\ y.i = x.i /\ y.code = x.code
        /\ y.timedOut = x.timedOut
        /\ y.pc = "remove" /\ y.limited = IF x.code # "none" /\ ((ok /\ b.oom = "yes") \/ x.code = "signal")
                    THEN "yes" ELSE "no"
    BY <1>2, <1>3 DEF S!IsCall, S!PCs
  <1>5. Only(c, box, box') /\ box'[c] = b
    BY <1>1, CallFacts DEF S!Inspect
  <1>6. Only(c, proxy, proxy') /\ proxy'[c] = proxy[c]
    BY CallFacts DEF S!Inspect, S!egress
  <1>7. Only(c, request, request') /\ request'[c] = request[c]
    BY CallFacts DEF S!Inspect
  <1>8. S!WhereOK(c, y, b, request'[c], proxy'[c], ran)
    BY <1>2, <1>4, <1>6, <1>7
       DEF S!WhereOK, S!Entered, S!InSubprocess, S!InContainer, S!RuntimeFor, S!Concluded, S!BoxOK
  <1>9. S!PassedOK(c, y, Hooks, ran)
    BY <1>2, <1>4 DEF S!PassedOK
  <1>10. ThreadStep(c, y)
    BY <1>1, <1>3, <1>4, <1>5, <1>6, <1>7, <1>8, <1>9, CallFacts
       DEF ThreadStep, S!Inspect, S!SetCall, S!egress, S!WasResourceLimited
  <1>11. ~S!Concluded(y) /\ Unlogged(y)
    BY <1>4 DEF S!Concluded, Unlogged
  <1>. QED BY <1>1, <1>2, <1>10, <1>11, QuietThread DEF S!Inspect

\* What a step of the container or the command of c starts from.
LEMMA EgressFacts ==
  ASSUME S!SandboxInv, NEW c \in Calls
  PROVE  /\ S!ToldOK(conn[c], decisions[c]) /\ S!RecordedOK(c, call[c], execLog, conn[c])
         /\ conn = [e \in Calls |-> conn[e]] /\ decisions = [e \in Calls |-> decisions[e]]
         /\ request = [e \in Calls |-> request[e]] /\ box = [e \in Calls |-> box[e]]
         /\ call = [e \in Calls |-> call[e]]
  BY DEF S!SandboxInv, S!CallOK

\* Nothing is assigned.
LEMMA SameValue ==
  ASSUME NEW c \in Calls, NEW f, f = [e \in Calls |-> f[e]]
  PROVE  [f EXCEPT ![c] = f[c]] = f
  OBVIOUS

\* The daemon serves the request to create c's container.
LEMMA DaemonCreateKeeps ==
  ASSUME S!SandboxInv, NEW c \in Calls, NEW ok \in BOOLEAN, S!DaemonCreate(c, ok)
  PROVE  S!SandboxInv'
  <1>1. PICK x, b : x = call[c] /\ b = box[c]
    OBVIOUS
  <1>2. /\ S!WhereOK(c, x, b, "create", proxy[c], ran) /\ S!PassedOK(c, x, Hooks, ran)
        /\ S!IsCall(x) /\ S!IsBox(b) /\ request[c] = "create"
    BY <1>1, CallFacts DEF S!DaemonCreate
  <1>3. CASE ~ok /\ x.pc = "wait"
    <2>1. PICK y : y = [x EXCEPT !.pc = "inspect", !.code = "refused"]
      OBVIOUS
    <2>2. /\ S!IsCall(y) /\ y.answer = x.answer /\ y.pc = "inspect" /\ y.code = "refused"
          /\ y.req = x.req /\ y.inspected = x.inspected /\ y.removed = x.removed /\ y.i = x.i
          /\ y.timedOut = x.timedOut /\ y.limited = x.limited
      BY <1>2, <2>1 DEF S!IsCall, S!PCs
    <2>3. x.answer = "none" /\ ~S!Concluded(x) /\ Unlogged(x)
      BY <1>1, <1>3, CallFacts
    <2>4. Only(c, request, request') /\ request'[c] = "none"
      <3>1. request' = [request EXCEPT ![c] = "none"]
        BY <1>1, <1>3 DEF S!DaemonCreate
      <3>2. request = [e \in Calls |-> request[e]]
        BY DEF S!SandboxInv
      <3>. QED BY <3>1, <3>2, OneChanges
    <2>5. S!WhereOK(c, y, b, "none", proxy[c], ran)
      BY <1>2, <1>3, <2>2, <2>3
         DEF S!WhereOK, S!Entered, S!InSubprocess, S!InContainer, S!RuntimeFor, S!Concluded, S!BoxOK
    <2>6. S!PassedOK(c, y, Hooks, ran)
      BY <1>2, <1>3, <2>2 DEF S!PassedOK
    <2>7. ThreadStep(c, y)
      BY <1>1, <1>3, <2>1, <2>2, <2>4, <2>5, <2>6, CallFacts
         DEF ThreadStep, S!DaemonCreate, S!SetCall, S!egress
    <2>8. ~S!Concluded(y) /\ Unlogged(y)
      BY <2>2, <2>3 DEF S!Concluded, Unlogged
    <2>. QED BY <1>1, <2>3, <2>7, <2>8, QuietThread DEF S!DaemonCreate
  <1>4. CASE ~(~ok /\ x.pc = "wait")
    <2>1. PICK d : d = IF ok THEN [S!NoBox EXCEPT !.st = "created"] ELSE b
      OBVIOUS
    <2>2. /\ S!IsBox(d) /\ (ok => d.st = "created" /\ d.code = "none" /\ d.limit = "no")
          /\ (~ok => d = b)
      BY <1>2, <2>1 DEF S!IsBox, S!NoBox
    <2>3. Only(c, box, box') /\ box'[c] = d
      <3>1. CASE ok
        <4>1. box' = [box EXCEPT ![c] = d] /\ box = [e \in Calls |-> box[e]]
          BY <2>1, <3>1, EgressFacts DEF S!DaemonCreate, S!SetBox
        <4>. QED BY <4>1, OneChanges
      <3>2. CASE ~ok
        BY <1>1, <2>1, <3>2, CallFacts DEF S!DaemonCreate
      <3>. QED BY <3>1, <3>2
    <2>4. PICK q : q = IF ok /\ x.pc = "wait" THEN "start" ELSE "none"
      OBVIOUS
    <2>5. Only(c, request, request') /\ request'[c] = q
      <3>1. request' = [request EXCEPT ![c] = q]
        BY <1>1, <2>4 DEF S!DaemonCreate
      <3>2. request = [e \in Calls |-> request[e]]
        BY DEF S!SandboxInv
      <3>. QED BY <3>1, <3>2, OneChanges
    <2>6. call' = call
      <3>1. call' = [call EXCEPT ![c] = call[c]]
        BY <1>1, <1>4 DEF S!DaemonCreate, S!SetCall
      <3>. QED BY <3>1, SameValue, EgressFacts
    <2>7. S!WhereOK(c, x, d, q, proxy[c], ran)
      BY <1>2, <1>4, <2>2, <2>4
         DEF S!WhereOK, S!Entered, S!InSubprocess, S!InContainer, S!RuntimeFor, S!Concluded, S!BoxOK
    <2>. QED BY <1>1, <2>3, <2>5, <2>6, <2>7, EnvironmentStep, CallFacts, EgressFacts
             DEF S!DaemonCreate, S!egress
  <1>. QED BY <1>3, <1>4

\* The daemon serves the request to start c's container.
LEMMA DaemonStartKeeps ==
  ASSUME S!SandboxInv, NEW c \in Calls, NEW ok \in BOOLEAN, S!DaemonStart(c, ok)
  PROVE  S!SandboxInv'
  <1>1. PICK x, b : x = call[c] /\ b = box[c]
    OBVIOUS
  <1>2. /\ S!WhereOK(c, x, b, "start", proxy[c], ran) /\ S!IsCall(x) /\ S!IsBox(b)
    BY <1>1, CallFacts DEF S!DaemonStart
  <1>3. Only(c, request, request') /\ request'[c] = "none"
    <2>1. request' = [request EXCEPT ![c] = "none"]
      BY DEF S!DaemonStart
    <2>2. request = [e \in Calls |-> request[e]]
      BY DEF S!SandboxInv
    <2>. QED BY <2>1, <2>2, OneChanges
  <1>4. CASE b.st = "created"
    <2>1. PICK d : d = IF ok THEN [b EXCEPT !.st = "running"]
                       ELSE [b EXCEPT !.st = "exited", !.code = "refused"]
      OBVIOUS
    <2>2. /\ S!IsBox(d) /\ d.limit = b.limit /\ d.oom = b.oom
          /\ d.st = "running" \/ (d.st = "exited" /\ d.code = "refused")
      BY <1>2, <2>1 DEF S!IsBox
    <2>3. Only(c, box, box') /\ box'[c] = d
      <3>1. box' = [box EXCEPT ![c] = d]
        BY <1>1, <1>4, <2>1 DEF S!DaemonStart, S!SetBox
      <3>2. box = [e \in Calls |-> box[e]]
        BY DEF S!SandboxInv
      <3>. QED BY <3>1, <3>2, OneChanges
    <2>4. S!WhereOK(c, x, d, "none", proxy[c], ran)
      <3>1. b # S!NoBox
        BY <1>4 DEF S!NoBox
      <3>. QED BY <1>2, <1>4, <2>2, <3>1
           DEF S!WhereOK, S!Entered, S!InSubprocess, S!InContainer, S!RuntimeFor, S!Concluded,
               S!BoxOK
    <2>. QED BY <1>1, <1>3, <2>3, <2>4, EnvironmentStep, CallFacts, EgressFacts
             DEF S!DaemonStart, S!egress
  <1>5. CASE b.st # "created"
    <2>1. Only(c, box, box') /\ box'[c] = b
      BY <1>1, <1>5, CallFacts DEF S!DaemonStart
    <2>2. S!WhereOK(c, x, b, "none", proxy[c], ran)
      BY <1>2, <1>5
         DEF S!WhereOK, S!Entered, S!InSubprocess, S!InContainer, S!RuntimeFor, S!Concluded,
             S!BoxOK
    <2>. QED BY <1>1, <1>3, <2>1, <2>2, EnvironmentStep, CallFacts, EgressFacts
             DEF S!DaemonStart, S!egress
  <1>. QED BY <1>4, <1>5

\* The command ends.
LEMMA CommandEndsKeeps ==
  ASSUME S!SandboxInv, NEW c \in Calls, NEW code \in {"clean", "failed", "signal"},
         NEW oom \in {"yes", "no"}, NEW limit \in {"yes", "no"},
         S!CommandEnds(c, code, oom, limit)
  PROVE  S!SandboxInv'
  <1>1. PICK x, b : x = call[c] /\ b = box[c]
    OBVIOUS
  <1>2. /\ S!WhereOK(c, x, b, request[c], proxy[c], ran) /\ S!IsCall(x) /\ S!IsBox(b)
        /\ b.st = "running" /\ (limit = "yes" => code = "signal")
        /\ (oom = "yes" => S!RuntimeFor(x) = "docker")
    BY <1>1, CallFacts DEF S!CommandEnds, S!Runtime, S!RuntimeFor
  <1>3. PICK d : d = [st |-> "exited", code |-> code, oom |-> oom,
                      limit |-> IF oom = "yes" THEN "yes" ELSE limit]
    OBVIOUS
  <1>4. /\ S!IsBox(d) /\ d.st = "exited" /\ d.code = code /\ d.oom = oom
        /\ d.limit \in {"yes", "no"} /\ (d.limit = "yes" => d.oom = "yes" \/ d.code = "signal")
    BY <1>2, <1>3 DEF S!IsBox
  <1>5. Only(c, box, box') /\ box'[c] = d
    <2>1. box' = [box EXCEPT ![c] = d]
      BY <1>3 DEF S!CommandEnds, S!SetBox
    <2>2. box = [e \in Calls |-> box[e]]
      BY DEF S!SandboxInv
    <2>. QED BY <2>1, <2>2, OneChanges
  <1>6. S!WhereOK(c, x, d, request[c], proxy[c], ran)
    <2>1. b # S!NoBox
      BY <1>2 DEF S!NoBox
    <2>. QED BY <1>2, <1>4, <2>1
         DEF S!WhereOK, S!Entered, S!InSubprocess, S!InContainer, S!RuntimeFor, S!Concluded, S!BoxOK
  <1>. QED BY <1>1, <1>5, <1>6, EnvironmentStep, CallFacts, EgressFacts
              DEF S!CommandEnds, S!egress

\* The connections change; what the command was told is recorded.
LEMMA ConnStep ==
  ASSUME S!SandboxInv, NEW c \in Calls, NEW n,
         conn' = [conn EXCEPT ![c] = n], Only(c, decisions, decisions'),
         S!ToldOK(n, decisions'[c]), S!RecordedOK(c, call[c], execLog, n),
         UNCHANGED <<call, ran, hookLog, box, request, proxy, execLog, failures>>
  PROVE  S!SandboxInv'
  <1>1. Only(c, conn, conn') /\ conn'[c] = n
    <2>1. conn' = [conn EXCEPT ![c] = n]
      OBVIOUS
    <2>2. conn = [e \in Calls |-> conn[e]]
      BY DEF S!SandboxInv
    <2>. QED BY <2>1, <2>2, OneChanges
  <1>. QED BY <1>1, EnvironmentStep, CallFacts

\* One connection changes; its decision is recorded when it was told.
LEMMA ConnMoves ==
  ASSUME NEW m, NEW D, NEW D2, S!ToldOK(m, D), NEW k \in S!Conns, NEW n,
         n = [j \in S!Conns |-> n[j]], \A j \in S!Conns : j # k => n[j] = m[j],
         D \subseteq D2, D2 \subseteq S!Conns \X {"allow", "deny"},
         n[k][1] \in {"decided", "answered"} => <<k, S!Verdict(n[k][2])>> \in D2
  PROVE  S!ToldOK(n, D2)
  <1>1. \A j \in S!Conns : m[j][1] \in {"decided", "answered"} => <<j, S!Verdict(m[j][2])>> \in D
    BY DEF S!ToldOK
  <1>2. \A j \in S!Conns : n[j][1] \in {"decided", "answered"} => <<j, S!Verdict(n[j][2])>> \in D2
    BY <1>1
  <1>. QED BY <1>2 DEF S!ToldOK

\* The execution's record stands: nothing new was told to its command.
LEMMA StillRecorded ==
  ASSUME NEW c, NEW x, NEW E, NEW m, NEW n, S!RecordedOK(c, x, E, m),
         S!Concluded(x) /\ S!RuntimeFor(x) = "docker" /\ x.removed = "yes" =>
           \A j \in S!Conns : n[j][1] = "answered" => n[j] = m[j]
  PROVE  S!RecordedOK(c, x, E, n)
  <1>1. CASE S!Concluded(x)
    <2>1. PICK e \in E :
             /\ \A f \in E : f.call = c => f = e
             /\ e.call = c /\ e.code = x.code /\ e.timedOut = x.timedOut
             /\ S!RuntimeFor(x) = "docker" /\ x.removed = "yes" =>
                  \A k \in S!Conns : m[k][1] = "answered"
                              => <<k, S!Verdict(m[k][2])>> \in e.decisions
      BY <1>1 DEF S!RecordedOK
    <2>2. S!RuntimeFor(x) = "docker" /\ x.removed = "yes" =>
            \A k \in S!Conns : n[k][1] = "answered" => <<k, S!Verdict(n[k][2])>> \in e.decisions
      BY <1>1, <2>1
    <2>. QED BY <1>1, <2>1, <2>2 DEF S!RecordedOK
  <1>2. CASE ~S!Concluded(x)
    BY <1>2 DEF S!RecordedOK
  <1>. QED BY <1>1, <1>2

\* A connection is opened, accepted, refused as malformed or dropped: nothing is
\* decided.
LEMMA ConnectKeeps ==
  ASSUME S!SandboxInv, NEW c \in Calls, NEW k \in S!Conns, NEW host,
         \/ S!Connect(c, k, host) \/ S!Serve(c, k)
         \/ S!BadRequest(c, k) \/ S!Unheard(c, k)
  PROVE  S!SandboxInv'
  <1>1. PICK m : m = conn[c]
    OBVIOUS
  <1>2. S!ToldOK(m, decisions[c]) /\ S!RecordedOK(c, call[c], execLog, m)
    BY <1>1, EgressFacts
  <1>3. PICK st, h : st \in {"queued", "accepted", "bad", "dropped"}
                   /\ conn' = [conn EXCEPT ![c][k] = <<st, h>>]
    BY DEF S!Connect, S!Serve, S!BadRequest, S!Unheard, S!SetConn
  <1>4. PICK v, n : v = <<st, h>> /\ n = [m EXCEPT ![k] = v]
    OBVIOUS
  <1>5. conn' = [conn EXCEPT ![c] = n]
    BY <1>1, <1>3, <1>4
  <1>6. S!ToldOK(n, decisions[c]) /\ \A j \in S!Conns : n[j][1] = "answered" => n[j] = m[j]
    <2>2. /\ n = [j \in S!Conns |-> n[j]] /\ \A j \in S!Conns : j # k => n[j] = m[j]
          /\ n[k] = v
      <3>1. m = [j \in S!Conns |-> m[j]]
        BY <1>2 DEF S!ToldOK
      <3>2. n = [j \in S!Conns |-> IF j = k THEN v ELSE m[j]]
        BY <1>4, <3>1
      <3>3. n = [j \in S!Conns |-> n[j]]
        BY <3>2
      <3>. QED BY <3>2, <3>3
    <2>3. n[k][1] = st /\ n[k][1] \notin {"decided", "answered"}
      BY <1>3, <1>4, <2>2
    <2>4. S!ToldOK(n, decisions[c])
      <3>1. PICK D : D = decisions[c]
        OBVIOUS
      <3>2. /\ D \subseteq S!Conns \X {"allow", "deny"}
            /\ \A j \in S!Conns :
                 m[j][1] \in {"decided", "answered"} => <<j, S!Verdict(m[j][2])>> \in D
        BY <1>2, <3>1 DEF S!ToldOK
      <3>3. ASSUME NEW j \in S!Conns, n[j][1] \in {"decided", "answered"}
            PROVE  <<j, S!Verdict(n[j][2])>> \in D
        <4>1. j # k
          BY <2>3, <3>3
        <4>2. n[j] = m[j]
          BY <2>2, <4>1
        <4>. QED BY <3>2, <3>3, <4>2
      <3>. QED BY <2>2, <3>1, <3>2, <3>3 DEF S!ToldOK
    <2>. QED BY <1>3, <2>2, <2>3, <2>4
  <1>7. S!RecordedOK(c, call[c], execLog, n)
    BY <1>2, <1>6, StillRecorded
  <1>8. UNCHANGED <<call, ran, hookLog, box, request, proxy, decisions, execLog, failures>>
    BY DEF S!Connect, S!Serve, S!BadRequest, S!Unheard
  <1>9. Only(c, decisions, decisions') /\ decisions'[c] = decisions[c]
    BY <1>8, CallFacts
  <1>. QED BY <1>5, <1>6, <1>7, <1>8, <1>9, ConnStep

\* The handler decides, and records the decision.
LEMMA DecideKeeps ==
  ASSUME S!SandboxInv, NEW c \in Calls, NEW k \in S!Conns, S!Decide(c, k)
  PROVE  S!SandboxInv'
  <1>1. PICK m, D : m = conn[c] /\ D = decisions[c]
    OBVIOUS
  <1>2. S!ToldOK(m, D) /\ S!RecordedOK(c, call[c], execLog, m)
    BY <1>1, EgressFacts
  <1>3. PICK v, n : v = <<"decided", m[k][2]>> /\ n = [m EXCEPT ![k] = v]
    OBVIOUS
  <1>4. conn' = [conn EXCEPT ![c] = n]
    BY <1>1, <1>3 DEF S!Decide, S!SetConn
  <1>5. PICK D2 : D2 = D \cup {<<k, S!Verdict(m[k][2])>>}
    OBVIOUS
  <1>6. Only(c, decisions, decisions') /\ decisions'[c] = D2
    <2>1. decisions' = [decisions EXCEPT ![c] = D2]
      BY <1>1, <1>5 DEF S!Decide
    <2>2. decisions = [e \in Calls |-> decisions[e]]
      BY DEF S!SandboxInv
    <2>. QED BY <2>1, <2>2, OneChanges
  <1>7. S!ToldOK(n, D2) /\ \A j \in S!Conns : n[j][1] = "answered" => n[j] = m[j]
    <2>1. D \subseteq S!Conns \X {"allow", "deny"}
      BY <1>2 DEF S!ToldOK
    <2>2. S!Verdict(m[k][2]) \in {"allow", "deny"}
      BY DEF S!Verdict
    <2>3. /\ D \subseteq D2 /\ D2 \subseteq S!Conns \X {"allow", "deny"}
          /\ <<k, S!Verdict(m[k][2])>> \in D2
      BY <1>5, <2>1, <2>2
    <2>4. /\ n = [j \in S!Conns |-> n[j]] /\ \A j \in S!Conns : j # k => n[j] = m[j]
          /\ n[k] = v
      <3>1. m = [j \in S!Conns |-> m[j]]
        BY <1>2 DEF S!ToldOK
      <3>2. n = [j \in S!Conns |-> IF j = k THEN v ELSE m[j]]
        BY <1>3, <3>1
      <3>3. n = [j \in S!Conns |-> n[j]]
        BY <3>2
      <3>. QED BY <3>2, <3>3
    <2>5. n[k][1] = "decided" /\ n[k][2] = m[k][2]
      BY <1>3, <2>4
    <2>6. S!ToldOK(n, D2)
      BY <1>2, <2>3, <2>4, <2>5, ConnMoves
    <2>. QED BY <2>4, <2>5, <2>6
  <1>8. S!RecordedOK(c, call[c], execLog, n)
    BY <1>2, <1>7, StillRecorded
  <1>9. UNCHANGED <<call, ran, hookLog, box, request, proxy, execLog, failures>>
    BY DEF S!Decide
  <1>. QED BY <1>4, <1>6, <1>7, <1>8, <1>9, ConnStep

\* The handler answers; a container that was removed does not hear it.
LEMMA AnswerKeeps ==
  ASSUME S!SandboxInv, NEW c \in Calls, NEW k \in S!Conns, S!Answer(c, k)
  PROVE  S!SandboxInv'
  <1>1. PICK m, D : m = conn[c] /\ D = decisions[c]
    OBVIOUS
  <1>2. S!ToldOK(m, D) /\ S!RecordedOK(c, call[c], execLog, m)
    BY <1>1, EgressFacts
  <1>3. PICK st : st = IF S!Alive(c) THEN "answered" ELSE "dropped"
    OBVIOUS
  <1>4. PICK v, n : v = <<st, m[k][2]>> /\ n = [m EXCEPT ![k] = v]
    OBVIOUS
  <1>5. conn' = [conn EXCEPT ![c] = n]
    BY <1>1, <1>3, <1>4 DEF S!Answer, S!SetConn
  <1>6. /\ S!ToldOK(n, D)
        /\ \A j \in S!Conns : n[j][1] = "answered" => (n[j] = m[j] \/ st = "answered")
    <2>1. D \subseteq S!Conns \X {"allow", "deny"}
      BY <1>2 DEF S!ToldOK
    <2>2. <<k, S!Verdict(m[k][2])>> \in D
      BY <1>1, <1>2 DEF S!ToldOK, S!Answer
    <2>3. /\ n = [j \in S!Conns |-> n[j]] /\ \A j \in S!Conns : j # k => n[j] = m[j]
          /\ n[k] = v
      <3>1. m = [j \in S!Conns |-> m[j]]
        BY <1>2 DEF S!ToldOK
      <3>2. n = [j \in S!Conns |-> IF j = k THEN v ELSE m[j]]
        BY <1>4, <3>1
      <3>3. n = [j \in S!Conns |-> n[j]]
        BY <3>2
      <3>. QED BY <3>2, <3>3
    <2>4. n[k][1] = st /\ n[k][2] = m[k][2]
      BY <1>4, <2>3
    <2>5. S!ToldOK(n, D)
      BY <1>2, <2>1, <2>2, <2>3, <2>4, ConnMoves
    <2>. QED BY <2>3, <2>4, <2>5
  <1>7. (S!Concluded(call[c]) /\ S!RuntimeFor(call[c]) = "docker" /\ call[c].removed = "yes")
          => st # "answered"
    <2>1. S!WhereOK(c, call[c], box[c], request[c], proxy[c], ran)
      BY CallFacts
    <2>2. S!Concluded(call[c]) => call[c].pc # "idle"
      BY <2>1 DEF S!WhereOK, S!Entered, S!Concluded
    <2>. QED BY <1>3, <2>1, <2>2 DEF S!WhereOK, S!InContainer, S!Alive
  <1>8. S!RecordedOK(c, call[c], execLog, n)
    BY <1>2, <1>6, <1>7, StillRecorded
  <1>9. UNCHANGED <<call, ran, hookLog, box, request, proxy, decisions, execLog, failures>>
    BY DEF S!Answer
  <1>10. Only(c, decisions, decisions') /\ decisions'[c] = D
    BY <1>1, <1>9, CallFacts
  <1>. QED BY <1>5, <1>6, <1>8, <1>9, <1>10, ConnStep

\* No call was made yet.
LEMMA SandboxInit ==
  ASSUME S!Init
  PROVE  S!SandboxInv
  <1>1. /\ ran \subseteq Calls /\ failures \in 0..MaxFailures
    BY AgentServicesAssumption DEF S!Init, S!SandboxAssumption
  <1>2. ASSUME NEW c \in Calls PROVE S!CallOK(c)
    <2>1. /\ call[c] = S!NoCall /\ box[c] = S!NoBox /\ request[c] = "none" /\ proxy[c] = "off"
          /\ ran = {} /\ hookLog = {} /\ execLog = {} /\ decisions[c] = {}
          /\ conn[c] = [k \in S!Conns |-> <<"none", "none">>]
      BY DEF S!Init
    <2>2. PICK x, b, n : x = call[c] /\ b = box[c] /\ n = conn[c]
      OBVIOUS
    <2>3. S!IsCall(x) /\ x.pc = "idle" /\ x.answer = "none"
      BY <2>1, <2>2 DEF S!IsCall, S!NoCall, S!PCs
    <2>4. S!IsBox(b) /\ S!BoxOK(b)
      BY <2>1, <2>2 DEF S!IsBox, S!BoxOK, S!NoBox
    <2>5. S!WhereOK(c, x, b, "none", "off", {})
      BY <2>1, <2>2, <2>3, <2>4 DEF S!WhereOK, S!Entered
    <2>6. n = [k \in S!Conns |-> n[k]] /\ \A k \in S!Conns : n[k][1] = "none"
      BY <2>1, <2>2
    <2>7. S!ToldOK(n, {})
      BY <2>6 DEF S!ToldOK
    <2>8. S!RecordedOK(c, x, {}, n)
      BY <2>3 DEF S!RecordedOK, S!Concluded
    <2>9. S!PassedOK(c, x, Hooks, {})
      BY <2>3 DEF S!PassedOK
    <2>10. S!LoggedOK(c, x, Hooks, {})
      BY <2>3 DEF S!LoggedOK
    <2>. QED BY <2>1, <2>2, <2>5, <2>7, <2>8, <2>9, <2>10 DEF S!CallOK
  <1>3. /\ call = [c \in Calls |-> call[c]] /\ box = [c \in Calls |-> box[c]]
        /\ request = [c \in Calls |-> request[c]] /\ proxy = [c \in Calls |-> proxy[c]]
        /\ conn = [c \in Calls |-> conn[c]] /\ decisions = [c \in Calls |-> decisions[c]]
    BY DEF S!Init
  <1>. QED BY <1>1, <1>2, <1>3 DEF S!SandboxInv

\* Every step of a thread, a command, the daemon or a proxy keeps the invariant.
LEMMA SandboxNext ==
  ASSUME S!SandboxInv, [S!Next]_(S!vars)
  PROVE  S!SandboxInv'
  <1>1. ASSUME NEW c \in Calls, S!Progress(c) PROVE S!SandboxInv'
    BY <1>1, InvokeKeeps, PreToolUseKeeps, ToolRaisedKeeps, PostToolUseKeeps,
       ExecuteSubprocessKeeps, SubprocessEndedKeeps, SubprocessTimeoutKeeps,
       ExecuteDockerKeeps, DockerEndedKeeps, DockerTimeoutKeeps, DockerKillKeeps,
       InspectKeeps, RemoveBoxKeeps, ConcludeKeeps, SubprocessRefusedKeeps, DockerRefusedKeeps
       DEF S!Progress
  <1>2. ASSUME NEW c \in Calls, S!Environment(c) PROVE S!SandboxInv'
    <2>1. ASSUME NEW ok \in BOOLEAN, S!DaemonCreate(c, ok) \/ S!DaemonStart(c, ok)
          PROVE S!SandboxInv'
      BY <2>1, DaemonCreateKeeps, DaemonStartKeeps
    <2>2. ASSUME NEW code \in {"clean", "failed", "signal"}, NEW oom \in {"yes", "no"},
                 NEW limit \in {"yes", "no"}, S!CommandEnds(c, code, oom, limit)
          PROVE  S!SandboxInv'
      BY <2>2, CommandEndsKeeps
    <2>3. ASSUME NEW k \in S!Conns, NEW host,
                 \/ S!Serve(c, k) \/ S!Decide(c, k) \/ S!Answer(c, k)
                 \/ S!Connect(c, k, host) \/ S!BadRequest(c, k) \/ S!Unheard(c, k)
          PROVE  S!SandboxInv'
      BY <2>3, ConnectKeeps, DecideKeeps, AnswerKeeps
    <2>. QED BY <1>2, <2>1, <2>2, <2>3 DEF S!Environment
  <1>3. ASSUME UNCHANGED S!vars PROVE S!SandboxInv'
    <2>1. UNCHANGED <<call, ran, hookLog, box, request, proxy, conn, decisions, execLog,
                      failures>>
      BY <1>3 DEF S!vars
    <2>2. ASSUME NEW c \in Calls PROVE S!CallOK(c)'
      BY <2>1 DEF S!SandboxInv, S!CallOK
    <2>. QED BY <2>1, <2>2 DEF S!SandboxInv
  <1>. QED BY <1>1, <1>2, <1>3, CallToolKeeps DEF S!Next

\* What returned, or was refused as a subprocess, runs no more.
LEMMA NothingRuns ==
  ASSUME S!SandboxInv
  PROVE  S!NothingLeftRunning
  <1>1. SUFFICES ASSUME NEW c \in Calls, call[c].pc \in {"returned", "over"}, c \in ran,
                        call[c].answer # "error" \/ S!Runtime(c) = "subprocess"
                 PROVE  /\ proxy[c] # "listening"
                        /\ S!Runtime(c) = "subprocess" \/ call[c].removed = "yes" =>
                             /\ box[c].st # "running"
                             /\ ~(box[c].st = "created" /\ request[c] = "start")
    BY DEF S!NothingLeftRunning
  <1>2. PICK x, b : x = call[c] /\ b = box[c]
    OBVIOUS
  <1>3. S!WhereOK(c, x, b, request[c], proxy[c], ran) /\ x.pc \in {"returned", "over"}
    BY <1>1, <1>2, CallFacts
  <1>4. S!Concluded(x) \/ S!RuntimeFor(x) = "subprocess"
    BY <1>1, <1>2, <1>3 DEF S!WhereOK, S!Entered, S!Concluded, S!Runtime, S!RuntimeFor
  <1>5. S!RuntimeFor(x) \in {"docker", "subprocess"}
    BY DEF S!RuntimeFor, S!RuntimeOf
  <1>. QED BY <1>2, <1>3, <1>4, <1>5
           DEF S!WhereOK, S!InSubprocess, S!InContainer, S!Runtime, S!RuntimeFor

\* The chain has held every call, and its record tells its answer.
LEMMA ChainHeld ==
  ASSUME S!SandboxInv
  PROVE  S!ChainHolds
  <1>0. SUFFICES ASSUME NEW c \in Calls, call[c].pc # "idle"
                 PROVE  LET records == {e \in hookLog : e.call = c}
                        IN /\ (\E i \in DOMAIN Hooks : S!Blocks(Hooks[i], call[c].req)) => c \notin ran
                           /\ call[c].answer = "blocked" => c \notin ran
                           /\ call[c].answer \in {"ok", "error", "blocked"} =>
                                \E e \in records :
                                  /\ records = {e}
                                  /\ e.blockedBy # "none" <=> call[c].answer = "blocked"
                                  /\ e.error = "yes" <=> call[c].answer = "error"
                                  /\ "SecretRedactionHook" \in S!ToSet(Hooks) => e.redacted = "yes"
    BY DEF S!ChainHolds
  <1>1. PICK x : x = call[c] /\ x.pc # "idle"
    BY <1>0
  <1>2. /\ S!WhereOK(c, x, box[c], request[c], proxy[c], ran) /\ S!IsCall(x)
        /\ S!PassedOK(c, x, Hooks, ran) /\ S!LoggedOK(c, x, Hooks, hookLog)
        /\ Hooks \in Seq(S!HookNames)
    BY <1>1, CallFacts DEF S!SandboxInv, S!CallOK
  <1>3. x.i \in Nat /\ Len(Hooks) \in Nat
    BY <1>1, <1>2 DEF S!IsCall
  <1>4. DOMAIN Hooks = 1..Len(Hooks)
    BY <1>2
  <1>5. (\E i \in DOMAIN Hooks : S!Blocks(Hooks[i], x.req)) => c \notin ran
    BY <1>1, <1>2, <1>3, <1>4 DEF S!PassedOK
  <1>6. x.answer = "blocked" => c \notin ran
    BY <1>2 DEF S!WhereOK, S!Entered
  <1>7. ASSUME x.answer \in {"ok", "error", "blocked"}
        PROVE  \E e \in {f \in hookLog : f.call = c} :
                    /\ {f \in hookLog : f.call = c} = {e}
                    /\ e.blockedBy # "none" <=> x.answer = "blocked"
                    /\ e.error = "yes" <=> x.answer = "error"
                    /\ "SecretRedactionHook" \in S!ToSet(Hooks) => e.redacted = "yes"
    <2>1. PICK h \in hookLog :
             /\ {f \in hookLog : f.call = c} = {h}
             /\ h.blockedBy # "none" <=> x.answer = "blocked"
             /\ h.error = "yes" <=> x.answer = "error"
             /\ (\E j \in 1..Len(Hooks) : Hooks[j] = "SecretRedactionHook") => h.redacted = "yes"
      BY <1>2, <1>7 DEF S!LoggedOK
    <2>2. "SecretRedactionHook" \in S!ToSet(Hooks) => h.redacted = "yes"
      BY <1>4, <2>1 DEF S!ToSet
    <2>. QED BY <2>1, <2>2
  <1>. QED BY <1>1, <1>5, <1>6, <1>7

\* The records of executions tell what happened.
LEMMA ExecutionsTrue ==
  ASSUME S!SandboxInv
  PROVE  S!ExecutionsAreTrue
  <1>1. S!TypeOK
    <2>1. ASSUME NEW c \in Calls
          PROVE  /\ call[c].pc \in S!PCs
                 /\ box[c].st \in {"absent", "created", "running", "exited", "orphaned"}
                 /\ box[c].code \in {"none", "clean", "failed", "signal", "refused"}
                 /\ request[c] \in {"none", "create", "start"}
                 /\ proxy[c] \in {"off", "listening", "closed"}
                 /\ decisions[c] \subseteq S!Conns \X {"allow", "deny"}
      <3>1. /\ S!WhereOK(c, call[c], box[c], request[c], proxy[c], ran)
            /\ S!ToldOK(conn[c], decisions[c])
        BY CallFacts, EgressFacts
      <3>2. S!IsCall(call[c]) /\ S!IsBox(box[c])
        BY <3>1 DEF S!WhereOK
      <3>. QED BY <3>1, <3>2 DEF S!WhereOK, S!ToldOK, S!IsCall, S!IsBox
    <2>. QED BY <2>1 DEF S!SandboxInv, S!TypeOK, S!PCs
  <1>2. S!RecordsTellTheTruth
    <2>1. SUFFICES ASSUME NEW c \in Calls, S!Concluded(call[c])
                   PROVE  \E e \in execLog :
                            /\ \A f \in execLog : f.call = c => f = e
                            /\ e.call = c /\ e.code = call[c].code
                            /\ e.timedOut = call[c].timedOut
                            /\ ~(call[c].timedOut = "yes" /\ call[c].limited = "yes")
                            /\ S!Runtime(c) = "docker" /\ call[c].removed = "yes" =>
                                 \A k \in S!Conns :
                                   conn[c][k][1] = "answered" =>
                                     <<k, S!Verdict(conn[c][k][2])>> \in e.decisions
      BY DEF S!RecordsTellTheTruth, S!Concluded
    <2>2. PICK x : x = call[c]
      OBVIOUS
    <2>3. S!WhereOK(c, x, box[c], request[c], proxy[c], ran) /\ S!RecordedOK(c, x, execLog, conn[c])
      BY <2>2, CallFacts, EgressFacts
    <2>4. x.pc # "idle"
      BY <2>1, <2>2, <2>3 DEF S!WhereOK, S!Entered, S!Concluded
    <2>5. S!RuntimeFor(x) \in {"docker", "subprocess"}
      BY DEF S!RuntimeFor, S!RuntimeOf
    <2>6. ~(x.timedOut = "yes" /\ x.limited = "yes")
      BY <2>3, <2>4, <2>5 DEF S!WhereOK, S!InSubprocess, S!InContainer
    <2>7. PICK e \in execLog :
             /\ \A f \in execLog : f.call = c => f = e
             /\ e.call = c /\ e.code = x.code /\ e.timedOut = x.timedOut
             /\ S!RuntimeFor(x) = "docker" /\ x.removed = "yes" =>
                  \A k \in S!Conns : conn[c][k][1] = "answered" =>
                                     <<k, S!Verdict(conn[c][k][2])>> \in e.decisions
      BY <2>1, <2>2, <2>3 DEF S!RecordedOK
    <2>8. S!Runtime(c) = S!RuntimeFor(x)
      BY <2>2 DEF S!Runtime, S!RuntimeFor
    <2>. QED BY <2>2, <2>6, <2>7, <2>8
  <1>3. S!LimitKillsAreFlagged
    <2>1. SUFFICES ASSUME NEW c \in Calls, call[c].pc = "remove", box[c].limit = "yes",
                          call[c].timedOut = "no",
                          call[c].inspected = "yes" \/ call[c].code = "signal"
                   PROVE  call[c].limited = "yes"
      BY DEF S!LimitKillsAreFlagged
    <2>2. S!WhereOK(c, call[c], box[c], request[c], proxy[c], ran)
      BY CallFacts
    <2>3. S!RuntimeFor(call[c]) \in {"docker", "subprocess"}
      BY DEF S!RuntimeFor, S!RuntimeOf
    <2>. QED BY <2>1, <2>2, <2>3 DEF S!WhereOK, S!InSubprocess, S!InContainer
  <1>. QED BY <1>1, <1>2, <1>3 DEF S!ExecutionsAreTrue

\* The invariant of the tool calls, for any calls, hooks and requests.
LEMMA SandboxInvariant == S!Spec => []S!SandboxInv
  <1>. QED BY SandboxInit, SandboxNext, PTL DEF S!Spec

\* Whatever a call's hooks, tier, egress and time, and whenever the daemon
\* serves it: when execute has returned its proxy takes no connection and its
\* command runs no more, unless that is a container `docker rm' failed on,
\* whose exit code nobody looks at; children of a subprocess may run on
\* (sandbox.py:171-194, docker_sandbox.py:303-337).
THEOREM NothingRunsAfterwards == S!Spec => []NothingLeftRunning
  <1>1. S!SandboxInv => NothingLeftRunning
    BY NothingRuns DEF NothingLeftRunning
  <1>. QED BY <1>1, SandboxInvariant, PTL

\* A call that a hook of the chain blocks never reaches its tool, and each call
\* is recorded once and redacted; each execution is recorded with its code and
\* timeout, and that of a container which was removed with every decision its
\* command was told; a subprocess's record has no decisions, and a kill for
\* memory is flagged where the inspection answered (hooks.py, sandbox.py,
\* docker_sandbox.py).
THEOREM ToolCallsTrue == S!Spec => []ToolCallsAreTrue
  <1>1. S!SandboxInv => ToolCallsAreTrue
    BY ChainHeld, ExecutionsTrue DEF ToolCallsAreTrue
  <1>. QED BY <1>1, SandboxInvariant, PTL
=============================================================================
