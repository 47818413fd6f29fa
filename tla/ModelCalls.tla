------------------------------ MODULE ModelCalls ------------------------------
(***************************************************************************)
(* A run of model calls and what is recorded of it: the loops of the       *)
(* agent (ToolAgent.run and generate_structured), the client GatewayLLM,   *)
(* and the gateway service - authentication of the key, the provider's     *)
(* adapter, a usage row, an audit row, the answer.  Each row is a commit   *)
(* of its own that may fail; the client may stop waiting, the gateway goes *)
(* on then; the key may be disabled meanwhile, by two at once.             *)
(***************************************************************************)
EXTENDS Naturals

CONSTANTS Provider,       \* the adapter the configured model is routed to
          Retries,        \* of generate_structured
          MaxIterations,  \* of the tool agent
          Disabler

VARIABLES kind,      \* which of the two loops runs
          loop,      \* the state of the loop
          call,      \* the call that is under way, or the last one
          ledger,    \* the tokens of the usage rows that say success
          key, disable

vars == <<kind, loop, call, ledger, key, disable>>

(***************************************************************************)
(* What a provider may come to.  An adapter catches the errors of the      *)
(* transport and most malformed bodies; calling get on a null or a list is *)
(* an AttributeError, which none catches.  Content that is no text, or a   *)
(* negative count, passes the adapter and fails in the response's schema.  *)
(***************************************************************************)
OpenAICompatible == {"answer", "not_configured", "http_error", "malformed", "unexpected", "unfit"}
Ollama == {"answer", "http_error", "malformed", "unexpected", "unfit"}
Claude == {"answer", "not_configured", "http_error", "malformed", "unexpected", "unfit"}
\* Each provider's set is one of these, or part of it.
Outcomes == [openai |-> OpenAICompatible, ollama |-> Ollama, claude |-> Claude]

\* What an instance gives; asserted where it is checked.
LimitAssumption == Provider \in DOMAIN Outcomes /\ Retries \in Nat /\ MaxIterations \in Nat

\* The text of an answer: JSON as it is, fenced, inside other text or with
\* the quotes of Python is read; the rest is not.  An array is no object.
Contents == [form: {"json", "repairable", "broken"}, object: BOOLEAN, fits: {"no", "final", "tool"}]
Valid(c) == c.form # "broken" /\ c.object /\ c.fits # "no"

NoCall == [stage |-> "none", client |-> "none", outcome |-> "none", tokens |-> 0,
           usage |-> "none", audit |-> "none", status |-> 0, late |-> FALSE]

Init ==
  /\ kind \in {"agent", "structured"}
  /\ loop = [at |-> "ready", calls |-> 0, retries |-> 0, failures |-> 0, refill |-> FALSE,
             steps |-> 0, tokens |-> 0]
  /\ call = NoCall /\ ledger = 0
  /\ key = "enabled" /\ disable = [d \in Disabler |-> "idle"]

Disabled == \E d \in Disabler : disable[d] = "done"

(***************************************************************************)
(* The loops.                                                              *)
(***************************************************************************)
Allowed == IF kind = "agent" THEN MaxIterations ELSE Retries + 2

\* The last attempt of generate_structured is the refill of the template.
Ask ==
  /\ loop.at = "ready" /\ loop.calls < Allowed
  /\ loop' = [loop EXCEPT !.at = "waiting", !.calls = @ + 1,
                          !.retries = IF kind = "structured" /\ loop.calls = Retries + 1
                                      THEN @ + 1 ELSE @]
  /\ call' = [NoCall EXCEPT !.stage = "key", !.client = "waits", !.late = Disabled]
  /\ UNCHANGED <<kind, ledger, key, disable>>

GiveUp ==
  /\ loop.at = "ready" /\ loop.calls = Allowed
  /\ loop' = [loop EXCEPT !.at = "gave_up"]
  /\ UNCHANGED <<kind, call, ledger, key, disable>>

AfterStructured(c, l) ==
  IF Valid(c) THEN [l EXCEPT !.at = "returned"]
  ELSE [l EXCEPT !.at = "ready", !.retries = IF l.calls <= Retries THEN @ + 1 ELSE @]

\* Three errors are told to the model, the fourth asks for the template,
\* and an answer to that which is no better ends the run.
AfterAgent(c, l) ==
  IF Valid(c) THEN [l EXCEPT !.failures = 0, !.refill = FALSE,
                             !.at = IF c.fits = "final" THEN "returned" ELSE "tool"]
  ELSE IF l.refill THEN [l EXCEPT !.at = "gave_up"]
  ELSE [l EXCEPT !.failures = @ + 1, !.refill = l.failures >= 3, !.at = "ready"]

\* The client reads the answer; whatever is not 200 is raised.
Receive ==
  /\ call.stage = "answered" /\ call.client = "waits"
  /\ call' = [call EXCEPT !.client = "read"]
  /\ IF call.status # 200 THEN loop' = [loop EXCEPT !.at = "raised"]
     ELSE \E c \in Contents :
            loop' = LET l == [loop EXCEPT !.tokens = @ + call.tokens]
                    IN  IF kind = "agent" THEN AfterAgent(c, l) ELSE AfterStructured(c, l)
  /\ UNCHANGED <<kind, ledger, key, disable>>

\* A tool that fails is an observation like any other.
ToolEnds ==
  /\ loop.at = "tool" /\ loop' = [loop EXCEPT !.at = "ready", !.steps = @ + 1]
  /\ UNCHANGED <<kind, call, ledger, key, disable>>

\* The transport's deadline, or a connection that breaks: nothing tries
\* again, and the gateway does not notice.
StopWaiting ==
  /\ call.client = "waits" /\ call' = [call EXCEPT !.client = "gone"]
  /\ loop' = [loop EXCEPT !.at = "raised"]
  /\ UNCHANGED <<kind, ledger, key, disable>>

(***************************************************************************)
(* The gateway.  A commit that fails is a 500, whatever went before.       *)
(***************************************************************************)
Broken(c) == [c EXCEPT !.stage = "answered", !.status = 500]

\* The key is read, then the attempt is audited.
Authenticate ==
  /\ call.stage = "key"
  /\ \/ call' = Broken(call)
     \/ call' = IF key = "enabled" THEN [call EXCEPT !.stage = "provider"]
                ELSE [call EXCEPT !.stage = "answered", !.status = 401]
  /\ UNCHANGED <<kind, loop, ledger, key, disable>>

\* Mutant: without a provider key the error is raised again and no more.
LoggedIfAsked(outcome) == outcome \notin {"unexpected", "not_configured"}
Logged(outcome) == outcome # "unexpected"

\* An answer has tokens, where the provider counts them.
CallProvider ==
  /\ call.stage = "provider"
  /\ \E outcome \in Outcomes[Provider] :
       \E tokens \in IF outcome \in {"answer", "unfit"} THEN {0, 1} ELSE {0} :
         LET asked == [call EXCEPT !.outcome = outcome, !.tokens = tokens] IN
         call' = IF Logged(outcome) THEN [asked EXCEPT !.stage = "usage"]
                 ELSE IF outcome = "not_configured"
                 THEN [asked EXCEPT !.stage = "answered", !.status = 503]
                 ELSE Broken(asked)
  /\ UNCHANGED <<kind, loop, ledger, key, disable>>

Result(outcome) == IF outcome \in {"answer", "unfit"} THEN "success" ELSE "failure"

WriteUsage ==
  /\ call.stage = "usage"
  /\ \/ call' = Broken(call) /\ UNCHANGED ledger
     \/ /\ call' = [call EXCEPT !.stage = "audit", !.usage = Result(call.outcome)]
        /\ ledger' = ledger + call.tokens
  /\ UNCHANGED <<kind, loop, key, disable>>

\* The answer: the provider's own code is in the rows, the client gets
\* 502 for all of them.
Code(outcome) == CASE outcome = "answer" -> 200 [] outcome = "unfit" -> 500
                   [] outcome = "not_configured" -> 503 [] OTHER -> 502

WriteAudit ==
  /\ call.stage = "audit"
  /\ \/ call' = Broken(call)
     \/ call' = [call EXCEPT !.stage = "answered", !.audit = Result(call.outcome),
                             !.status = Code(call.outcome)]
  /\ UNCHANGED <<kind, loop, ledger, key, disable>>

\* The gateway stops; a client that still waits is told by its transport.
GatewayStops ==
  /\ call.stage \in {"key", "provider", "usage", "audit"}
  /\ call' = [call EXCEPT !.stage = "lost", !.client = IF @ = "waits" THEN "gone" ELSE @]
  /\ loop' = IF call.client = "waits" THEN [loop EXCEPT !.at = "raised"] ELSE loop
  /\ UNCHANGED <<kind, ledger, key, disable>>

(***************************************************************************)
(* disable(): the row is looked up for the audit, then updated where it is *)
(* still enabled; the count of updated rows is the result.                 *)
(***************************************************************************)
LookUp(d) ==
  /\ disable[d] = "idle"
  /\ disable' = [disable EXCEPT ![d] = IF key = "enabled" THEN "found" ELSE "missed"]
  /\ UNCHANGED <<kind, loop, call, ledger, key>>

Updated(d) == key = "enabled"

Disable(d) ==
  /\ disable[d] \in {"found", "missed"}
  /\ disable' = [disable EXCEPT ![d] = IF Updated(d) THEN "done" ELSE "refused"]
  /\ key' = "disabled"
  /\ UNCHANGED <<kind, loop, call, ledger>>

Next ==
  \/ Ask \/ GiveUp \/ Receive \/ ToolEnds \/ StopWaiting
  \/ Authenticate \/ CallProvider \/ WriteUsage \/ WriteAudit \/ GatewayStops
  \/ \E d \in Disabler : LookUp(d) \/ Disable(d)

Spec == Init /\ [][Next]_vars

(***************************************************************************)
(* The rows of a call agree with what its client was told: an answer has   *)
(* both rows of success, a provider's failure both of failure, a refused   *)
(* key none.  The ledger has what the loop counted, and no more than one   *)
(* answer beyond, the one that was lost on the way.                        *)
(***************************************************************************)
RowsAgree ==
  CASE call.status = 200 -> call.usage = "success" /\ call.audit = "success"
    [] call.status \in {502, 503} -> call.usage = "failure" /\ call.audit = "failure"
    [] call.status = 401 -> call.usage = "none" /\ call.outcome = "none"
    [] OTHER -> call.audit # "none" => call.usage = call.audit

TokensAgree ==
  ledger = loop.tokens + IF call.usage = "success" /\ ~(call.client = "read" /\ call.status = 200)
                         THEN call.tokens ELSE 0

\* The number of calls is bounded and the retries a result reports are the
\* calls after the first; no tool runs for an answer that is not valid.
LoopBounded ==
  /\ loop.calls <= Allowed /\ loop.failures <= 4 /\ loop.steps <= loop.calls
  /\ kind = "structured" /\ loop.at \in {"waiting", "returned", "gave_up"}
       => loop.retries = loop.calls - 1
  /\ loop.at = "returned" => call.status = 200 /\ call.client = "read"

\* One of the calls of disable succeeds; a call of the model that begins
\* after it returned does not reach a provider.
KeyStaysDisabled ==
  /\ \A d, e \in Disabler : disable[d] = "done" /\ disable[e] = "done" => d = e
  /\ call.late => call.outcome = "none"

CallsAreAccounted == RowsAgree /\ TokensAgree /\ LoopBounded /\ KeyStaysDisabled
=============================================================================
