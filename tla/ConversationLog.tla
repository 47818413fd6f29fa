-------------------------- MODULE ConversationLog --------------------------
(***************************************************************************)
(* The conversation messages that durable diagnoses write                  *)
(* (app/conversation/service.py, and the calls of _call, run and           *)
(* _update_conversation_context in app/workflow/diagnosis.py).  A message  *)
(* of a durable run has an identifier derived from what it records, and    *)
(* append is an upsert on it.  Only the writes of the diagnosis tables are *)
(* fenced by the lease: an append is not, so an attempt that has lost its  *)
(* lease goes on appending until its next fenced write fails.              *)
(*                                                                         *)
(* Simplifications: DiagnosisService.create gives every diagnosis a        *)
(* conversation of its own, so a conversation has the name of its          *)
(* diagnosis; losing a lease and crashing are in DiagnosisLease, here an   *)
(* attempt takes over whenever it likes; the content of a message is the   *)
(* attempt that wrote it.                                                  *)
(***************************************************************************)
CONSTANTS Diagnosis,    \* diagnoses, each with its conversation
          Tool,         \* scripted tool calls: phase, name, arguments, no parents
          Attempt,      \* tasks of _execute; bound: each runs once
          DiagnosisOf,  \* the diagnosis each attempt works on
          NoAttempt     \* no lease, or no evidence

ASSUME AttemptAssumption == /\ NoAttempt \notin Attempt
                            /\ DiagnosisOf \in [Attempt -> Diagnosis]

VARIABLES
  messages,     \* conversation_messages, a set of rows with primary key id
  owner,        \* diagnosis_sessions.lease_owner
  initialized,  \* diagnoses with a checkpoint, hence with a run_id
  finished,     \* diagnoses that are COMPLETED or FAILED
  steps,        \* diagnosis_investigation_steps.status of each call
  evidence,     \* the attempt whose answer diagnosis_evidence holds
  pc, calls     \* where an attempt stands, and each of its tool calls

tables == <<owner, initialized, finished, steps, evidence>>
vars   == <<messages, tables, pc, calls>>
-----------------------------------------------------------------------------
Init ==
  /\ messages = {}
  /\ owner = [d \in Diagnosis |-> NoAttempt]
  /\ initialized = {} /\ finished = {}
  /\ steps = [d \in Diagnosis |-> [k \in Tool |-> "ABSENT"]]
  /\ evidence = [d \in Diagnosis |-> [k \in Tool |-> NoAttempt]]
  /\ pc = [a \in Attempt |-> "new"]
  /\ calls = [a \in Attempt |-> [k \in Tool |-> "none"]]

(* Message identifiers.                                                    *)

UserId(d)   == <<"user", d>>
ReportId(d) == <<"final-report", d>>
\* sha256(idempotency_key:call); the key names phase, tool and arguments.
CallId(d, k) == <<"call", k>>
\* The evidence id, sha256(diagnosis_id:idempotency_key:evidence).  Mutant:
\* derived from the key alone.
SharedResultId(d, k) == <<"evidence", k>>
ResultId(d, k) == <<"evidence", d, k>>

\* Mutant: a plain INSERT of a table without the primary key.
AppendRow(a, id) ==
  messages' = messages \cup {[id |-> id, conversation |-> DiagnosisOf[a], by |-> a]}

\* append: insert, or overwrite the content and leave the conversation.
AppendMessage(a, id) ==
  LET old == {r \in messages : r.id = id}
  IN  messages' = IF old = {}
                  THEN messages \cup {[id |-> id, conversation |-> DiagnosisOf[a], by |-> a]}
                  ELSE (messages \ old) \cup {[r EXCEPT !.by = a] : r \in old}

\* The lease check of every fenced write.
Owns(a) == owner[DiagnosisOf[a]] = a /\ DiagnosisOf[a] \notin finished

Goto(a, place) == pc' = [pc EXCEPT ![a] = place]
Stage(a, k, s) == calls' = [calls EXCEPT ![a][k] = s]
-----------------------------------------------------------------------------
\* A claim: of a new diagnosis, or of one whose owner went silent.
Take(a) ==
  /\ pc[a] = "new" /\ DiagnosisOf[a] \notin finished
  /\ owner' = [owner EXCEPT ![DiagnosisOf[a]] = a]
  /\ Goto(a, IF DiagnosisOf[a] \in initialized THEN "work" ELSE "initialize")
  /\ UNCHANGED <<messages, initialized, finished, steps, evidence, calls>>

Initialize(a) ==
  /\ pc[a] = "initialize" /\ Owns(a)
  /\ initialized' = initialized \cup {DiagnosisOf[a]}
  /\ Goto(a, "question")
  /\ UNCHANGED <<messages, owner, finished, steps, evidence, calls>>

\* The question is appended by the attempt that initialised, and by no other.
AppendQuestion(a) ==
  /\ pc[a] = "question"
  /\ AppendMessage(a, UserId(DiagnosisOf[a]))
  /\ Goto(a, "work")
  /\ UNCHANGED <<tables, calls>>

\* begin_tool: a COMPLETED step is reused and appends nothing.
BeginCall(a, k) ==
  /\ pc[a] = "work" /\ calls[a][k] = "none" /\ Owns(a)
  /\ IF steps[DiagnosisOf[a]][k] = "COMPLETED"
     THEN Stage(a, k, "done") /\ UNCHANGED steps
     ELSE Stage(a, k, "begun") /\ steps' = [steps EXCEPT ![DiagnosisOf[a]][k] = "RUNNING"]
  /\ UNCHANGED <<messages, owner, initialized, finished, evidence, pc>>

AppendCall(a, k) ==
  /\ pc[a] = "work" /\ calls[a][k] = "begun"
  /\ AppendMessage(a, CallId(DiagnosisOf[a], k))
  /\ Stage(a, k, "asked")
  /\ UNCHANGED <<tables, pc>>

\* Mutant: the tool_call message does not hold up the call.
MayAnswerEarly(a, k) == calls[a][k] \in {"begun", "asked"}
MayAnswer(a, k) == calls[a][k] = "asked"

\* The tool answers, or raises: either way a tool_result is appended.
AppendResult(a, k) ==
  /\ pc[a] = "work" /\ MayAnswer(a, k)
  /\ AppendMessage(a, ResultId(DiagnosisOf[a], k))
  /\ Stage(a, k, "answered") \/ Stage(a, k, "raised")
  /\ UNCHANGED <<tables, pc>>

\* complete_tool: the step with its evidence, in one fenced transaction.
CompleteCall(a, k) ==
  /\ pc[a] = "work" /\ calls[a][k] \in {"answered", "raised"} /\ Owns(a)
  /\ Stage(a, k, "done")
  /\ IF calls[a][k] = "answered"
     THEN /\ steps' = [steps EXCEPT ![DiagnosisOf[a]][k] = "COMPLETED"]
          /\ evidence' = [evidence EXCEPT ![DiagnosisOf[a]][k] = a]
     ELSE /\ steps' = [steps EXCEPT ![DiagnosisOf[a]][k] = "FAILED"]
          /\ UNCHANGED evidence
  /\ UNCHANGED <<messages, owner, initialized, finished, pc>>

\* An exception outside the tool boundary is swallowed in a scripted phase,
\* and the deadline cancels what is in flight: the step stays as it is.
DropCall(a, k) ==
  /\ pc[a] = "work" /\ calls[a][k] \in {"begun", "asked", "answered", "raised"}
  /\ Stage(a, k, "done")
  /\ UNCHANGED <<messages, tables, pc>>

\* _update_conversation_context: a failing append is only logged.
AppendReport(a) ==
  /\ pc[a] = "work" /\ \A k \in Tool : calls[a][k] \in {"none", "done"}
  /\ AppendMessage(a, ReportId(DiagnosisOf[a])) \/ UNCHANGED messages
  /\ Goto(a, "finalize")
  /\ UNCHANGED <<tables, calls>>

\* complete_owned_session, or fail_owned_session at any earlier point.
Finish(a) ==
  /\ pc[a] \in {"initialize", "question", "work", "finalize"} /\ Owns(a)
  /\ finished' = finished \cup {DiagnosisOf[a]}
  /\ owner' = [owner EXCEPT ![DiagnosisOf[a]] = NoAttempt]
  /\ Goto(a, "over")
  /\ UNCHANGED <<messages, initialized, steps, evidence, calls>>

\* A crash, a shutdown, or a fenced write that finds the lease gone.
Stop(a) ==
  /\ pc[a] \notin {"new", "over"}
  /\ Goto(a, "over")
  /\ UNCHANGED <<messages, tables, calls>>

Step(a) ==
  \/ Take(a) \/ Initialize(a) \/ AppendQuestion(a)
  \/ \E k \in Tool : BeginCall(a, k) \/ AppendCall(a, k) \/ AppendResult(a, k)
                     \/ CompleteCall(a, k) \/ DropCall(a, k)
  \/ AppendReport(a) \/ Finish(a) \/ Stop(a)

Next == \E a \in Attempt : Step(a)

Spec == Init /\ [][Next]_vars
-----------------------------------------------------------------------------
(* Correctness.                                                            *)

\* Every column and attribute has its type, and id is a primary key.
TypeOK ==
  /\ \A r \in messages : r.conversation \in Diagnosis /\ r.by \in Attempt
  /\ \A r, s \in messages : r.id = s.id => r = s
  /\ owner \in [Diagnosis -> Attempt \cup {NoAttempt}]
  /\ initialized \subseteq Diagnosis /\ finished \subseteq Diagnosis
  /\ steps \in [Diagnosis -> [Tool -> {"ABSENT", "RUNNING", "COMPLETED", "FAILED"}]]
  /\ evidence \in [Diagnosis -> [Tool -> Attempt \cup {NoAttempt}]]
  /\ pc \in [Attempt -> {"new", "initialize", "question", "work", "finalize", "over"}]
  /\ calls \in [Attempt -> [Tool -> {"none", "begun", "asked", "answered", "raised", "done"}]]

\* The row of a message, if any (at most one).
Rows(id) == {r \in messages : r.id = id}

\* get_tool_result looks an evidence id up among the messages of the user's own
\* conversations.
ToolResult(d, k) == {r \in Rows(ResultId(d, k)) : r.conversation = d}

\* Evidence can be read back: whatever attempt stored the evidence, and
\* whichever died in between, the tool_result is there.
EvidenceHasMessage ==
  \A d \in Diagnosis, k \in Tool : evidence[d][k] # NoAttempt => ToolResult(d, k) # {}

\* A result is never stored before the message of its call, whichever attempts
\* wrote the two and whoever was taken over in between.  (The call's row may
\* sit in another conversation: OwnConversationOnly and its run.)
CallBeforeResult ==
  \A d \in Diagnosis, k \in Tool : Rows(ResultId(d, k)) # {} => Rows(CallId(d, k)) # {}

\* What a diagnosis has begun or reported follows its question, also where an
\* attempt that was taken over goes on appending.  Only a diagnosis that two
\* attempts took may lack it: the first may stop behind initialize, and no other
\* appends the question.
TakenTwice(d) ==
  \E a, b \in Attempt : /\ a # b /\ DiagnosisOf[a] = d /\ DiagnosisOf[b] = d
                        /\ pc[a] # "new" /\ pc[b] # "new"

QuestionIsAsked ==
  \A d \in Diagnosis :
    (\E k \in Tool : steps[d][k] # "ABSENT") \/ Rows(ReportId(d)) # {} =>
      Rows(UserId(d)) # {} \/ TakenTwice(d)

\* A transcript can be read from its beginning: the question, then each call
\* and its result.
TranscriptInOrder == CallBeforeResult /\ QuestionIsAsked

\* service.py: every query carries user_id, so that no conversation is read
\* or written through the identifier of another.  A message changes only by
\* an attempt that works for its conversation.
OwnConversationOnly ==
  [][\A a \in Attempt : calls'[a] # calls[a] \/ pc'[a] # pc[a] =>
       \A r \in messages : r \notin messages' => r.conversation = DiagnosisOf[a]]_vars
=============================================================================
