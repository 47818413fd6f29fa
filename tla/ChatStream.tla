------------------------------ MODULE ChatStream ------------------------------
(***************************************************************************)
(* Questions asked from the chat page, from its quick diagnosis, and by a  *)
(* script through POST /chat.  A streamed request runs in a task of its    *)
(* own that puts events into a queue; a generator sends them, and cancels  *)
(* the task when the browser has gone.  A step of the task goes from one   *)
(* await to the next: nothing else of the process runs within it.          *)
(***************************************************************************)
EXTENDS Naturals, Sequences, FiniteSets, SequencesExt

CONSTANTS Request, Nobody, Old,   \* no request; a conversation from before
          MaxFaults               \* errors of the database, the model or the disk

VARIABLES req,         \* of a request: its kind, conversation, progress and client
          transcript,  \* the messages that a request left in its conversation
          directories, \* the requests whose workspace is on the disk
          page         \* what the browser's page shows

vars == <<req, transcript, directories, page>>

\* A conversation made for a request has its name here.
Conversation == Request \union {Old}
Idle == [kind |-> "none", conv |-> Nobody, pc |-> "idle", queue |-> <<>>, got |-> {},
         client |-> "none", faults |-> {}]
\* conv and shown are the conversation the next question goes to and the one
\* whose messages are seen; quick and result are the diagnosis the page of a
\* service began last and the one whose result it shows.
FreshPage == [conv |-> Nobody, shown |-> Nobody, sending |-> FALSE, switched |-> FALSE,
              quick |-> Nobody, running |-> FALSE, result |-> Nobody, left |-> FALSE]

Init == /\ req = [r \in Request |-> Idle] /\ transcript = [r \in Request |-> <<>>]
        /\ directories = {} /\ page = FreshPage

FaultsSoFar == Cardinality({i \in Request \X {"question", "report", "error", "model", "remove"} :
                               i[2] \in req[i[1]].faults})
May(faults) == FaultsSoFar + Cardinality(faults) <= MaxFaults

\* ensure: the page's conversation, or a new one.
Asked(r, kind, conv) ==
  [kind |-> kind, conv |-> conv, pc |-> "created", got |-> {}, client |-> "reads",
   queue |-> IF kind = "chat" THEN <<"conversation">> ELSE <<>>, faults |-> {}]

SendChat(r) ==
  /\ req[r].pc = "idle" /\ ~page.sending
  /\ req' = [req EXCEPT ![r] = Asked(r, "chat", IF page.conv = Nobody THEN r ELSE page.conv)]
  /\ page' = [page EXCEPT !.sending = TRUE]
  /\ UNCHANGED <<transcript, directories>>

RunQuick(r) ==
  /\ req[r].pc = "idle" /\ ~page.running
  /\ req' = [req EXCEPT ![r] = Asked(r, "quick", Nobody)]
  /\ page' = [page EXCEPT !.quick = r, !.running = TRUE, !.result = Nobody]
  /\ UNCHANGED <<transcript, directories>>

CallChat(r) ==
  /\ req[r].pc = "idle" /\ req' = [req EXCEPT ![r] = Asked(r, "script", Old)]
  /\ UNCHANGED <<transcript, directories, page>>

(***************************************************************************)
(* The task.  Its end removes the workspace; what is raised, by that too,  *)
(* is appended to the conversation and then put into the queue - a failure *)
(* of that append leaves both without it.                                  *)
(***************************************************************************)
\* How requests that share a conversation interleave in it is left out.
Write(r, entries) == transcript' = [transcript EXCEPT ![r] = @ \o entries]

\* The task goes on to its next await.
GoOn(r, pc, entries, events) ==
  /\ Write(r, entries)
  /\ req' = [req EXCEPT ![r] = [@ EXCEPT !.pc = pc, !.queue = req[r].queue \o events]]

Over(r, entries, events, faults) ==
  /\ May(faults)
  /\ directories' = IF "remove" \in faults THEN directories ELSE directories \ {r}
  /\ Write(r, entries)
  /\ req' = [req EXCEPT ![r] = [@ EXCEPT !.pc = "over", !.queue = req[r].queue \o events,
                                       !.faults = req[r].faults \union faults]]

Raise(r, entries, events, faults) ==
  CASE req[r].kind = "chat" ->
         \/ Over(r, Append(entries, "error"), Append(events, "error"), faults)
         \/ Over(r, entries, events, faults \union {"error"})
    [] req[r].kind = "quick" -> Over(r, <<>>, Append(events, "error"), faults)
    [] OTHER -> Over(r, entries, <<"5xx">>, faults)

\* The end of a task that is done, or was cancelled, before the removal.
Leave(r, entries, events) == Over(r, entries, events, {}) \/ Raise(r, entries, events, {"remove"})

Begin(r) ==
  /\ req[r].pc = "created"
  /\ directories' = directories \union {r}
  /\ GoOn(r, IF req[r].kind = "quick" THEN "work" ELSE "classify", <<>>, <<>>)
  /\ UNCHANGED page

\* IntentRouter: a named service with a known symptom needs no model; what
\* the model says in no valid form is a question back.
Intents == {"diagnose", "reply"}

\* dispatch: the question is stored when the model has classified it.
Classified(r) ==
  /\ req[r].pc = "classify"
  /\ \/ Raise(r, <<>>, <<>>, {"model"})
     \/ \E intent \in Intents :
          LET told == IF req[r].kind = "chat" THEN <<"intent">> ELSE <<>> IN
          \/ Raise(r, <<>>, told, {"question"})
          \/ /\ intent = "diagnose" /\ GoOn(r, "work", <<"user">>, told)
             /\ UNCHANGED directories
          \/ intent = "reply" /\ Leave(r, <<"user", "reply">>, Append(told, "message"))
          \/ intent = "reply" /\ Raise(r, <<"user">>, told, {"report"})
  /\ UNCHANGED page

\* The report is stored, or a warning logged, before it is shown; the quick
\* diagnosis removes its workspace before.
Finish(r) ==
  /\ req[r].pc = "work"
  /\ CASE req[r].kind = "quick" ->
            Over(r, <<>>, <<"final">>, {}) \/ Raise(r, <<>>, <<>>, {"remove"})
       [] OTHER -> \/ Leave(r, <<"report">>, <<"final">>)
                   \/ Over(r, <<>>, <<"final">>, {"report"})
  /\ UNCHANGED page

WorkRaises(r) ==
  /\ req[r].pc = "work" /\ Raise(r, <<>>, <<>>, {"model"}) /\ UNCHANGED page

\* Mutant: the handler takes every exception, a cancellation too.
CancelIsError(r) == Raise(r, <<>>, <<>>, {})
CancelIsSilent(r) == Leave(r, <<>>, <<>>)

Cancelled(r) ==
  /\ req[r].client = "gone" /\ req[r].kind # "script"
  /\ req[r].pc \in {"created", "classify", "work"}
  /\ CancelIsSilent(r) /\ UNCHANGED page

(***************************************************************************)
(* The browser.                                                            *)
(***************************************************************************)
Told(r, event) == [req EXCEPT ![r] = [@ EXCEPT !.queue = Tail(req[r].queue), !.got = req[r].got \union {event}]]

Deliver(r) ==
  /\ req[r].client = "reads" /\ req[r].kind # "script" /\ req[r].queue # <<>>
  /\ req' = Told(r, Head(req[r].queue))
  /\ page' = CASE Head(req[r].queue) = "conversation" -> [page EXCEPT !.conv = req[r].conv]
               [] req[r].kind = "quick" -> [page EXCEPT !.result = r]
               [] OTHER -> page
  /\ UNCHANGED <<transcript, directories>>

\* done: the generator ends, and the page may ask again.
StreamEnds(r) ==
  /\ req[r].client = "reads" /\ req[r].pc = "over"
  /\ req[r].queue = <<>> \/ req[r].kind = "script"
  /\ req' = [req EXCEPT ![r] = [@ EXCEPT !.client = "ended", !.queue = <<>>,
                                       !.got = req[r].got \union ToSet(req[r].queue)]]
  /\ page' = [page EXCEPT !.sending = @ /\ req[r].kind # "chat",
                          !.running = @ /\ req[r].kind # "quick"]
  /\ UNCHANGED <<transcript, directories>>

\* ConversationService.get: the user's own conversations, once they are created.
Readable(c) == c = Old \/ \E r \in Request : req[r].conv = c /\ transcript[r] # <<>>

\* openConversation does not ask whether a stream is open.
OpenConversation(c) ==
  /\ Readable(c)
  /\ page' = [page EXCEPT !.conv = c, !.shown = c,
                          !.switched = @ \/ page.sending]
  /\ UNCHANGED <<req, transcript, directories>>

\* resetQuick: the page of another service; the stream goes on.
LeaveService ==
  /\ page.quick # Nobody
  /\ page' = [page EXCEPT !.quick = Nobody, !.running = FALSE, !.result = Nobody,
                          !.left = @ \/ page.running]
  /\ UNCHANGED <<req, transcript, directories>>

\* The page is left or loaded again.
Reload ==
  /\ page # FreshPage /\ page' = FreshPage
  /\ req' = [r \in Request |-> IF req[r].client = "reads" /\ req[r].kind # "script"
                               THEN [req[r] EXCEPT !.client = "gone", !.queue = <<>>] ELSE req[r]]
  /\ UNCHANGED <<transcript, directories>>

Next == \/ \E r \in Request :
             \/ SendChat(r) \/ RunQuick(r) \/ CallChat(r)
             \/ Begin(r) \/ Classified(r) \/ Finish(r) \/ WorkRaises(r) \/ Cancelled(r)
             \/ Deliver(r) \/ StreamEnds(r)
        \/ \E c \in Conversation : OpenConversation(c)
        \/ LeaveService \/ Reload

Spec == Init /\ [][Next]_vars

(***************************************************************************)
(* What the page was shown is in the conversation; each exception names    *)
(* the fault that makes it (README.md section 7).                          *)
(***************************************************************************)
ShownIsStored(r) ==
  req[r].kind = "chat" =>
    /\ "final" \in req[r].got => "report" \in ToSet(transcript[r]) \/ "report" \in req[r].faults
    /\ "message" \in req[r].got => "reply" \in ToSet(transcript[r])
    /\ "error" \in req[r].got => "error" \in ToSet(transcript[r])

\* An answer has its question before it and is the only one; an error may
\* have none when the question was never stored, and may follow an answer
\* when the removal of the workspace raised.
OneAnswer(r) ==
  LET said == transcript[r]
      answers == {i \in DOMAIN said : said[i] \in {"report", "reply", "error"}}
  IN  /\ \A i, j \in answers :
           i < j => said[i] # "error" /\ said[j] = "error" /\ "remove" \in req[r].faults
      /\ answers # {} => \/ said[1] = "user" \/ req[r].faults \cap {"question", "model"} # {}
                         \/ said = <<"error">> /\ "remove" \in req[r].faults

\* A stream that ends has said how, but for the error that could not be
\* stored; one that was cancelled leaves a question and no answer to it.
StreamTells(r) ==
  /\ req[r].client = "ended" => req[r].got \cap {"final", "message", "error", "5xx"} # {}
                                \/ "error" \in req[r].faults
  /\ req[r].client = "gone" /\ req[r].pc = "over" /\ req[r].faults = {}
       => transcript[r] \in {<<>>, <<"user">>, <<"user", "report">>, <<"user", "reply">>}
  /\ req[r].pc = "over" => r \notin directories \/ "remove" \in req[r].faults

\* The next question goes to the conversation the page shows, unless it
\* was opened while an answer was still coming, and the result it shows is
\* of the diagnosis it began, unless a service was left while one was running.
PageAgrees ==
  /\ page.conv = page.shown \/ page.shown = Nobody \/ page.switched
  /\ page.result \in {Nobody, page.quick} \/ page.left

ChatIsRecorded ==
  PageAgrees /\ \A r \in Request : ShownIsStored(r) /\ OneAnswer(r) /\ StreamTells(r)
=============================================================================
