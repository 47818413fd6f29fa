------------------------- MODULE DiagnosisRecordProofs -------------------------
(* What DiagnosisRecord promises for any diagnoses, calls, attempts,        *)
(* services, providers and limits: the messages of the conversation, its    *)
(* compaction, the tables that reports are projected to, the calls of the   *)
(* models and what the chat page shows.                                     *)
EXTENDS DiagnosisRecord, SumTheorems, SequenceTheorems, FiniteSetTheorems, WellFoundedInduction,
        TLAPS

USE AttemptAssumption

-----------------------------------------------------------------------------
(* The table of messages.                                                   *)

Ids == {r.id : r \in messages}
RowsAreRecords ==
  \A r \in messages : r = [id |-> r.id, conversation |-> r.conversation, by |-> r.by]

\* The result of a call only has rows in the conversation of its diagnosis.
ResultsAtHome ==
  \A r \in messages, d \in Diagnosis, k \in Tool :
    r.id = ResultId(d, k) => r.conversation = d

\* What an upsert does to the table, whoever makes it: it adds one identifier
\* and removes none, and a row keeps its conversation.
LEMMA Upsert ==
  ASSUME RowsAreRecords, NEW a \in Attempt, NEW id, AppendMessage(a, id)
  PROVE  /\ RowsAreRecords' /\ Ids' = Ids \cup {id}
         /\ \A r \in messages' :
              \/ \E s \in messages : s.id = r.id /\ s.conversation = r.conversation
                                     /\ r.by \in {s.by, a}
              \/ r.id = id /\ r.conversation = DiagnosisOf[a] /\ r.by = a
<1> DEFINE old == {r \in messages : r.id = id}
           new == [id |-> id, conversation |-> DiagnosisOf[a], by |-> a]
<1>1. CASE old = {}
  <2>1. messages' = messages \cup {new}
    BY <1>1 DEF AppendMessage
  <2>2. new.id = id /\ new.conversation = DiagnosisOf[a] /\ new.by = a
    OBVIOUS
  <2>3. RowsAreRecords'
    BY <2>1 DEF RowsAreRecords
  <2> HIDE DEF new
  <2>4. Ids' = Ids \cup {id}
    BY <2>1, <2>2 DEF Ids
  <2>5. \A r \in messages' : r \in messages \/ r = new
    BY <2>1
  <2> QED
    BY <2>2, <2>3, <2>4, <2>5
<1>2. CASE old # {}
  <2>1. messages' = (messages \ old) \cup {[r EXCEPT !.by = a] : r \in old}
    BY <1>2 DEF AppendMessage
  <2>2. \A r \in old : [r EXCEPT !.by = a] = [id |-> id, conversation |-> r.conversation, by |-> a]
    BY DEF RowsAreRecords
  <2>3. \A s \in messages' :
          \/ s \in messages /\ s \notin old
          \/ \E r \in old : s = [id |-> id, conversation |-> r.conversation, by |-> a]
    BY <2>1, <2>2
  <2>4. \A r \in old : [id |-> id, conversation |-> r.conversation, by |-> a] \in messages'
    BY <2>1, <2>2
  <2>5. RowsAreRecords'
    BY <2>3 DEF RowsAreRecords
  <2>6. Ids' = Ids \cup {id}
    <3>1. Ids' \subseteq Ids \cup {id}
      BY <2>3 DEF Ids
    <3>2. id \in Ids'
      <4>1. PICK r \in old : TRUE
        BY <1>2
      <4>2. [id |-> id, conversation |-> r.conversation, by |-> a].id = id
        OBVIOUS
      <4> QED
        BY <2>4, <4>1, <4>2 DEF Ids
    <3>3. \A r \in messages : r \notin old => r.id \in Ids'
      BY <2>1 DEF Ids
    <3> QED
      BY <3>1, <3>2, <3>3 DEF Ids
  <2>7. \A r \in messages' : \E s \in messages :
          s.id = r.id /\ s.conversation = r.conversation /\ r.by \in {s.by, a}
    BY <2>3
  <2> QED
    BY <2>5, <2>6, <2>7
<1> QED
  BY <1>1, <1>2

\* An upsert of a message of the attempt's own diagnosis, or of any message
\* that is no result, leaves the results where they belong.
LEMMA UpsertAtHome ==
  ASSUME RowsAreRecords, ResultsAtHome, NEW a \in Attempt, NEW id, AppendMessage(a, id),
         \A d \in Diagnosis, k \in Tool : id = ResultId(d, k) => d = DiagnosisOf[a]
  PROVE  ResultsAtHome'
BY Upsert DEF ResultsAtHome

-----------------------------------------------------------------------------
(* What a call has written when it stands where it stands.                  *)

CallTypes ==
  /\ pc \in [Attempt -> {"new", "initialize", "question", "work", "finalize", "over"}]
  /\ calls \in [Attempt -> [Tool -> {"none", "begun", "asked", "answered", "raised", "done"}]]
  /\ evidence \in [Diagnosis -> [Tool -> Attempt \cup {NoAttempt}]]

Written(a, k) ==
  /\ calls[a][k] \in {"asked", "answered", "raised"} => CallId(DiagnosisOf[a], k) \in Ids
  /\ calls[a][k] \in {"answered", "raised"} => ResultId(DiagnosisOf[a], k) \in Ids

Stored == \A d \in Diagnosis, k \in Tool :
            /\ evidence[d][k] # NoAttempt => ResultId(d, k) \in Ids
            /\ ResultId(d, k) \in Ids => CallId(d, k) \in Ids

LogInv == /\ CallTypes /\ RowsAreRecords /\ ResultsAtHome /\ Stored
          /\ \A a \in Attempt, k \in Tool : Written(a, k)

LEMMA LogInit == Init => LogInv
BY DEF Init, LogInv, CallTypes, RowsAreRecords, ResultsAtHome, Stored, Written, Ids

\* Steps that write no message: the table stays, no call advances to a place
\* that asks for more.
LEMMA QuietLog ==
  ASSUME LogInv, UNCHANGED messages, CallTypes',
         \A a \in Attempt, k \in Tool :
           calls'[a][k] \in {calls[a][k], "none", "begun", "done"},
         \A d \in Diagnosis, k \in Tool :
           evidence'[d][k] # evidence[d][k] => ResultId(d, k) \in Ids
  PROVE  LogInv'
<1>1. Ids' = Ids /\ RowsAreRecords' /\ ResultsAtHome'
  BY DEF LogInv, Ids, RowsAreRecords, ResultsAtHome
<1>2. Stored'
  BY <1>1 DEF LogInv, Stored, ResultId, CallId
<1>3. \A a \in Attempt, k \in Tool : Written(a, k)'
  BY <1>1 DEF LogInv, Written, ResultId, CallId
<1> QED
  BY <1>1, <1>2, <1>3 DEF LogInv

\* Steps that append one message which is not a result, and the call of it.
LEMMA PlainAppend ==
  ASSUME LogInv, NEW a \in Attempt, NEW id, AppendMessage(a, id), CallTypes', UNCHANGED evidence,
         \A d \in Diagnosis, k \in Tool : id # ResultId(d, k),
         \A b \in Attempt, k \in Tool :
           \/ calls'[b][k] = calls[b][k]
           \/ calls'[b][k] = "asked" /\ id = CallId(DiagnosisOf[b], k)
  PROVE  LogInv'
<1>1. RowsAreRecords' /\ Ids' = Ids \cup {id}
  BY Upsert DEF LogInv
<1>2. ResultsAtHome'
  BY UpsertAtHome DEF LogInv
<1>3. Stored'
  BY <1>1 DEF LogInv, Stored, ResultId, CallId
<1>4. \A b \in Attempt, k \in Tool : Written(b, k)'
  BY <1>1 DEF LogInv, Written, ResultId, CallId
<1> QED
  BY <1>1, <1>2, <1>3, <1>4 DEF LogInv

LEMMA ResultAppend ==
  ASSUME LogInv, NEW a \in Attempt, NEW k \in Tool, AppendResult(a, k)
  PROVE  LogInv'
<1>1. /\ calls[a][k] = "asked" /\ AppendMessage(a, ResultId(DiagnosisOf[a], k))
      /\ \E s \in {"answered", "raised"} : calls' = [calls EXCEPT ![a][k] = s]
      /\ UNCHANGED <<evidence, pc>>
  BY DEF AppendResult, MayAnswer, Stage, tables
<1>2. RowsAreRecords' /\ Ids' = Ids \cup {ResultId(DiagnosisOf[a], k)}
  BY <1>1, Upsert DEF LogInv
<1>3. ResultsAtHome'
  BY <1>1, UpsertAtHome DEF LogInv, ResultId
<1>4. CallId(DiagnosisOf[a], k) \in Ids
  BY <1>1 DEF LogInv, Written
<1>5. Stored'
  BY <1>1, <1>2, <1>4 DEF LogInv, Stored, ResultId, CallId
<1>6. CallTypes'
  BY <1>1 DEF LogInv, CallTypes
<1>7. \A b \in Attempt, j \in Tool :
        calls'[b][j] = calls[b][j] \/ (b = a /\ j = k)
  BY <1>1 DEF LogInv, CallTypes
<1>8. \A b \in Attempt, j \in Tool : Written(b, j)'
  BY <1>1, <1>2, <1>4, <1>7 DEF LogInv, Written, ResultId, CallId
<1> QED
  BY <1>2, <1>3, <1>5, <1>6, <1>8 DEF LogInv

LEMMA LogStep == LogInv /\ [Next]_vars => LogInv'
<1> SUFFICES ASSUME LogInv, [Next]_vars PROVE LogInv'
  OBVIOUS
<1> USE DEF CallTypes, tables, Goto, Stage
<1>1. ASSUME NEW a \in Attempt, Step(a) PROVE LogInv'
  <2>1. CASE Take(a) \/ Initialize(a) \/ Finish(a) \/ Stop(a)
    BY <2>1, QuietLog DEF Take, Initialize, Finish, Stop, LogInv
  <2>2. ASSUME NEW k \in Tool, BeginCall(a, k) \/ DropCall(a, k) PROVE LogInv'
    <3>1. /\ UNCHANGED <<messages, pc, evidence>>
          /\ \E s \in {"begun", "done"} : calls' = [calls EXCEPT ![a][k] = s]
      BY <2>2 DEF BeginCall, DropCall
    <3>2. CallTypes'
      BY <3>1 DEF LogInv
    <3>3. \A b \in Attempt, j \in Tool : calls'[b][j] \in {calls[b][j], "none", "begun", "done"}
      BY <3>1 DEF LogInv
    <3> QED
      BY <3>1, <3>2, <3>3, QuietLog
  <2>3. ASSUME NEW k \in Tool, CompleteCall(a, k) PROVE LogInv'
    <3>1. ResultId(DiagnosisOf[a], k) \in Ids
      BY <2>3 DEF CompleteCall, LogInv, Written
    <3>2. /\ messages' = messages /\ pc' = pc /\ calls' = [calls EXCEPT ![a][k] = "done"]
          /\ evidence' \in {evidence, [evidence EXCEPT ![DiagnosisOf[a]][k] = a]}
      BY <2>3 DEF CompleteCall
    <3>3. CallTypes'
      <4>1. evidence' \in [Diagnosis -> [Tool -> Attempt \cup {NoAttempt}]]
        <5> DEFINE d == DiagnosisOf[a]
                   row == [evidence[d] EXCEPT ![k] = a]
        <5>1. evidence \in [Diagnosis -> [Tool -> Attempt \cup {NoAttempt}]] /\ d \in Diagnosis
          BY DEF LogInv
        <5>2. row \in [Tool -> Attempt \cup {NoAttempt}]
          BY <5>1
        <5>3. [evidence EXCEPT ![d] = row] \in [Diagnosis -> [Tool -> Attempt \cup {NoAttempt}]]
          BY <5>1, <5>2
        <5> QED
          BY <3>2, <5>1, <5>3
      <4>2. /\ calls' \in [Attempt -> [Tool -> {"none", "begun", "asked", "answered", "raised", "done"}]]
            /\ pc' \in [Attempt -> {"new", "initialize", "question", "work", "finalize", "over"}]
        BY <3>2 DEF LogInv
      <4> QED
        BY <4>1, <4>2
    <3>4. \A d \in Diagnosis, j \in Tool :
            evidence'[d][j] # evidence[d][j] => d = DiagnosisOf[a] /\ j = k
      BY <3>2 DEF LogInv
    <3> QED
      BY <3>1, <3>2, <3>3, <3>4, QuietLog DEF LogInv
  <2>4. CASE AppendQuestion(a) \/ AppendReport(a)
    <3>1. CallTypes' /\ UNCHANGED <<calls, evidence>>
      BY <2>4 DEF AppendQuestion, AppendReport, LogInv
    <3>2. CASE UNCHANGED messages
      BY <3>1, <3>2, QuietLog DEF LogInv
    <3>3. ASSUME NEW id \in {UserId(DiagnosisOf[a]), ReportId(DiagnosisOf[a])}, AppendMessage(a, id)
          PROVE  LogInv'
      BY <3>1, <3>3, PlainAppend DEF UserId, ReportId, ResultId
    <3> QED
      BY <2>4, <3>2, <3>3 DEF AppendQuestion, AppendReport
  <2>5. ASSUME NEW k \in Tool, AppendCall(a, k) PROVE LogInv'
    <3>1. /\ AppendMessage(a, CallId(DiagnosisOf[a], k)) /\ UNCHANGED <<evidence, pc>>
          /\ calls' = [calls EXCEPT ![a][k] = "asked"]
      BY <2>5 DEF AppendCall
    <3>2. CallTypes'
      BY <3>1 DEF LogInv
    <3>3. \A b \in Attempt, j \in Tool :
            \/ calls'[b][j] = calls[b][j]
            \/ calls'[b][j] = "asked" /\ CallId(DiagnosisOf[a], k) = CallId(DiagnosisOf[b], j)
      BY <3>1 DEF LogInv
    <3>4. \A d \in Diagnosis, j \in Tool : CallId(DiagnosisOf[a], k) # ResultId(d, j)
      BY DEF CallId, ResultId
    <3> QED
      BY <3>1, <3>2, <3>3, <3>4, PlainAppend
  <2>6. ASSUME NEW k \in Tool, AppendResult(a, k) PROVE LogInv'
    BY <2>6, ResultAppend
  <2> QED
    BY <1>1, <2>1, <2>2, <2>3, <2>4, <2>5, <2>6 DEF Step
<1>2. ASSUME UNCHANGED vars PROVE LogInv'
  BY <1>2, QuietLog DEF vars, LogInv
<1> QED
  BY <1>1, <1>2 DEF Next

-----------------------------------------------------------------------------
(* The types of the log; a message identifier has one row.                  *)

MessageRows == /\ \A r \in messages : r.conversation \in Diagnosis /\ r.by \in Attempt
               /\ \A r, s \in messages : r.id = s.id => r = s

LEMMA UpsertRows ==
  ASSUME RowsAreRecords, MessageRows, NEW a \in Attempt, NEW id, AppendMessage(a, id)
  PROVE  MessageRows'
<1> DEFINE old == {r \in messages : r.id = id}
           Row(conversation) == [id |-> id, conversation |-> conversation, by |-> a]
<1>1. DiagnosisOf[a] \in Diagnosis
  OBVIOUS
<1>2. CASE old = {}
  <2>1. messages' = messages \cup {Row(DiagnosisOf[a])}
    BY <1>2 DEF AppendMessage
  <2>2. \A r \in messages : r.id # id
    BY <1>2
  <2> QED
    BY <1>1, <2>1, <2>2 DEF MessageRows
<1>3. CASE old # {}
  <2>1. messages' = (messages \ old) \cup {[r EXCEPT !.by = a] : r \in old}
    BY <1>3 DEF AppendMessage
  <2>2. PICK first \in old : TRUE
    BY <1>3
  <2>3. \A r \in old : r = first
    BY DEF MessageRows
  <2>4. [first EXCEPT !.by = a] = Row(first.conversation)
    BY DEF RowsAreRecords
  <2>5. messages' = {r \in messages : r.id # id} \cup {Row(first.conversation)}
    <3>1. {[r EXCEPT !.by = a] : r \in old} = {[first EXCEPT !.by = a]}
      BY <2>3
    <3>2. messages \ old = {r \in messages : r.id # id}
      OBVIOUS
    <3> HIDE DEF old, Row
    <3> QED
      BY <2>1, <2>4, <3>1, <3>2
  <2>6. first.conversation \in Diagnosis
    BY DEF MessageRows
  <2> QED
    BY <2>5, <2>6 DEF MessageRows
<1> QED
  BY <1>2, <1>3

LEMMA TypeInit == Init => TypeOK
BY DEF Init, TypeOK

LEMMA TypeStep == LogInv /\ TypeOK /\ [Next]_vars => TypeOK'
<1> SUFFICES ASSUME LogInv, TypeOK, [Next]_vars PROVE TypeOK'
  OBVIOUS
<1>1. MessageRows'
  <2>1. MessageRows /\ RowsAreRecords
    BY DEF LogInv, TypeOK, MessageRows
  <2>2. ASSUME NEW a \in Attempt, NEW id, AppendMessage(a, id) PROVE MessageRows'
    BY <2>1, <2>2, UpsertRows
  <2>3. ASSUME UNCHANGED messages PROVE MessageRows'
    BY <2>1, <2>3 DEF MessageRows
  <2>4. ASSUME NEW a \in Attempt, Take(a) \/ Initialize(a) \/ Finish(a) \/ Stop(a)
        PROVE  UNCHANGED messages
    BY <2>4 DEF Take, Initialize, Finish, Stop
  <2>5. ASSUME NEW a \in Attempt, AppendQuestion(a) \/ AppendReport(a)
        PROVE  MessageRows'
    BY <2>2, <2>3, <2>5, Zenon DEF AppendQuestion, AppendReport
  <2>6. ASSUME NEW a \in Attempt, NEW k \in Tool, BeginCall(a, k) \/ CompleteCall(a, k) \/ DropCall(a, k)
        PROVE  UNCHANGED messages
    BY <2>6 DEF BeginCall, CompleteCall, DropCall
  <2>7. ASSUME NEW a \in Attempt, NEW k \in Tool, AppendCall(a, k) \/ AppendResult(a, k)
        PROVE  MessageRows'
    BY <2>2, <2>7, Zenon DEF AppendCall, AppendResult
  <2> QED
    BY <2>3, <2>4, <2>5, <2>6, <2>7, Zenon DEF Next, Step, vars
<1>2. CallTypes'
  BY LogStep DEF LogInv
<1>3. /\ owner' \in [Diagnosis -> Attempt \cup {NoAttempt}]
      /\ initialized' \subseteq Diagnosis /\ finished' \subseteq Diagnosis
  <2>1. ASSUME NEW a \in Attempt, Take(a) \/ Initialize(a) \/ Finish(a)
        PROVE  /\ owner' \in [Diagnosis -> Attempt \cup {NoAttempt}]
               /\ initialized' \subseteq Diagnosis /\ finished' \subseteq Diagnosis
    <3>1. /\ owner' \in {owner, [owner EXCEPT ![DiagnosisOf[a]] = a], [owner EXCEPT ![DiagnosisOf[a]] = NoAttempt]}
          /\ initialized' \in {initialized, initialized \cup {DiagnosisOf[a]}}
          /\ finished' \in {finished, finished \cup {DiagnosisOf[a]}}
      BY <2>1 DEF Take, Initialize, Finish
    <3>2. DiagnosisOf[a] \in Diagnosis
      OBVIOUS
    <3>3. /\ owner \in [Diagnosis -> Attempt \cup {NoAttempt}]
          /\ initialized \subseteq Diagnosis /\ finished \subseteq Diagnosis
      BY DEF TypeOK
    <3>4. initialized' \subseteq Diagnosis /\ finished' \subseteq Diagnosis
      BY <3>1, <3>2, <3>3, Zenon
    <3>5. owner' \in [Diagnosis -> Attempt \cup {NoAttempt}]
      BY <3>1, <3>2, <3>3
    <3> QED
      BY <3>4, <3>5
  <2>2. \/ UNCHANGED <<owner, initialized, finished>>
        \/ \E a \in Attempt : Take(a) \/ Initialize(a) \/ Finish(a)
    <3>1. ASSUME NEW a \in Attempt, AppendQuestion(a) \/ AppendReport(a) \/ Stop(a)
          PROVE  UNCHANGED <<owner, initialized, finished>>
      BY <3>1 DEF AppendQuestion, AppendReport, Stop, tables
    <3>2. ASSUME NEW a \in Attempt, NEW k \in Tool,
                 \/ BeginCall(a, k) \/ AppendCall(a, k) \/ AppendResult(a, k)
                 \/ CompleteCall(a, k) \/ DropCall(a, k)
          PROVE  UNCHANGED <<owner, initialized, finished>>
      BY <3>2 DEF BeginCall, AppendCall, AppendResult, CompleteCall, DropCall, tables
    <3> QED
      BY <3>1, <3>2, Zenon DEF Next, Step, vars, tables
  <2> QED
    BY <2>1, <2>2 DEF TypeOK
<1>4. steps' \in [Diagnosis -> [Tool -> {"ABSENT", "RUNNING", "COMPLETED", "FAILED"}]]
  <2>1. ASSUME NEW d \in Diagnosis, NEW k \in Tool, NEW s \in {"RUNNING", "COMPLETED", "FAILED"},
               steps' = [steps EXCEPT ![d][k] = s]
        PROVE  steps' \in [Diagnosis -> [Tool -> {"ABSENT", "RUNNING", "COMPLETED", "FAILED"}]]
    BY <2>1 DEF TypeOK
  <2>2. \/ UNCHANGED steps
        \/ \E d \in Diagnosis, k \in Tool, s \in {"RUNNING", "COMPLETED", "FAILED"} :
             steps' = [steps EXCEPT ![d][k] = s]
    <3>1. ASSUME NEW a \in Attempt, \/ Take(a) \/ Initialize(a) \/ AppendQuestion(a)
                                    \/ AppendReport(a) \/ Finish(a) \/ Stop(a)
          PROVE  UNCHANGED steps
      BY <3>1 DEF Take, Initialize, AppendQuestion, AppendReport, Finish, Stop, tables
    <3>2. ASSUME NEW a \in Attempt, NEW k \in Tool,
                 AppendCall(a, k) \/ AppendResult(a, k) \/ DropCall(a, k)
          PROVE  UNCHANGED steps
      BY <3>2 DEF AppendCall, AppendResult, DropCall, tables
    <3>3. ASSUME NEW a \in Attempt, NEW k \in Tool, BeginCall(a, k) \/ CompleteCall(a, k)
          PROVE  \/ UNCHANGED steps
                 \/ \E s \in {"RUNNING", "COMPLETED", "FAILED"} :
                      steps' = [steps EXCEPT ![DiagnosisOf[a]][k] = s]
      BY <3>3 DEF BeginCall, CompleteCall
    <3>4. \A a \in Attempt : DiagnosisOf[a] \in Diagnosis
      OBVIOUS
    <3>5. ASSUME NEW a \in Attempt, NEW k \in Tool, BeginCall(a, k) \/ CompleteCall(a, k)
          PROVE  \/ UNCHANGED steps
                 \/ \E d \in Diagnosis, j \in Tool, s \in {"RUNNING", "COMPLETED", "FAILED"} :
                      steps' = [steps EXCEPT ![d][j] = s]
      BY <3>3, <3>4, <3>5
    <3> QED
      BY <3>1, <3>2, <3>5, Zenon DEF Next, Step, vars, tables
  <2> QED
    BY <2>1, <2>2 DEF TypeOK
<1> QED
  BY <1>1, <1>2, <1>3, <1>4 DEF TypeOK, MessageRows, CallTypes

LEMMA LogMoves == [AllNext]_all => [Next]_vars
BY DEF AllNext, all

LEMMA Logged == AllSpec => [](LogInv /\ TypeOK)
<1>1. AllInit => LogInv /\ TypeOK
  BY LogInit, TypeInit DEF AllInit
<1>2. LogInv /\ TypeOK /\ [AllNext]_all => (LogInv /\ TypeOK)'
  BY LogMoves, LogStep, TypeStep
<1> QED
  BY <1>1, <1>2, PTL DEF AllSpec

\* Stored evidence can be read back: its tool_result is in the log, in the
\* conversation of the diagnosis, whichever attempts wrote the two.
THEOREM EvidenceReadable == AllSpec => []EvidenceHasMessage
<1>1. LogInv => EvidenceHasMessage
  BY DEF LogInv, Stored, ResultsAtHome, EvidenceHasMessage, ToolResult, Rows, Ids
<1> QED
  BY <1>1, Logged, PTL

\* Whoever works on a diagnosis comes behind its question, unless it is not the
\* first to take it; what is begun or reported comes from such an attempt.
Asked(d) == UserId(d) \in Ids \/ TakenTwice(d)
QuestionInv ==
  /\ \A d \in initialized : \E a \in Attempt : DiagnosisOf[a] = d /\ pc[a] # "new"
  /\ \A a \in Attempt : pc[a] \in {"work", "finalize"} => Asked(DiagnosisOf[a])
  /\ \A d \in Diagnosis : (\E k \in Tool : steps[d][k] # "ABSENT") \/ ReportId(d) \in Ids => Asked(d)

\* Nothing takes a question back, and no attempt is new again.
LEMMA AskedStays ==
  ASSUME Ids \subseteq Ids', \A a \in Attempt : pc[a] # "new" => pc'[a] # "new"
  PROVE  \A d : Asked(d) => Asked(d)'
BY DEF Asked, TakenTwice, UserId

LEMMA QuestionStart == Init => QuestionInv
BY DEF Init, QuestionInv, Ids

\* Steps that append nothing but what a call says: the attempts that come to
\* work or begin a call come behind the question.
LEMMA QuietQuestion ==
  ASSUME QuestionInv, Ids \subseteq Ids',
         \A a \in Attempt : pc[a] # "new" => pc'[a] # "new",
         initialized' = initialized,
         \A d \in Diagnosis : ReportId(d) \in Ids' => ReportId(d) \in Ids \/ Asked(d),
         \A d \in Diagnosis, k \in Tool : steps'[d][k] # "ABSENT" => steps[d][k] # "ABSENT" \/ Asked(d),
         \A a \in Attempt : pc'[a] \in {"work", "finalize"} => Asked(DiagnosisOf[a])'
  PROVE  QuestionInv'
<1>1. \A d : Asked(d) => Asked(d)'
  BY AskedStays
<1>2. \A d \in initialized' : \E a \in Attempt : DiagnosisOf[a] = d /\ pc'[a] # "new"
  BY DEF QuestionInv
<1>3. \A d \in Diagnosis : (\E k \in Tool : steps'[d][k] # "ABSENT") \/ ReportId(d) \in Ids' => Asked(d)'
  BY <1>1 DEF QuestionInv
<1> QED
  BY <1>2, <1>3 DEF QuestionInv, ReportId

LEMMA QuestionStep == LogInv /\ TypeOK /\ QuestionInv /\ [Next]_vars => QuestionInv'
<1> SUFFICES ASSUME LogInv, TypeOK, QuestionInv, [Next]_vars PROVE QuestionInv'
  OBVIOUS
<1> USE DEF tables, Goto, Stage
<1>1. RowsAreRecords /\ pc \in [Attempt -> {"new", "initialize", "question", "work", "finalize", "over"}]
  BY DEF LogInv, CallTypes
<1>2. \A a \in Attempt : pc[a] \in {"work", "finalize"} => Asked(DiagnosisOf[a])
  BY DEF QuestionInv
<1>3. ASSUME UNCHANGED vars PROVE QuestionInv'
  <2>1. Ids' = Ids
    BY <1>3 DEF vars, Ids
  <2> QED
    BY <1>2, <1>3, <2>1, QuietQuestion, AskedStays DEF vars
<1>4. ASSUME NEW a \in Attempt, Take(a) PROVE QuestionInv'
  <2>1. /\ pc[a] = "new" /\ UNCHANGED <<messages, initialized, steps>>
        /\ pc' = [pc EXCEPT ![a] = IF DiagnosisOf[a] \in initialized THEN "work" ELSE "initialize"]
    BY <1>4 DEF Take
  <2>2. Ids' = Ids /\ \A b \in Attempt : pc[b] # "new" => pc'[b] # "new"
    BY <1>1, <2>1 DEF Ids
  <2>3. ASSUME DiagnosisOf[a] \in initialized PROVE Asked(DiagnosisOf[a])'
    <3>1. PICK b \in Attempt : DiagnosisOf[b] = DiagnosisOf[a] /\ pc[b] # "new"
      BY <2>3 DEF QuestionInv
    <3>2. a # b /\ pc'[a] # "new" /\ pc'[b] # "new"
      BY <1>1, <2>1, <2>2, <3>1
    <3> QED
      BY <3>1, <3>2 DEF Asked, TakenTwice
  <2>4. ASSUME NEW b \in Attempt, pc'[b] \in {"work", "finalize"} PROVE Asked(DiagnosisOf[b])'
    <3>1. CASE b = a
      BY <1>1, <2>1, <2>3, <2>4, <3>1
    <3>2. CASE b # a
      BY <1>1, <1>2, <2>1, <2>2, <2>4, <3>2, AskedStays
    <3> QED
      BY <3>1, <3>2
  <2> QED
    BY <2>1, <2>2, <2>4, QuietQuestion
<1>5. ASSUME NEW a \in Attempt, Initialize(a) PROVE QuestionInv'
  <2>1. /\ pc[a] = "initialize" /\ UNCHANGED <<messages, steps>>
        /\ initialized' = initialized \cup {DiagnosisOf[a]} /\ pc' = [pc EXCEPT ![a] = "question"]
    BY <1>5 DEF Initialize
  <2>2. Ids' = Ids /\ \A b \in Attempt : pc[b] # "new" => pc'[b] # "new"
    BY <1>1, <2>1 DEF Ids
  <2>3. \A d : Asked(d) => Asked(d)'
    BY <2>2, AskedStays
  <2>4. \A d \in initialized' : \E b \in Attempt : DiagnosisOf[b] = d /\ pc'[b] # "new"
    BY <1>1, <2>1, <2>2 DEF QuestionInv
  <2>5. \A b \in Attempt : pc'[b] \in {"work", "finalize"} => pc[b] \in {"work", "finalize"}
    BY <1>1, <2>1
  <2> QED
    BY <2>1, <2>2, <2>3, <2>4, <2>5 DEF QuestionInv, ReportId
<1>6. ASSUME NEW a \in Attempt, AppendQuestion(a) PROVE QuestionInv'
  <2>1. /\ pc[a] = "question" /\ AppendMessage(a, UserId(DiagnosisOf[a]))
        /\ pc' = [pc EXCEPT ![a] = "work"] /\ UNCHANGED <<initialized, steps>>
    BY <1>6 DEF AppendQuestion
  <2>2. Ids' = Ids \cup {UserId(DiagnosisOf[a])}
    BY <1>1, <2>1, Upsert
  <2>3. \A b \in Attempt : pc[b] # "new" => pc'[b] # "new"
    BY <1>1, <2>1
  <2>4. Asked(DiagnosisOf[a])'
    BY <2>2 DEF Asked, UserId
  <2>5. \A b \in Attempt : pc'[b] \in {"work", "finalize"} => Asked(DiagnosisOf[b])'
    BY <1>1, <1>2, <2>1, <2>2, <2>3, <2>4, AskedStays
  <2>6. \A d \in Diagnosis : ReportId(d) # UserId(DiagnosisOf[a])
    BY DEF ReportId, UserId
  <2> QED
    BY <2>1, <2>2, <2>3, <2>5, <2>6, QuietQuestion
<1>7. ASSUME NEW a \in Attempt, NEW k \in Tool,
             BeginCall(a, k) \/ AppendCall(a, k) \/ AppendResult(a, k) \/ CompleteCall(a, k)
             \/ DropCall(a, k)
      PROVE  QuestionInv'
  <2>1. pc[a] = "work" /\ UNCHANGED <<pc, initialized>>
    BY <1>7 DEF BeginCall, AppendCall, AppendResult, CompleteCall, DropCall
  <2>2. Asked(DiagnosisOf[a])
    BY <1>2, <2>1
  <2>3. \/ steps' = steps
        \/ \E s : steps' = [steps EXCEPT ![DiagnosisOf[a]][k] = s]
    BY <1>7 DEF BeginCall, AppendCall, AppendResult, CompleteCall, DropCall
  <2>4. \A d \in Diagnosis, j \in Tool : steps'[d][j] # steps[d][j] => d = DiagnosisOf[a]
    BY <2>3 DEF TypeOK
  <2>5. \/ messages' = messages
        \/ \E id \in {CallId(DiagnosisOf[a], k), ResultId(DiagnosisOf[a], k)} : AppendMessage(a, id)
    BY <1>7 DEF BeginCall, AppendCall, AppendResult, CompleteCall, DropCall
  <2>6. Ids' \in {Ids, Ids \cup {CallId(DiagnosisOf[a], k)}, Ids \cup {ResultId(DiagnosisOf[a], k)}}
    <3>1. CASE messages' = messages
      BY <3>1 DEF Ids
    <3>2. ASSUME NEW id \in {CallId(DiagnosisOf[a], k), ResultId(DiagnosisOf[a], k)},
                 AppendMessage(a, id)
          PROVE  Ids' = Ids \cup {id}
      BY <1>1, <3>2, Upsert
    <3> QED
      BY <2>5, <3>1, <3>2
  <2>7. \A d \in Diagnosis : ReportId(d) # CallId(DiagnosisOf[a], k) /\ ReportId(d) # ResultId(DiagnosisOf[a], k)
    BY DEF ReportId, CallId, ResultId
  <2>8. Ids \subseteq Ids' /\ \A d \in Diagnosis : ReportId(d) \in Ids' => ReportId(d) \in Ids
    BY <2>6, <2>7
  <2>9. \A b \in Attempt : pc'[b] \in {"work", "finalize"} => Asked(DiagnosisOf[b])'
    BY <1>2, <2>1, <2>8, AskedStays
  <2> QED
    BY <2>1, <2>2, <2>4, <2>8, <2>9, QuietQuestion
<1>8. ASSUME NEW a \in Attempt, AppendReport(a) PROVE QuestionInv'
  <2>1. /\ pc[a] = "work" /\ pc' = [pc EXCEPT ![a] = "finalize"] /\ UNCHANGED <<initialized, steps>>
        /\ AppendMessage(a, ReportId(DiagnosisOf[a])) \/ UNCHANGED messages
    BY <1>8 DEF AppendReport
  <2>2. Ids' = Ids \/ Ids' = Ids \cup {ReportId(DiagnosisOf[a])}
    BY <1>1, <2>1, Upsert DEF Ids
  <2>3. Asked(DiagnosisOf[a]) /\ \A b \in Attempt : pc[b] # "new" => pc'[b] # "new"
    BY <1>1, <1>2, <2>1
  <2>4. \A d \in Diagnosis : ReportId(d) = ReportId(DiagnosisOf[a]) => d = DiagnosisOf[a]
    BY DEF ReportId
  <2>5. \A b \in Attempt : pc'[b] \in {"work", "finalize"} => Asked(DiagnosisOf[b])'
    BY <1>1, <1>2, <2>1, <2>2, <2>3, AskedStays
  <2> QED
    BY <2>1, <2>2, <2>3, <2>4, <2>5, QuietQuestion
<1>9. ASSUME NEW a \in Attempt, Finish(a) \/ Stop(a) PROVE QuestionInv'
  <2>1. /\ pc' = [pc EXCEPT ![a] = "over"] /\ UNCHANGED <<messages, initialized, steps>>
    BY <1>9 DEF Finish, Stop
  <2>2. Ids' = Ids /\ \A b \in Attempt : pc[b] # "new" => pc'[b] # "new"
    BY <1>1, <2>1 DEF Ids
  <2>3. \A b \in Attempt : pc'[b] \in {"work", "finalize"} => pc[b] \in {"work", "finalize"}
    BY <1>1, <2>1
  <2>4. \A b \in Attempt : pc'[b] \in {"work", "finalize"} => Asked(DiagnosisOf[b])'
    BY <1>2, <2>2, <2>3, AskedStays
  <2> QED
    BY <2>1, <2>2, <2>4, QuietQuestion
<1> QED
  BY <1>3, <1>4, <1>5, <1>6, <1>7, <1>8, <1>9 DEF Next, Step

LEMMA QuestionMoves == QuestionInv /\ LogInv /\ TypeOK /\ [AllNext]_all => QuestionInv'
BY LogMoves, QuestionStep

\* A transcript starts with its question and has no result before its call,
\* whatever attempts are taken over, dropped or crash in between; the question is
\* missing only where a second attempt took the diagnosis.
THEOREM TranscriptReadable == AllSpec => []TranscriptInOrder
<1>1. AllInit => QuestionInv
  BY QuestionStart DEF AllInit
<1>2. QuestionInv /\ LogInv /\ TypeOK /\ [AllNext]_all => QuestionInv'
  BY QuestionMoves
<1>3. LogInv => CallBeforeResult
  BY DEF LogInv, Stored, CallBeforeResult, Rows, Ids
<1>4. QuestionInv => QuestionIsAsked
  BY DEF QuestionInv, QuestionIsAsked, Asked, Rows, Ids
<1> QED
  BY <1>1, <1>2, <1>3, <1>4, Logged, PTL DEF AllSpec, TranscriptInOrder

-----------------------------------------------------------------------------
(* The compaction of a conversation.                                        *)

\* The last of some messages is one of them, and none comes after it.
LEMMA LastMessage ==
  ASSUME NEW Some, Some \subseteq 1 .. MaxMessages, Some # {}
  PROVE  C!Max(Some) \in Some /\ \A x \in Some : C!Max(Some) >= x
<1> DEFINE Distance == {MaxMessages - x : x \in Some}
<1>1. MaxMessages \in Nat
  BY ContextAssumption DEF C!BoundAssumption
<1>2. Distance \subseteq Nat /\ Distance # {}
  <2>1. \A x \in Some : MaxMessages - x \in Nat
    BY <1>1
  <2> QED
    BY <2>1
<1>3. PICK n \in Distance : \A m \in Distance : <<m, n>> \notin OpToRel(<, Nat)
  BY <1>2, NatLessThanWellFounded, WFMin
<1>4. \A m \in Distance : ~(m < n)
  BY <1>2, <1>3 DEF OpToRel
<1>5. PICK x \in Some : n = MaxMessages - x
  BY <1>3
<1>6. ASSUME NEW y \in Some PROVE x >= y
  <2>1. ~(MaxMessages - y < n)
    BY <1>4
  <2>2. x \in 1 .. MaxMessages /\ y \in 1 .. MaxMessages
    BY <1>5
  <2> QED
    BY <1>1, <1>5, <2>1, <2>2
<1> QED
  BY <1>5, <1>6 DEF C!Max

ContextTypes == /\ C!TypeOK
                /\ \A c \in Compactor : compactor[c].busy =>
                     compactor[c].pending # {} /\ compactor[c].pending \subseteq texts

\* With one process appending, a message comes after those that are stored,
\* and a snapshot misses none but those that came after it.
ContextInv ==
  /\ \A w \in writing : (\A m \in texts : m < w) /\ writing = {w}
  /\ latest.through \in texts \cup {0}
  /\ C!NothingForgotten
  /\ \A c \in Compactor : compactor[c].busy =>
       \A m \in texts : \/ m \in compactor[c].summary \cup compactor[c].pending
                        \/ \A p \in compactor[c].pending : p < m

LEMMA ContextMoves == [AllNext]_all => [C!Next]_(C!vars)
BY DEF AllNext, all, C!vars, context

\* What a compaction commits about an item.
LEMMA ItemWritten ==
  ASSUME C!TypeOK, NEW i \in C!Item, NEW output \in C!Output, NEW n \in Nat, n <= MaxCompactions
  PROVE  /\ C!WriteItem(i, C!Drafts(output), n) \in [status : C!Status \cup {"absent"}, by : 0 .. MaxCompactions]
         /\ i \in Fact /\ C!WriteItem(i, C!Drafts(output), n).status = "active"
              => C!WriteItem(i, C!Drafts(output), n).by = n
<1> DEFINE drafts == C!Drafts(output)
<1>1. PICK is : output.items \in [is -> {"active", "resolved"}]
  BY DEF C!Output
<1>2. DOMAIN drafts = output.state \cup is
  BY <1>1 DEF C!Drafts
<1>3. ASSUME i \in DOMAIN drafts PROVE drafts[i] \in {"active", "resolved"}
  BY <1>1, <1>2, <1>3 DEF C!Drafts, C!StateItems
<1>4. memory[i] \in [status : C!Status \cup {"absent"}, by : 0 .. MaxCompactions]
  BY DEF C!TypeOK
<1>5. n \in 0 .. MaxCompactions
  BY ContextAssumption DEF C!BoundAssumption
<1> HIDE DEF drafts
<1>6. CASE i \in DOMAIN drafts
  <2>1. C!WriteItem(i, drafts, n) = [status |-> drafts[i], by |-> n]
    BY <1>6 DEF C!WriteItem
  <2> QED
    BY <1>3, <1>5, <1>6, <2>1 DEF drafts, C!Status
<1>7. CASE i \notin DOMAIN drafts
  <2>1. C!WriteItem(i, drafts, n) = IF i \in Fact /\ memory[i].status = "active"
                                   THEN [memory[i] EXCEPT !.status = "superseded"] ELSE memory[i]
    BY <1>7 DEF C!WriteItem
  <2>2. /\ [memory[i] EXCEPT !.status = "superseded"].status = "superseded"
        /\ [memory[i] EXCEPT !.status = "superseded"]
             \in [status : C!Status \cup {"absent"}, by : 0 .. MaxCompactions]
    BY <1>4 DEF C!Status
  <2> QED
    BY <1>4, <2>1, <2>2 DEF drafts
<1> QED
  BY <1>6, <1>7

LEMMA ContextInit == C!Init => ContextTypes /\ ContextInv /\ C!ActiveStateIsLatest
BY ContextAssumption DEF C!Init, C!NoCompaction, C!Absent, C!Idle, ContextTypes, C!TypeOK, ContextInv,
     C!NothingForgotten, C!ActiveStateIsLatest, C!Item, C!BoundAssumption

\* A compactor has no snapshot, keeps the one it has, or has just taken one.
LEMMA SnapshotStep ==
  ASSUME ContextTypes, NEW c \in Compactor, C!StartCompaction(c) \/ C!CompactionFails(c)
  PROVE  /\ compactor' \in [Compactor -> [busy : BOOLEAN, pending : SUBSET C!Message, summary : SUBSET C!Message]]
         /\ \A b \in Compactor : compactor'[b].busy =>
              \/ compactor'[b] = compactor[b]
              \/ compactor'[b].pending = C!Pending /\ C!Pending # {} /\ compactor'[b].summary = latest.summary
<1> DEFINE snapshot == [busy |-> TRUE, pending |-> C!Pending, summary |-> latest.summary]
           Snapshot == [busy : BOOLEAN, pending : SUBSET C!Message, summary : SUBSET C!Message]
<1>1. compactor \in [Compactor -> Snapshot]
  BY DEF ContextTypes, C!TypeOK
<1>2. /\ C!Idle \in Snapshot /\ ~C!Idle.busy
      /\ snapshot \in Snapshot /\ snapshot.pending = C!Pending /\ snapshot.summary = latest.summary
  BY DEF C!Idle, ContextTypes, C!TypeOK, C!Pending
<1>3. \E s \in {C!Idle, snapshot} : compactor' = [compactor EXCEPT ![c] = s] /\ (s = snapshot => C!Pending # {})
  BY <1>2 DEF C!StartCompaction, C!CompactionFails, C!MayCompact
<1> HIDE DEF snapshot, Snapshot
<1>4. compactor' \in [Compactor -> Snapshot]
  BY <1>1, <1>2, <1>3
<1>5. \A b \in Compactor : compactor'[b].busy =>
        compactor'[b] = compactor[b] \/ (compactor'[b] = snapshot /\ C!Pending # {})
  BY <1>1, <1>2, <1>3
<1> QED
  BY <1>2, <1>4, <1>5 DEF Snapshot

LEMMA ContextTypesStep ==
  ContextTypes /\ C!ActiveStateIsLatest /\ [C!Next]_(C!vars) => ContextTypes' /\ C!ActiveStateIsLatest'
<1> SUFFICES ASSUME ContextTypes, C!ActiveStateIsLatest, [C!Next]_(C!vars)
             PROVE  ContextTypes' /\ C!ActiveStateIsLatest'
  OBVIOUS
<1>1. CASE C!Stamp \/ \E m \in C!Message : C!AppendMessage(m)
  BY <1>1 DEF C!Stamp, C!AppendMessage, ContextTypes, C!TypeOK, C!ActiveStateIsLatest
<1>2. ASSUME NEW c \in Compactor, C!StartCompaction(c) \/ C!CompactionFails(c)
      PROVE  ContextTypes' /\ C!ActiveStateIsLatest'
  <2>1. UNCHANGED <<writing, texts, latest, memory>> /\ C!Pending \subseteq texts
    BY <1>2 DEF C!StartCompaction, C!CompactionFails, C!Pending
  <2> QED
    BY <1>2, <2>1, SnapshotStep DEF ContextTypes, C!TypeOK, C!ActiveStateIsLatest, C!Message, C!Item
<1>3. ASSUME NEW c \in Compactor, NEW output \in C!Output, C!Commit(c, output)
      PROVE  ContextTypes' /\ C!ActiveStateIsLatest'
  <2> DEFINE n == latest.n + 1
  <2>1. /\ compactor[c].busy /\ n <= MaxCompactions
        /\ latest' = [n |-> n, through |-> C!Through(c), summary |-> compactor[c].summary \cup compactor[c].pending]
        /\ memory' = [i \in C!Item |-> C!WriteItem(i, C!Drafts(output), n)]
        /\ compactor' = [compactor EXCEPT ![c] = C!Idle]
        /\ UNCHANGED <<writing, texts>>
    BY <1>3 DEF C!Commit
  <2>2. n \in Nat /\ n \in 0 .. MaxCompactions
    BY <2>1, ContextAssumption DEF ContextTypes, C!TypeOK, C!BoundAssumption
  <2>3. /\ compactor[c].pending # {} /\ compactor[c].pending \subseteq C!Message
        /\ compactor[c].summary \subseteq C!Message
    BY <2>1 DEF ContextTypes, C!TypeOK
  <2>4. C!Through(c) \in 0 .. MaxMessages
    BY <2>3, LastMessage, ContextAssumption DEF C!Through, C!Message, C!BoundAssumption
  <2> HIDE DEF n
  <2>5. latest' \in [n : 0 .. MaxCompactions, through : 0 .. MaxMessages, summary : SUBSET C!Message]
    BY <2>1, <2>2, <2>3, <2>4
  <2>6. memory' \in [C!Item -> [status : C!Status \cup {"absent"}, by : 0 .. MaxCompactions]]
    BY <2>1, <2>2, ItemWritten DEF ContextTypes
  <2>7. /\ compactor' \in [Compactor -> [busy : BOOLEAN, pending : SUBSET C!Message, summary : SUBSET C!Message]]
        /\ \A b \in Compactor : compactor'[b].busy => compactor'[b] = compactor[b]
    BY <2>1 DEF ContextTypes, C!TypeOK, C!Idle
  <2>8. ContextTypes'
    BY <2>1, <2>5, <2>6, <2>7 DEF ContextTypes, C!TypeOK, C!Message, C!Item
  <2>9. C!ActiveStateIsLatest'
    BY <2>1, <2>2, ItemWritten DEF ContextTypes, C!ActiveStateIsLatest, C!Item
  <2> QED
    BY <2>8, <2>9
<1>4. CASE UNCHANGED C!vars
  BY <1>4 DEF C!vars, ContextTypes, C!TypeOK, C!ActiveStateIsLatest, C!Message, C!Item
<1> QED
  BY <1>1, <1>2, <1>3, <1>4 DEF C!Next

LEMMA ContextStep ==
  ASSUME SameLoop
  PROVE  ContextTypes /\ ContextInv /\ [C!Next]_(C!vars) => ContextInv'
<1> SUFFICES ASSUME ContextTypes, ContextInv, [C!Next]_(C!vars) PROVE ContextInv'
  OBVIOUS
<1> DEFINE Covers(s) == \A m \in texts : \/ m \in s.summary \cup s.pending
                                         \/ \A p \in s.pending : p < m
<1>0. /\ texts \subseteq 1 .. MaxMessages /\ writing \subseteq 1 .. MaxMessages
      /\ latest.through \in 0 .. MaxMessages
      /\ \A m \in 1 .. MaxMessages : m \in Int
  BY DEF ContextTypes, C!TypeOK, C!Message
<1>1. CASE C!Stamp
  <2>1. /\ UNCHANGED <<texts, latest, memory, compactor>> /\ writing = {}
        /\ \E m \in C!Message : texts = 1 .. m - 1 /\ writing' = {m}
    BY <1>1 DEF C!Stamp
  <2> QED
    BY <2>1 DEF ContextInv, C!NothingForgotten, C!Pending, C!Message
<1>2. ASSUME NEW w \in C!Message, C!AppendMessage(w) PROVE ContextInv'
  <2>1. /\ UNCHANGED <<latest, memory, compactor>> /\ w \in writing /\ writing' = writing \ {w}
        /\ texts' = texts \cup {w}
    BY <1>2 DEF C!AppendMessage
  <2>2. (\A m \in texts : m < w) /\ writing' = {}
    BY <2>1 DEF ContextInv
  <2>3. w > latest.through
    BY <1>0, <2>1, <2>2 DEF ContextInv
  <2>4. C!NothingForgotten'
    BY <2>1, <2>3 DEF ContextInv, C!NothingForgotten, C!Pending
  <2>5. \A c \in Compactor : compactor[c].busy => \A p \in compactor[c].pending : p < w
    BY <2>2 DEF ContextTypes
  <2> QED
    BY <2>1, <2>2, <2>4, <2>5 DEF ContextInv
<1>3. ASSUME NEW c \in Compactor, C!StartCompaction(c) \/ C!CompactionFails(c) PROVE ContextInv'
  <2>1. UNCHANGED <<writing, texts, latest, memory>>
    BY <1>3 DEF C!StartCompaction, C!CompactionFails
  <2>2. \A m \in texts : m \in latest.summary \cup C!Pending
    BY DEF ContextInv, C!NothingForgotten
  <2>3. C!NothingForgotten'
    BY <2>1 DEF ContextInv, C!NothingForgotten, C!Pending
  <2>4. \A b \in Compactor : compactor'[b].busy => Covers(compactor'[b])
    BY <1>3, <2>2, SnapshotStep DEF ContextInv
  <2> QED
    BY <2>1, <2>3, <2>4 DEF ContextInv
<1>4. ASSUME NEW c \in Compactor, NEW output \in C!Output, C!Commit(c, output) PROVE ContextInv'
  <2>1. /\ compactor[c].busy /\ UNCHANGED <<writing, texts>>
        /\ latest'.through = C!Max(compactor[c].pending)
        /\ latest'.summary = compactor[c].summary \cup compactor[c].pending
        /\ compactor' = [compactor EXCEPT ![c] = C!Idle]
    BY <1>4 DEF C!Commit, C!Through
  <2>2. /\ C!Max(compactor[c].pending) \in compactor[c].pending /\ compactor[c].pending \subseteq texts
        /\ \A p \in compactor[c].pending : C!Max(compactor[c].pending) >= p
    BY <1>0, <2>1, LastMessage DEF ContextTypes
  <2>3. Covers(compactor[c])
    BY <2>1 DEF ContextInv
  <2>4. C!NothingForgotten'
    BY <1>0, <2>1, <2>2, <2>3 DEF C!NothingForgotten, C!Pending
  <2>5. \A b \in Compactor : compactor'[b].busy => compactor'[b] = compactor[b]
    BY <2>1 DEF ContextTypes, C!TypeOK, C!Idle
  <2> QED
    BY <2>1, <2>2, <2>4, <2>5 DEF ContextInv
<1>5. CASE UNCHANGED C!vars
  BY <1>5 DEF C!vars, ContextInv, C!NothingForgotten, C!Pending
<1> QED
  BY <1>1, <1>2, <1>3, <1>4, <1>5 DEF C!Next

LEMMA Remembered == AllSpec => [](ContextTypes /\ C!ActiveStateIsLatest)
<1>1. AllInit => ContextTypes /\ C!ActiveStateIsLatest
  BY ContextInit DEF AllInit
<1>2. (ContextTypes /\ C!ActiveStateIsLatest) /\ [AllNext]_all => (ContextTypes /\ C!ActiveStateIsLatest)'
  BY ContextMoves, ContextTypesStep
<1> QED
  BY <1>1, <1>2, PTL DEF AllSpec

\* The goals, constraints and findings that a conversation shows as current
\* are those of its last compaction, however compactions overlap and fail and
\* however many processes append.
THEOREM MemoryIsCurrent == AllSpec => []ActiveStateIsLatest
<1>1. C!ActiveStateIsLatest => ActiveStateIsLatest
  BY DEF ActiveStateIsLatest
<1> QED
  BY <1>1, Remembered, PTL

\* When one process appends to a conversation, every message of it is in the
\* summary or after the boundary, also when a compaction that read less
\* commits last.
THEOREM NoneForgotten ==
  ASSUME SameLoop
  PROVE  AllSpec => []NothingForgotten
<1>1. AllInit => ContextInv
  BY ContextInit DEF AllInit
<1>2. ContextInv /\ ContextTypes /\ [AllNext]_all => ContextInv'
  BY ContextMoves, ContextStep
<1>3. ContextInv => NothingForgotten
  BY DEF ContextInv, NothingForgotten
<1> QED
  BY <1>1, <1>2, <1>3, Remembered, PTL DEF AllSpec

-----------------------------------------------------------------------------
(* The tables of a diagnosis.                                               *)

StepKey == Call \cup {"target-resolution", "final-report"}

\* A logical step has one row, which cites evidence that is stored; the report
\* step cites what the root cause of the checkpoint's report does.
StepsInv(d) ==
  /\ rows[d] \in Seq([key : StepKey, status : {"COMPLETED", "FAILED"}, evidence : SUBSET P!Stored(d)])
  /\ \A i, j \in DOMAIN rows[d] : rows[d][i].key = rows[d][j].key => i = j
  /\ \A i \in P!StepOf(d, "final-report") :
       report[d] # P!NoReport /\ rows[d][i].evidence = P!RootEvidence(d)

\* Evidence names a step that is there, or none.
FactsInv(d) ==
  /\ facts[d] \subseteq [id : Call, step : P!StepKeys(d) \cup {"none"}]
  /\ root[d].evidence \subseteq P!Stored(d)

\* The checkpoint has a report from VERIFY on, about evidence that is stored.
Reports(d) == [service : Service \cup {"unknown"}, evidence : SUBSET P!Stored(d), pod : BOOLEAN, sql : BOOLEAN,
               blamed : SUBSET Service, cited : SUBSET P!Stored(d)]
ReportInv(d) ==
  /\ report[d] \in Reports(d) \cup {P!NoReport}
  /\ at[d] = "investigate" => report[d] = P!NoReport
  /\ at[d] \in {"report", "complete"} \/ status[d] = "COMPLETED" => report[d] # P!NoReport

\* The report is projected before the diagnosis completes; no edge is left
\* without its nodes.
Projected(d) ==
  /\ P!EdgesOf(d) = P!GraphEdges(d) /\ nodes[d] = P!GraphNodes(d)
  /\ root[d].resource \in nodes[d] \cup {"none"} /\ root[d].resource # "no row"
  /\ root[d].evidence = P!RootEvidence(d) /\ P!HasStep(d, "final-report")
GraphInv(d) ==
  /\ at[d] = "complete" \/ status[d] = "COMPLETED" => Projected(d)
  /\ nodes[d] \subseteq P!Node
  /\ \A i \in P!EdgesOf(d) : i \in P!EdgeId /\ i[1] \in nodes[d] /\ i[2] \in nodes[d]

ProgressInv(d) ==
  /\ at[d] # "idle" => status[d] = "INVESTIGATING"
  /\ status[d] = "COMPLETED" => "diagnosis.completed" \in events[d]
  /\ status[d] = "FAILED" => "diagnosis.failed" \in events[d]
  /\ attempts[d] > 1 /\ (at[d] \notin {"idle", "recover"} \/ status[d] = "COMPLETED")
       => "diagnosis.recovered" \in events[d]

RowTypes ==
  /\ status \in [Diagnosis -> {"PENDING", "INVESTIGATING", "COMPLETED", "FAILED"}]
  /\ attempts \in [Diagnosis -> 0 .. MaxAttempts]
  /\ at \in [Diagnosis -> {"idle", "recover", "start", "investigate", "report", "complete"}]
  /\ DOMAIN report = Diagnosis /\ DOMAIN rows = Diagnosis /\ DOMAIN facts = Diagnosis
  /\ DOMAIN nodes = Diagnosis /\ DOMAIN root = Diagnosis /\ DOMAIN events = Diagnosis
  /\ \A i \in DOMAIN edges : edges[i] \in Diagnosis

DiagnosisInv(d) == StepsInv(d) /\ FactsInv(d) /\ ReportInv(d) /\ GraphInv(d) /\ ProgressInv(d)
TablesInv == RowTypes /\ \A d \in Diagnosis : DiagnosisInv(d)

\* What a report of stored evidence is projected to is well formed.
LEMMA GraphOf ==
  ASSUME NEW d \in Diagnosis, report[d] \in Reports(d), P!Stored(d) \subseteq Call
  PROVE  /\ P!GraphNodes(d) \subseteq P!Node
         /\ \A i \in P!GraphEdges(d) : i \in P!EdgeId /\ i[1] \in P!GraphNodes(d) /\ i[2] \in P!GraphNodes(d)
         /\ P!RootResource(d) \in P!GraphNodes(d) \cup {"none"} /\ P!RootResource(d) # "no row"
         /\ P!RootEvidence(d) \subseteq P!Stored(d)
<1> DEFINE affected == P!AffectedServices(d)
<1>1. affected \subseteq Service
  BY DEF P!AffectedServices, P!Expand
<1>2. Service \cap {"none", "unknown", "no row"} = {}
  BY ProjectionAssumption DEF P!CatalogAssumption
<1>3. /\ affected \subseteq P!GraphNodes(d)
      /\ P!HasSql(d) => "mysql" \in P!GraphNodes(d)
      /\ P!HasPod(d) => "pod" \in P!GraphNodes(d)
  BY DEF P!GraphNodes
<1>4. P!Hub(d) \subseteq affected /\ P!SqlSource(d) \subseteq affected /\ P!HttpTargets(d) \subseteq affected
  BY DEF P!Hub, P!SqlSource, P!HttpTargets
<1>5. P!GraphNodes(d) \subseteq P!Node
  BY <1>1 DEF P!GraphNodes, P!Node
<1>6. \A i \in P!GraphEdges(d) : \E s, t \in P!GraphNodes(d), k \in {"DEPENDS_ON", "HTTP", "SQL", "RUNS_ON"} :
        i = <<s, t, k>>
  <2>1. \A i \in affected \X affected \X {"DEPENDS_ON"} : \E s, t \in affected : i = <<s, t, "DEPENDS_ON">>
    OBVIOUS
  <2> HIDE DEF affected
  <2>2. \A i \in P!GraphEdges(d) :
          \/ i \in affected \X affected \X {"DEPENDS_ON"}
          \/ \E s \in P!Hub(d), t \in P!HttpTargets(d) : i = <<s, t, "HTTP">>
          \/ P!HasSql(d) /\ \E s \in P!SqlSource(d) : i = <<s, "mysql", "SQL">>
          \/ P!HasPod(d) /\ \E s \in P!Hub(d) : i = <<s, "pod", "RUNS_ON">>
    BY DEF P!GraphEdges, affected
  <2> QED
    BY <1>3, <1>4, <2>1, <2>2
<1>7. P!RootResource(d) \in P!GraphNodes(d) \cup {"none"} /\ P!RootResource(d) # "no row"
  <2>1. \/ P!HasSql(d) /\ P!RootResource(d) = "mysql"
        \/ P!RootResource(d) = "none"
        \/ P!RootResource(d) \in affected
    BY DEF P!RootResource
  <2> QED
    BY <1>1, <1>2, <1>3, <2>1
<1>8. P!RootEvidence(d) \subseteq P!Stored(d)
  BY DEF P!RootEvidence, Reports
<1>9. \A i \in P!GraphEdges(d) : i \in P!EdgeId /\ i[1] \in P!GraphNodes(d) /\ i[2] \in P!GraphNodes(d)
  BY <1>5, <1>6 DEF P!EdgeId
<1> QED
  BY <1>5, <1>7, <1>8, <1>9

\* The projection is a function of the report.
LEMMA SameReport ==
  ASSUME NEW d \in Diagnosis, report'[d] = report[d]
  PROVE  /\ P!GraphEdges(d)' = P!GraphEdges(d) /\ P!GraphNodes(d)' = P!GraphNodes(d)
         /\ P!RootEvidence(d)' = P!RootEvidence(d)
<1>1. P!AffectedServices(d)' = P!AffectedServices(d)
  BY DEF P!AffectedServices
<1>2. /\ P!HasSql(d)' = P!HasSql(d) /\ P!HasPod(d)' = P!HasPod(d)
  BY DEF P!HasSql, P!HasPod
<1>3. P!Hub(d)' = P!Hub(d) /\ P!HttpTargets(d)' = P!HttpTargets(d) /\ P!SqlSource(d)' = P!SqlSource(d)
  BY <1>1 DEF P!Hub, P!HttpTargets, P!SqlSource
<1>4. P!GraphEdges(d)' = P!GraphEdges(d)
  BY <1>1, <1>2, <1>3 DEF P!GraphEdges
<1>5. P!GraphNodes(d)' = P!GraphNodes(d)
  BY <1>1, <1>2 DEF P!GraphNodes
<1>6. P!RootEvidence(d)' = P!RootEvidence(d)
  BY DEF P!RootEvidence
<1> QED
  BY <1>4, <1>5, <1>6

\* A diagnosis keeps its rows when another one steps.
LEMMA OthersKeep ==
  ASSUME NEW d \in Diagnosis, DiagnosisInv(d),
         rows'[d] = rows[d], facts'[d] = facts[d], root'[d] = root[d], report'[d] = report[d],
         at'[d] = at[d], status'[d] = status[d], attempts'[d] = attempts[d], events'[d] = events[d],
         nodes'[d] = nodes[d], P!EdgesOf(d)' = P!EdgesOf(d)
  PROVE  DiagnosisInv(d)'
<1>1. P!Stored(d)' = P!Stored(d) /\ P!StepKeys(d)' = P!StepKeys(d) /\ P!HasStep(d, "final-report")' = P!HasStep(d, "final-report")
      /\ P!StepOf(d, "final-report")' = P!StepOf(d, "final-report")
  BY DEF P!Stored, P!StepKeys, P!HasStep, P!StepOf
<1>2. StepsInv(d)'
  BY <1>1, SameReport DEF DiagnosisInv, StepsInv, StepKey, P!NoReport
<1>3. FactsInv(d)'
  BY <1>1 DEF DiagnosisInv, FactsInv
<1>4. ReportInv(d)'
  BY <1>1 DEF DiagnosisInv, ReportInv, Reports, P!NoReport
<1>5. GraphInv(d)'
  <2>1. Projected(d)' <=> Projected(d)
    BY <1>1, SameReport DEF Projected
  <2> QED
    BY <2>1 DEF DiagnosisInv, GraphInv, P!Node, P!EdgeId
<1>6. ProgressInv(d)'
  BY DEF DiagnosisInv, ProgressInv
<1> QED
  BY <1>2, <1>3, <1>4, <1>5, <1>6 DEF DiagnosisInv

\* What the places and the events of the diagnoses do in a step.
LEMMA RowTypesStep == TablesInv /\ P!Next => RowTypes'
<1> SUFFICES ASSUME TablesInv, NEW d \in Diagnosis,
                    \/ P!Claim(d) \/ P!AppendRecovered(d) \/ P!StartProjection(d)
                    \/ (\E c \in Call : P!CallTool(d, c)) \/ P!Conclude(d) \/ P!PersistReport(d)
                    \/ P!ProjectionFails(d) \/ P!CompleteSession(d) \/ P!Crash(d) \/ P!MarkMaxAttempts(d)
             PROVE  RowTypes'
  BY DEF P!Next
<1> USE DEF P!Claim, P!AppendRecovered, P!StartProjection, P!CallTool, P!Conclude, P!PersistReport,
            P!ProjectionFails, P!CompleteSession, P!Crash, P!MarkMaxAttempts, TablesInv, RowTypes
<1>1. status' \in [Diagnosis -> {"PENDING", "INVESTIGATING", "COMPLETED", "FAILED"}]
  <2>1. status' = status \/ \E s \in {"INVESTIGATING", "COMPLETED", "FAILED"} : status' = [status EXCEPT ![d] = s]
    OBVIOUS
  <2> QED
    BY <2>1
<1>2. attempts' \in [Diagnosis -> 0 .. MaxAttempts]
  <2>1. attempts' = attempts \/ (attempts[d] < MaxAttempts /\ attempts' = [attempts EXCEPT ![d] = @ + 1])
    OBVIOUS
  <2>2. MaxAttempts \in Nat
    BY ProjectionAssumption DEF P!RequestAssumption
  <2> QED
    BY <2>1, <2>2
<1>3. at' \in [Diagnosis -> {"idle", "recover", "start", "investigate", "report", "complete"}]
  <2>1. at' = at \/ \E s \in {"idle", "recover", "start", "investigate", "report", "complete"} : at' = [at EXCEPT ![d] = s]
    BY DEF P!Goto
  <2> QED
    BY <2>1
<1>4. DOMAIN report' = Diagnosis /\ DOMAIN nodes' = Diagnosis /\ DOMAIN root' = Diagnosis
  BY DEF P!UpsertRootCause, P!ReplaceGraph
<1>5. DOMAIN rows' = Diagnosis /\ DOMAIN facts' = Diagnosis /\ DOMAIN events' = Diagnosis
  BY DEF P!AppendStep, P!AppendStepOnce, P!EvidenceRow, P!UpsertEvidence, P!Emit
<1>6. \A i \in DOMAIN edges' : edges'[i] \in Diagnosis
  <2>1. \A i \in DOMAIN edges : edges[i] \in Diagnosis
    OBVIOUS
  <2>2. CASE UNCHANGED edges
    BY <2>1, <2>2
  <2>3. CASE P!ReplaceGraph(d)
    <3> DEFINE own == P!GraphEdges(d)
    <3>1. edges' = [i \in own \cup (DOMAIN edges \ P!EdgesOf(d)) |-> IF i \in own THEN d ELSE edges[i]]
      BY <2>3 DEF P!ReplaceGraph
    <3> HIDE DEF own
    <3> QED
      BY <2>1, <3>1
  <2> QED
    BY <2>2, <2>3
<1> QED
  BY <1>1, <1>2, <1>3, <1>4, <1>5, <1>6

LEMMA ProgressStep ==
  ASSUME TablesInv, NEW d \in Diagnosis, ReportInv(d),
         \/ P!Claim(d) \/ P!AppendRecovered(d) \/ P!StartProjection(d)
         \/ (\E c \in Call : P!CallTool(d, c)) \/ P!Conclude(d) \/ P!PersistReport(d)
         \/ P!ProjectionFails(d) \/ P!CompleteSession(d) \/ P!Crash(d) \/ P!MarkMaxAttempts(d)
  PROVE  /\ ProgressInv(d)'
         /\ \A e \in Diagnosis \ {d} : /\ at'[e] = at[e] /\ status'[e] = status[e]
                                     /\ attempts'[e] = attempts[e] /\ events'[e] = events[e]
<1>1. ProgressInv(d) /\ RowTypes
  BY DEF TablesInv, DiagnosisInv
<1>2. \A e \in Diagnosis \ {d} : /\ at'[e] = at[e] /\ status'[e] = status[e]
                               /\ attempts'[e] = attempts[e] /\ events'[e] = events[e]
  BY <1>1 DEF P!Claim, P!AppendRecovered, P!StartProjection, P!CallTool, P!Conclude, P!PersistReport,
       P!ProjectionFails, P!CompleteSession, P!Crash, P!MarkMaxAttempts, P!Goto, P!Emit, RowTypes
<1>3. CASE P!Claim(d)
  <2>1. /\ at'[d] = IF attempts[d] > 0 THEN "recover" ELSE "start"
        /\ status'[d] = "INVESTIGATING" /\ attempts'[d] = attempts[d] + 1 /\ attempts[d] \in Nat
    BY <1>1, <1>3 DEF P!Claim, P!Goto, RowTypes
  <2> QED
    BY <1>2, <2>1 DEF ProgressInv
<1>4. CASE \/ P!AppendRecovered(d) \/ P!StartProjection(d) \/ (\E c \in Call : P!CallTool(d, c))
           \/ P!Conclude(d) \/ P!PersistReport(d)
  <2>1. /\ status' = status /\ attempts' = attempts /\ at[d] # "idle"
        /\ at[d] = "recover" => P!AppendRecovered(d)
    BY <1>4 DEF P!AppendRecovered, P!StartProjection, P!CallTool, P!Conclude, P!PersistReport
  <2>2. \/ events' = events /\ at[d] # "recover"
        \/ \E keys \in {{"diagnosis.recovered"}, {"diagnosis.started"}, {"graph.updated", "root_cause.generated"}} :
             P!Emit(d, keys) /\ (at[d] = "recover" => "diagnosis.recovered" \in keys)
    BY <1>4 DEF P!AppendRecovered, P!StartProjection, P!CallTool, P!Conclude, P!PersistReport
  <2>3. events[d] \subseteq events'[d] /\ (at[d] = "recover" => "diagnosis.recovered" \in events'[d])
    BY <1>1, <2>2 DEF P!Emit, RowTypes
  <2> QED
    BY <1>1, <1>2, <2>1, <2>3 DEF ProgressInv
<1>5. CASE P!ProjectionFails(d) \/ P!CompleteSession(d) \/ P!MarkMaxAttempts(d)
  <2>1. /\ attempts' = attempts /\ at'[d] = "idle" /\ events[d] \subseteq events'[d]
        /\ \/ status'[d] = "FAILED" /\ "diagnosis.failed" \in events'[d]
           \/ at[d] = "complete" /\ status'[d] = "COMPLETED" /\ "diagnosis.completed" \in events'[d]
    BY <1>1, <1>5 DEF P!ProjectionFails, P!CompleteSession, P!MarkMaxAttempts, P!Goto, P!Emit, RowTypes
  <2> QED
    BY <1>1, <1>2, <2>1 DEF ProgressInv
<1>6. CASE P!Crash(d)
  <2>1. /\ status' = status /\ attempts' = attempts /\ events' = events /\ at'[d] = "idle" /\ at[d] # "idle"
    BY <1>1, <1>6 DEF P!Crash, P!Goto, RowTypes
  <2> QED
    BY <1>1, <1>2, <2>1 DEF ProgressInv
<1> QED
  BY <1>2, <1>3, <1>4, <1>5, <1>6

\* Steps that only move a diagnosis on.
LEMMA QuietTables ==
  ASSUME NEW d \in Diagnosis, DiagnosisInv(d),
         rows'[d] = rows[d], facts'[d] = facts[d], root'[d] = root[d], report'[d] = report[d],
         nodes'[d] = nodes[d], P!EdgesOf(d)' = P!EdgesOf(d), ProgressInv(d)',
         at'[d] = "investigate" => report[d] = P!NoReport,
         at'[d] = "report" => report[d] # P!NoReport,
         at'[d] = "complete" \/ status'[d] = "COMPLETED" => at[d] = "complete" \/ status[d] = "COMPLETED"
  PROVE  DiagnosisInv(d)'
<1>1. P!Stored(d)' = P!Stored(d) /\ P!StepKeys(d)' = P!StepKeys(d) /\ P!HasStep(d, "final-report")' = P!HasStep(d, "final-report")
      /\ P!StepOf(d, "final-report")' = P!StepOf(d, "final-report")
  BY DEF P!Stored, P!StepKeys, P!HasStep, P!StepOf
<1>2. StepsInv(d)'
  BY <1>1, SameReport DEF DiagnosisInv, StepsInv, StepKey, P!NoReport
<1>3. FactsInv(d)'
  BY <1>1 DEF DiagnosisInv, FactsInv
<1>4. ReportInv(d)'
  BY <1>1 DEF DiagnosisInv, ReportInv, Reports, P!NoReport
<1>5. GraphInv(d)'
  <2>1. Projected(d)' <=> Projected(d)
    BY <1>1, SameReport DEF Projected
  <2> QED
    BY <2>1 DEF DiagnosisInv, GraphInv, P!Node, P!EdgeId
<1> QED
  BY <1>2, <1>3, <1>4, <1>5 DEF DiagnosisInv

LEMMA KeyHasStep ==
  ASSUME NEW d \in Diagnosis, NEW k
  PROVE  (P!HasStep(d, k) <=> k \in P!StepKeys(d)) /\ (P!HasStep(d, k)' <=> k \in P!StepKeys(d)')
BY DEF P!HasStep, P!StepOf, P!StepKeys

\* More evidence, or a first report, leaves the steps as they should be.
LEMMA KeptSteps ==
  ASSUME NEW d \in Diagnosis, StepsInv(d), rows'[d] = rows[d], P!Stored(d) \subseteq P!Stored(d)',
         report'[d] = report[d] \/ report[d] = P!NoReport
  PROVE  StepsInv(d)' /\ P!StepKeys(d)' = P!StepKeys(d)
<1>1. P!StepKeys(d)' = P!StepKeys(d) /\ P!StepOf(d, "final-report")' = P!StepOf(d, "final-report")
  BY DEF P!StepKeys, P!StepOf
<1> DEFINE Row(stored) == [key : StepKey, status : {"COMPLETED", "FAILED"}, evidence : SUBSET stored]
<1>2. Row(P!Stored(d)) \subseteq Row(P!Stored(d)')
  OBVIOUS
<1>3. rows[d] \in Seq(Row(P!Stored(d)'))
  <2>1. rows[d] \in Seq(Row(P!Stored(d)))
    BY DEF StepsInv
  <2> HIDE DEF Row
  <2> QED
    BY <1>2, <2>1
<1>4. \A k \in P!StepOf(d, "final-report") :
        report'[d] # P!NoReport /\ rows[d][k].evidence = P!RootEvidence(d)'
  BY SameReport DEF StepsInv
<1> QED
  BY <1>1, <1>3, <1>4 DEF StepsInv, StepKey, P!NoReport

\* A step appended with a new key, citing evidence that is stored.
LEMMA AppendedStep ==
  ASSUME NEW d \in Diagnosis, StepsInv(d), report'[d] = report[d], P!Stored(d) \subseteq P!Stored(d)',
         NEW k \in StepKey, NEW s \in {"COMPLETED", "FAILED"}, NEW ids \in SUBSET (P!Stored(d)'),
         rows'[d] = Append(rows[d], [key |-> k, status |-> s, evidence |-> ids]), ~P!HasStep(d, k),
         k = "final-report" => report[d] # P!NoReport /\ ids = P!RootEvidence(d)
  PROVE  StepsInv(d)' /\ P!StepKeys(d)' = P!StepKeys(d) \cup {k}
<1> DEFINE Row(stored) == [key : StepKey, status : {"COMPLETED", "FAILED"}, evidence : SUBSET stored]
           new == [key |-> k, status |-> s, evidence |-> ids]
           n == Len(rows[d])
<1>1. Row(P!Stored(d)) \subseteq Row(P!Stored(d)') /\ new \in Row(P!Stored(d)')
  OBVIOUS
<1>2. rows[d] \in Seq(Row(P!Stored(d)))
  BY DEF StepsInv
<1>3. new.key = k /\ new.evidence = ids
  OBVIOUS
<1> HIDE DEF Row, new
<1>4. rows[d] \in Seq(Row(P!Stored(d)')) /\ rows'[d] = Append(rows[d], new)
  BY <1>1, <1>2 DEF new
<1>5. /\ rows'[d] \in Seq(Row(P!Stored(d)')) /\ n \in Nat
      /\ DOMAIN rows[d] = 1 .. n /\ DOMAIN rows'[d] = 1 .. n + 1
      /\ \A i \in 1 .. n : rows'[d][i] = rows[d][i]
      /\ rows'[d][n + 1] = new
  BY <1>1, <1>4
<1> HIDE DEF n
<1>6. \A i \in 1 .. n : rows[d][i].key # k
  BY <1>5 DEF P!HasStep, P!StepOf
<1>7. \A i, j \in DOMAIN rows'[d] : rows'[d][i].key = rows'[d][j].key => i = j
  <2>1. \A i \in 1 .. n + 1 : i \in 1 .. n \/ i = n + 1
    BY <1>5
  <2> QED
    BY <1>3, <1>5, <1>6, <2>1 DEF StepsInv
<1>8. \A i \in P!StepOf(d, "final-report")' :
        report[d] # P!NoReport /\ rows'[d][i].evidence = P!RootEvidence(d)
  <2>1. ASSUME NEW i \in P!StepOf(d, "final-report")'
        PROVE  report[d] # P!NoReport /\ rows'[d][i].evidence = P!RootEvidence(d)
    <3>1. i \in 1 .. n + 1 /\ rows'[d][i].key = "final-report"
      BY <1>5, <2>1 DEF P!StepOf
    <3>2. CASE i \in 1 .. n
      BY <1>5, <3>1, <3>2 DEF P!StepOf, StepsInv
    <3>3. CASE i = n + 1
      BY <1>3, <1>5, <3>1, <3>3
    <3> QED
      BY <1>5, <3>1, <3>2, <3>3
  <2> QED
    BY <2>1
<1>9. P!StepKeys(d)' = P!StepKeys(d) \cup {k}
  <2>1. P!StepKeys(d) = {rows[d][i].key : i \in 1 .. n} /\ P!StepKeys(d)' = {rows'[d][i].key : i \in 1 .. n + 1}
    BY <1>5 DEF P!StepKeys
  <2>2. \A i : i \in 1 .. n + 1 <=> i \in 1 .. n \/ i = n + 1
    BY <1>5
  <2>3. P!StepKeys(d)' \subseteq P!StepKeys(d) \cup {k}
    BY <1>3, <1>5, <2>1, <2>2
  <2>4. P!StepKeys(d) \subseteq P!StepKeys(d)'
    <3>1. \A i \in 1 .. n : rows[d][i].key = rows'[d][i].key /\ i \in 1 .. n + 1
      BY <1>5, <2>2
    <3> QED
      BY <2>1, <3>1
  <2>5. k \in P!StepKeys(d)'
    BY <1>3, <1>5, <2>1, <2>2
  <2> QED
    BY <2>3, <2>4, <2>5
<1>10. StepsInv(d)'
  BY <1>5, <1>7, <1>8, SameReport DEF StepsInv, Row, StepKey, P!NoReport
<1> QED
  BY <1>9, <1>10

LEMMA StartStep ==
  ASSUME TablesInv, NEW d \in Diagnosis, P!StartProjection(d), ProgressInv(d)'
  PROVE  DiagnosisInv(d)'
<1>1. /\ UNCHANGED <<status, report, facts, nodes, edges, root>> /\ at[d] = "start"
      /\ P!AppendStepOnce(d, "target-resolution", {})
      /\ at'[d] = IF report[d] = P!NoReport THEN "investigate" ELSE "report"
  BY DEF P!StartProjection, P!Goto, TablesInv, RowTypes
<1>2. P!Stored(d)' = P!Stored(d) /\ P!EdgesOf(d)' = P!EdgesOf(d)
  BY <1>1 DEF P!Stored, P!EdgesOf
<1>3. CASE P!HasStep(d, "target-resolution")
  BY <1>1, <1>2, <1>3, QuietTables DEF P!AppendStepOnce, TablesInv, DiagnosisInv, ProgressInv
<1>4. CASE ~P!HasStep(d, "target-resolution")
  <2>1. rows'[d] = Append(rows[d], [key |-> "target-resolution", status |-> "COMPLETED", evidence |-> {}])
    BY <1>1, <1>4 DEF P!AppendStepOnce, P!AppendStep, TablesInv, RowTypes
  <2>2. StepsInv(d)' /\ P!StepKeys(d)' = P!StepKeys(d) \cup {"target-resolution"}
    BY <1>1, <1>2, <1>4, <2>1, AppendedStep DEF TablesInv, DiagnosisInv, StepKey
  <2>3. FactsInv(d)'
    BY <1>1, <1>2, <2>2 DEF TablesInv, DiagnosisInv, FactsInv
  <2>4. ReportInv(d)'
    BY <1>1, <1>2 DEF TablesInv, DiagnosisInv, ReportInv, Reports, P!NoReport
  <2>5. GraphInv(d)'
    <3>1. status[d] # "COMPLETED" /\ at'[d] # "complete"
      BY <1>1 DEF TablesInv, DiagnosisInv, ProgressInv
    <3> QED
      BY <1>1, <1>2, <3>1 DEF TablesInv, DiagnosisInv, GraphInv, P!Node, P!EdgeId
  <2> QED
    BY <2>2, <2>3, <2>4, <2>5 DEF DiagnosisInv
<1> QED
  BY <1>3, <1>4

LEMMA CallStep ==
  ASSUME TablesInv, NEW d \in Diagnosis, NEW c \in Call, P!CallTool(d, c), ProgressInv(d)'
  PROVE  DiagnosisInv(d)'
<1>1. /\ UNCHANGED <<status, at, report, nodes, edges, root>> /\ at[d] = "investigate" /\ ~P!HasStep(d, c)
      /\ \E s \in {"COMPLETED", "FAILED"}, ids \in SUBSET {c} :
           /\ P!AppendStep(d, c, s, ids)
           /\ facts' = IF ids = {} THEN facts ELSE P!EvidenceRow(d, c)
  BY DEF P!CallTool
<1>2. PICK s \in {"COMPLETED", "FAILED"}, ids \in SUBSET {c} :
        /\ P!AppendStep(d, c, s, ids)
        /\ facts' = IF ids = {} THEN facts ELSE P!EvidenceRow(d, c)
  BY <1>1
<1>3. facts'[d] = facts[d] \cup (IF ids = {} THEN {} ELSE {[id |-> c, step |-> c]})
  BY <1>2 DEF P!EvidenceRow, TablesInv, RowTypes
<1>4. P!Stored(d)' = P!Stored(d) \cup ids
  <2>1. CASE ids = {}
    BY <1>3, <2>1 DEF P!Stored
  <2>2. CASE ids = {c}
    <3> DEFINE new == [id |-> c, step |-> c]
    <3>1. facts'[d] = facts[d] \cup {new} /\ new.id = c
      BY <1>3, <2>2
    <3> HIDE DEF new
    <3> QED
      BY <2>2, <3>1 DEF P!Stored
  <2> QED
    BY <2>1, <2>2
<1>5. rows'[d] = Append(rows[d], [key |-> c, status |-> s, evidence |-> ids])
  BY <1>2 DEF P!AppendStep, TablesInv, RowTypes
<1>6. c # "final-report"
  BY ProjectionAssumption DEF P!CatalogAssumption
<1>7. StepsInv(d)' /\ P!StepKeys(d)' = P!StepKeys(d) \cup {c}
  BY <1>1, <1>4, <1>5, <1>6, AppendedStep DEF TablesInv, DiagnosisInv, StepKey
<1>8. FactsInv(d)'
  <2>1. facts'[d] \subseteq [id : Call, step : P!StepKeys(d)' \cup {"none"}]
    BY <1>3, <1>7 DEF TablesInv, DiagnosisInv, FactsInv
  <2> QED
    BY <1>1, <1>4, <2>1 DEF TablesInv, DiagnosisInv, FactsInv
<1>9. ReportInv(d)'
  BY <1>1 DEF TablesInv, DiagnosisInv, ReportInv, ProgressInv, P!NoReport
<1>10. GraphInv(d)'
  <2>1. status[d] # "COMPLETED" /\ at'[d] # "complete" /\ P!EdgesOf(d)' = P!EdgesOf(d)
    BY <1>1 DEF TablesInv, DiagnosisInv, ProgressInv, P!EdgesOf
  <2> QED
    BY <1>1, <2>1 DEF TablesInv, DiagnosisInv, GraphInv, P!Node, P!EdgeId
<1> QED
  BY <1>7, <1>8, <1>9, <1>10 DEF DiagnosisInv

LEMMA ConcludeStep ==
  ASSUME TablesInv, NEW d \in Diagnosis, P!Conclude(d), ProgressInv(d)'
  PROVE  DiagnosisInv(d)'
<1>1. /\ UNCHANGED <<status, rows, facts, nodes, edges, root>> /\ at[d] = "investigate" /\ at'[d] = "report"
      /\ P!Stored(d)' = P!Stored(d) /\ P!EdgesOf(d)' = P!EdgesOf(d) /\ report[d] = P!NoReport
  BY DEF P!Conclude, P!Goto, P!Stored, P!EdgesOf, TablesInv, RowTypes, DiagnosisInv, ReportInv
<1>2. report'[d] \in Reports(d) /\ report'[d] # P!NoReport
  <2>1. PICK service \in (IF Target[d] # "unknown" THEN {Target[d]} ELSE Service \cup {"unknown"}),
             f \in Findings :
          report' = [report EXCEPT ![d] =
            [service |-> service, evidence |-> P!Stored(d), pod |-> f.pod, sql |-> f.sql,
             blamed |-> f.blamed, cited |-> IF f.confirmed THEN P!Stored(d) ELSE {}]]
    BY DEF P!Conclude
  <2>2. service \in Service \cup {"unknown"} /\ service # "none"
    BY ProjectionAssumption DEF P!CatalogAssumption, P!RequestAssumption
  <2>3. f.pod \in BOOLEAN /\ f.sql \in BOOLEAN /\ f.blamed \subseteq Service
    BY ProjectionAssumption DEF P!RequestAssumption
  <2> DEFINE new == [service |-> service, evidence |-> P!Stored(d), pod |-> f.pod, sql |-> f.sql,
                     blamed |-> f.blamed, cited |-> IF f.confirmed THEN P!Stored(d) ELSE {}]
  <2>4. report'[d] = new
    BY <2>1 DEF TablesInv, RowTypes
  <2>5. new \in Reports(d) /\ new.service = service
    BY <2>2, <2>3 DEF Reports
  <2>6. P!NoReport.service = "none"
    BY DEF P!NoReport
  <2> HIDE DEF new
  <2> QED
    BY <2>2, <2>4, <2>5, <2>6
<1>3. StepsInv(d)' /\ P!StepKeys(d)' = P!StepKeys(d)
  BY <1>1, KeptSteps DEF TablesInv, DiagnosisInv
<1>4. FactsInv(d)'
  BY <1>1, <1>3 DEF TablesInv, DiagnosisInv, FactsInv
<1>5. ReportInv(d)'
  BY <1>1, <1>2 DEF ReportInv, Reports, P!NoReport
<1>6. GraphInv(d)'
  <2>1. status[d] # "COMPLETED"
    BY <1>1 DEF TablesInv, DiagnosisInv, ProgressInv
  <2> QED
    BY <1>1, <2>1 DEF TablesInv, DiagnosisInv, GraphInv, P!Node, P!EdgeId
<1> QED
  BY <1>3, <1>4, <1>5, <1>6 DEF DiagnosisInv

\* The edges after a report of d is projected: d's are those of its report,
\* the others keep theirs, as none of them had one of these.
LEMMA EdgesReplaced ==
  ASSUME NEW d \in Diagnosis, P!ReplaceGraph(d), ~P!EdgeExists(d)
  PROVE  /\ P!EdgesOf(d)' = P!GraphEdges(d)
         /\ \A e \in Diagnosis \ {d} : P!EdgesOf(e)' = P!EdgesOf(e)
<1> DEFINE own == P!GraphEdges(d)
<1>1. edges' = [i \in own \cup (DOMAIN edges \ P!EdgesOf(d)) |-> IF i \in own THEN d ELSE edges[i]]
  BY DEF P!ReplaceGraph
<1>2. \A i \in own \cap DOMAIN edges : edges[i] = d
  BY DEF P!EdgeExists
<1> HIDE DEF own
<1>3. DOMAIN edges' = own \cup (DOMAIN edges \ P!EdgesOf(d))
  BY <1>1
<1>4. /\ \A i \in own : edges'[i] = d
      /\ \A i \in DOMAIN edges' \ own : edges'[i] = edges[i]
  BY <1>1
<1>5. P!EdgesOf(d)' = own
  BY <1>3, <1>4 DEF P!EdgesOf
<1>6. ASSUME NEW e \in Diagnosis, e # d PROVE P!EdgesOf(e)' = P!EdgesOf(e)
  BY <1>2, <1>3, <1>4, <1>6 DEF P!EdgesOf
<1> QED
  BY <1>5, <1>6 DEF own

LEMMA PersistStep ==
  ASSUME TablesInv, NEW d \in Diagnosis, P!PersistReport(d), ProgressInv(d)'
  PROVE  DiagnosisInv(d)'
<1>1. /\ UNCHANGED <<status, report>> /\ at[d] = "report" /\ at'[d] = "complete"
      /\ report'[d] = report[d] /\ report[d] # P!NoReport /\ report[d] \in Reports(d)
      /\ status[d] = "INVESTIGATING"
  BY DEF P!PersistReport, P!Goto, TablesInv, RowTypes, DiagnosisInv, ReportInv, ProgressInv
<1>2. P!Stored(d) \subseteq Call
  BY DEF TablesInv, DiagnosisInv, FactsInv, P!Stored
<1>3. /\ nodes'[d] = P!GraphNodes(d) /\ P!EdgesOf(d)' = P!GraphEdges(d)
      /\ root'[d].resource = P!RootResource(d) /\ root'[d].evidence = P!RootEvidence(d)
  BY EdgesReplaced DEF P!PersistReport, P!ReplaceGraph, P!UpsertRootCause, TablesInv, RowTypes
<1> DEFINE cited == report[d].evidence
           Fact1(c) == [id |-> c, step |-> IF P!HasStep(d, c) THEN c ELSE "none"]
<1>4. facts'[d] = {Fact1(c) : c \in cited} \cup {row \in facts[d] : row.id \notin cited}
  BY DEF P!PersistReport, P!UpsertEvidence, TablesInv, RowTypes
<1>5. cited \subseteq P!Stored(d) /\ \A c \in cited : Fact1(c).id = c
  BY <1>1 DEF Reports
<1>6. \A c \in cited : Fact1(c) \in [id : Call, step : P!StepKeys(d) \cup {"none"}]
  BY <1>2, <1>5, KeyHasStep
<1> HIDE DEF cited, Fact1
<1>7. P!Stored(d)' = P!Stored(d)
  <2>1. P!Stored(d)' \subseteq P!Stored(d)
    BY <1>4, <1>5 DEF P!Stored
  <2>2. ASSUME NEW row \in facts[d] PROVE row.id \in P!Stored(d)'
    <3>1. CASE row.id \in cited
      BY <1>4, <1>5, <3>1 DEF P!Stored
    <3>2. CASE row.id \notin cited
      BY <1>4, <3>2 DEF P!Stored
    <3> QED
      BY <3>1, <3>2
  <2> QED
    BY <2>1, <2>2 DEF P!Stored
<1>8. P!AppendStepOnce(d, "final-report", P!RootEvidence(d)) /\ P!RootEvidence(d) \subseteq P!Stored(d)
  BY <1>1, <1>2, GraphOf DEF P!PersistReport
<1>9. /\ StepsInv(d)' /\ P!StepKeys(d) \subseteq P!StepKeys(d)' /\ "final-report" \in P!StepKeys(d)'
  <2>1. CASE P!HasStep(d, "final-report")
    <3>1. rows'[d] = rows[d]
      BY <1>8, <2>1 DEF P!AppendStepOnce
    <3> QED
      BY <1>1, <1>7, <2>1, <3>1, KeptSteps, KeyHasStep DEF TablesInv, DiagnosisInv
  <2>2. CASE ~P!HasStep(d, "final-report")
    <3>1. rows'[d] = Append(rows[d], [key |-> "final-report", status |-> "COMPLETED", evidence |-> P!RootEvidence(d)])
      BY <1>8, <2>2 DEF P!AppendStepOnce, P!AppendStep, TablesInv, RowTypes
    <3>2. StepsInv(d) /\ "final-report" \in StepKey /\ P!RootEvidence(d) \in SUBSET (P!Stored(d)')
      BY <1>7, <1>8 DEF TablesInv, DiagnosisInv, StepKey
    <3>3. StepsInv(d)' /\ P!StepKeys(d)' = P!StepKeys(d) \cup {"final-report"}
      BY <1>1, <1>7, <2>2, <3>1, <3>2, AppendedStep
    <3> QED
      BY <3>3
  <2> QED
    BY <2>1, <2>2
<1>10. FactsInv(d)'
  <2>1. \A row \in facts'[d] : row \in [id : Call, step : P!StepKeys(d) \cup {"none"}]
    BY <1>4, <1>6 DEF TablesInv, DiagnosisInv, FactsInv
  <2>2. [id : Call, step : P!StepKeys(d) \cup {"none"}] \subseteq [id : Call, step : P!StepKeys(d)' \cup {"none"}]
    BY <1>9
  <2> QED
    BY <1>3, <1>7, <1>8, <2>1, <2>2 DEF FactsInv
<1>11. ReportInv(d)'
  BY <1>1, <1>7 DEF ReportInv, Reports, P!NoReport
<1>12. GraphInv(d)'
  <2>1. /\ P!GraphEdges(d)' = P!GraphEdges(d) /\ P!GraphNodes(d)' = P!GraphNodes(d)
        /\ P!RootEvidence(d)' = P!RootEvidence(d)
    BY <1>1, SameReport
  <2>2. /\ P!GraphNodes(d) \subseteq P!Node
        /\ \A i \in P!GraphEdges(d) : i \in P!EdgeId /\ i[1] \in P!GraphNodes(d) /\ i[2] \in P!GraphNodes(d)
        /\ P!RootResource(d) \in P!GraphNodes(d) \cup {"none"} /\ P!RootResource(d) # "no row"
    BY <1>1, <1>2, GraphOf
  <2>3. Projected(d)'
    BY <1>3, <1>9, <2>1, <2>2, KeyHasStep DEF Projected
  <2> QED
    BY <1>3, <2>2, <2>3 DEF GraphInv, P!Node, P!EdgeId
<1> QED
  BY <1>9, <1>10, <1>11, <1>12 DEF DiagnosisInv

LEMMA TablesStep == TablesInv /\ [P!Next]_(P!vars) => TablesInv'
<1> SUFFICES ASSUME TablesInv, [P!Next]_(P!vars) PROVE TablesInv'
  OBVIOUS
<1>1. ASSUME NEW d \in Diagnosis,
             \/ P!Claim(d) \/ P!AppendRecovered(d) \/ P!StartProjection(d)
             \/ (\E c \in Call : P!CallTool(d, c)) \/ P!Conclude(d) \/ P!PersistReport(d)
             \/ P!ProjectionFails(d) \/ P!CompleteSession(d) \/ P!Crash(d) \/ P!MarkMaxAttempts(d)
      PROVE  TablesInv'
  <2>1. DiagnosisInv(d) /\ RowTypes
    BY DEF TablesInv
  <2>2. RowTypes'
    BY <1>1, RowTypesStep DEF P!Next
  <2>3. /\ ProgressInv(d)'
        /\ \A e \in Diagnosis \ {d} : /\ at'[e] = at[e] /\ status'[e] = status[e]
                                    /\ attempts'[e] = attempts[e] /\ events'[e] = events[e]
    BY <1>1, <2>1, ProgressStep DEF DiagnosisInv
  <2>4. ASSUME NEW e \in Diagnosis, e # d PROVE DiagnosisInv(e)'
    <3>1. P!EdgesOf(e)' = P!EdgesOf(e)
      <4>1. CASE UNCHANGED edges
        BY <4>1 DEF P!EdgesOf
      <4>2. CASE P!PersistReport(d)
        BY <2>4, <4>2, EdgesReplaced DEF P!PersistReport
      <4> QED
        BY <1>1, <4>1, <4>2 DEF P!Claim, P!AppendRecovered, P!StartProjection, P!CallTool, P!Conclude,
             P!ProjectionFails, P!CompleteSession, P!Crash, P!MarkMaxAttempts
    <3>2. report'[e] = report[e] /\ nodes'[e] = nodes[e] /\ root'[e] = root[e]
      BY <1>1, <2>1, <2>4 DEF RowTypes, P!Claim, P!AppendRecovered, P!StartProjection, P!CallTool, P!Conclude,
           P!PersistReport, P!UpsertRootCause, P!ReplaceGraph,
           P!ProjectionFails, P!CompleteSession, P!Crash, P!MarkMaxAttempts
    <3>3. rows'[e] = rows[e] /\ facts'[e] = facts[e]
      BY <1>1, <2>1, <2>4, ZenonT(40) DEF RowTypes, P!Claim, P!AppendRecovered, P!StartProjection, P!CallTool, P!Conclude,
           P!PersistReport, P!AppendStep, P!AppendStepOnce, P!EvidenceRow, P!UpsertEvidence,
           P!ProjectionFails, P!CompleteSession, P!Crash, P!MarkMaxAttempts
    <3>4. DiagnosisInv(e)
      BY DEF TablesInv
    <3> QED
      BY <2>3, <2>4, <3>1, <3>2, <3>3, <3>4, OthersKeep
  <2>5. DiagnosisInv(d)'
    <3>1. CASE P!StartProjection(d)
      BY <2>3, <3>1, StartStep
    <3>2. ASSUME NEW c \in Call, P!CallTool(d, c) PROVE DiagnosisInv(d)'
      BY <2>3, <3>2, CallStep
    <3>3. CASE P!Conclude(d)
      BY <2>3, <3>3, ConcludeStep
    <3>4. CASE P!PersistReport(d)
      BY <2>3, <3>4, PersistStep
    <3>5. CASE \/ P!Claim(d) \/ P!AppendRecovered(d) \/ P!ProjectionFails(d) \/ P!CompleteSession(d)
               \/ P!Crash(d) \/ P!MarkMaxAttempts(d)
      <4>1. UNCHANGED <<report, rows, facts, nodes, edges, root>>
        BY <3>5 DEF P!Claim, P!AppendRecovered, P!ProjectionFails, P!CompleteSession, P!Crash, P!MarkMaxAttempts
      <4>2. /\ at'[d] \in {"recover", "start", "idle"}
            /\ status'[d] = "COMPLETED" => at[d] = "complete" \/ status[d] = "COMPLETED"
        BY <2>1, <3>5 DEF RowTypes, P!Goto, P!Claim, P!AppendRecovered, P!ProjectionFails, P!CompleteSession,
             P!Crash, P!MarkMaxAttempts
      <4>3. P!EdgesOf(d)' = P!EdgesOf(d)
        BY <4>1 DEF P!EdgesOf
      <4> QED
        BY <2>1, <2>3, <4>1, <4>2, <4>3, QuietTables
    <3> QED
      BY <1>1, <3>1, <3>2, <3>3, <3>4, <3>5
  <2> QED
    BY <2>2, <2>4, <2>5 DEF TablesInv
<1>2. CASE UNCHANGED P!vars
  <2>1. UNCHANGED <<status, attempts, at, report, rows, facts, nodes, edges, root, events>>
    BY <1>2 DEF P!vars
  <2>2. RowTypes'
    BY <2>1 DEF TablesInv, RowTypes
  <2>3. ASSUME NEW e \in Diagnosis PROVE DiagnosisInv(e)'
    <3>1. DiagnosisInv(e) /\ P!EdgesOf(e)' = P!EdgesOf(e)
      BY <2>1 DEF TablesInv, P!EdgesOf
    <3> QED
      BY <2>1, <3>1, OthersKeep
  <2> QED
    BY <2>2, <2>3 DEF TablesInv
<1> QED
  BY <1>1, <1>2 DEF P!Next

LEMMA NoRow == P!NoRoot.evidence = {} /\ P!NoRoot.resource = "no row"
BY DEF P!NoRoot

LEMMA SeqElements ==
  ASSUME NEW T, NEW s \in Seq(T)
  PROVE  \A i \in DOMAIN s : s[i] \in T
OBVIOUS

LEMMA SameCount ==
  ASSUME NEW T
  PROVE  P!Cardinality(T) = Cardinality(T)
BY DEF P!Cardinality, Cardinality

LEMMA TablesInit == P!Init => TablesInv
<1> SUFFICES ASSUME P!Init PROVE TablesInv
  OBVIOUS
<1>1. DOMAIN edges = {}
  BY DEF P!Init
<1>2. MaxAttempts \in Nat
  BY ProjectionAssumption DEF P!RequestAssumption
<1>3. RowTypes
  BY <1>1, <1>2 DEF P!Init, RowTypes
<1>4. ASSUME NEW d \in Diagnosis PROVE DiagnosisInv(d)
  <2>1. /\ status[d] = "PENDING" /\ attempts[d] = 0 /\ at[d] = "idle" /\ report[d] = P!NoReport
        /\ rows[d] = << >> /\ facts[d] = {} /\ nodes[d] = {} /\ root[d] = P!NoRoot
    BY DEF P!Init
  <2>2. P!EdgesOf(d) = {}
    BY <1>1 DEF P!EdgesOf
  <2>3. StepsInv(d)
    BY <2>1 DEF StepsInv, P!StepOf
  <2>4. FactsInv(d)
    <3>1. root[d].evidence = {}
      BY <2>1, NoRow
    <3> QED
      BY <2>1, <3>1 DEF FactsInv
  <2>5. ReportInv(d) /\ GraphInv(d) /\ ProgressInv(d)
    BY <2>1, <2>2 DEF ReportInv, GraphInv, ProgressInv
  <2> QED
    BY <2>3, <2>4, <2>5 DEF DiagnosisInv
<1> QED
  BY <1>3, <1>4 DEF TablesInv

LEMMA TablesMoves == [AllNext]_all => [P!Next]_(P!vars)
BY DEF AllNext, all, P!vars, projection

LEMMA Tabled == AllSpec => []TablesInv
<1>1. AllInit => TablesInv
  BY TablesInit DEF AllInit
<1>2. TablesInv /\ [AllNext]_all => TablesInv'
  BY TablesMoves, TablesStep
<1> QED
  BY <1>1, <1>2, PTL DEF AllSpec

\* The self-check of the tables finds nothing, at any moment of any number of
\* attempts at any number of diagnoses of the same services.
THEOREM SelfCheckIsClean == AllSpec => []TablesAgree
<1>1. ASSUME TablesInv, NEW d \in Diagnosis PROVE P!Issues(d) = {}
  <2>0. StepsInv(d) /\ FactsInv(d) /\ ReportInv(d) /\ GraphInv(d) /\ ProgressInv(d)
    BY <1>1 DEF TablesInv, DiagnosisInv
  <2>1. \A k \in P!StepKeys(d) : ~(P!Cardinality(P!StepOf(d, k)) > 1)
    <3>1. ASSUME NEW k \in P!StepKeys(d) PROVE P!Cardinality(P!StepOf(d, k)) = 1
      <4>1. PICK i \in DOMAIN rows[d] : rows[d][i].key = k
        BY DEF P!StepKeys
      <4>2. P!StepOf(d, k) = {i}
        BY <2>0, <4>1 DEF P!StepOf, StepsInv
      <4>3. Cardinality({i}) = 1
        BY FS_Singleton
      <4> QED
        BY <4>2, <4>3, SameCount, Zenon
    <3>2. ~(1 > 1)
      OBVIOUS
    <3> QED
      BY <3>1, <3>2, Zenon
  <2>2. \A i \in DOMAIN rows[d] : rows[d][i].evidence \subseteq P!Stored(d)
    <3>1. rows[d] \in Seq([key : StepKey, status : {"COMPLETED", "FAILED"}, evidence : SUBSET P!Stored(d)])
      BY <2>0 DEF StepsInv
    <3>2. \A i \in DOMAIN rows[d] :
            rows[d][i] \in [key : StepKey, status : {"COMPLETED", "FAILED"}, evidence : SUBSET P!Stored(d)]
      BY <3>1, SeqElements, Zenon
    <3> QED
      BY <3>2
  <2>3. \A row \in facts[d] : row.step \in P!StepKeys(d) \cup {"none"}
    BY <2>0 DEF FactsInv
  <2>4. status[d] = "COMPLETED" => root[d] # P!NoRoot /\ P!HasStep(d, "final-report")
    BY <2>0, NoRow DEF GraphInv, Projected
  <2>5. /\ status[d] = "COMPLETED" => "diagnosis.completed" \in events[d]
        /\ status[d] = "FAILED" => "diagnosis.failed" \in events[d]
    BY <2>0 DEF ProgressInv
  <2>6. root[d].evidence \subseteq P!Stored(d)
    BY <2>0 DEF FactsInv
  <2>7. \A i \in P!EdgesOf(d) : {i[1], i[2]} \subseteq nodes[d]
    BY <2>0 DEF GraphInv
  <2> DEFINE duplicate == \E k \in P!StepKeys(d) : P!Cardinality(P!StepOf(d, k)) > 1
             stepEvidence == \E i \in DOMAIN rows[d] : ~(rows[d][i].evidence \subseteq P!Stored(d))
             logicalStep == \E row \in facts[d] : row.step \notin P!StepKeys(d) \cup {"none"}
             noRoot == status[d] = "COMPLETED" /\ root[d] = P!NoRoot
             noReport == status[d] = "COMPLETED" /\ ~P!HasStep(d, "final-report")
             noTerminalEvent == \/ status[d] = "COMPLETED" /\ "diagnosis.completed" \notin events[d]
                                \/ status[d] = "FAILED" /\ "diagnosis.failed" \notin events[d]
             rootEvidence == ~(root[d].evidence \subseteq P!Stored(d))
             danglingEdge == \E i \in P!EdgesOf(d) : ~({i[1], i[2]} \subseteq nodes[d])
             found == [duplicate |-> duplicate, stepEvidence |-> stepEvidence, logicalStep |-> logicalStep,
                       noRoot |-> noRoot, noReport |-> noReport, noTerminalEvent |-> noTerminalEvent,
                       rootEvidence |-> rootEvidence, danglingEdge |-> danglingEdge]
  <2>8. P!Issues(d) = {code \in DOMAIN found : found[code]}
    BY Zenon DEF P!Issues
  <2>9. /\ duplicate = FALSE /\ stepEvidence = FALSE /\ logicalStep = FALSE /\ noRoot = FALSE
        /\ noReport = FALSE /\ noTerminalEvent = FALSE /\ rootEvidence = FALSE /\ danglingEdge = FALSE
    BY <2>1, <2>2, <2>3, <2>4, <2>5, <2>6, <2>7, Zenon
  <2> HIDE DEF duplicate, stepEvidence, logicalStep, noRoot, noReport, noTerminalEvent, rootEvidence, danglingEdge
  <2>10. found = [duplicate |-> FALSE, stepEvidence |-> FALSE, logicalStep |-> FALSE, noRoot |-> FALSE,
                  noReport |-> FALSE, noTerminalEvent |-> FALSE, rootEvidence |-> FALSE, danglingEdge |-> FALSE]
    BY <2>9, Zenon
  <2>11. \A code \in DOMAIN found : found[code] = FALSE
    BY <2>10
  <2> HIDE DEF found
  <2> QED
    BY <2>8, <2>11
<1>2. TablesInv => TablesAgree
  BY <1>1 DEF TablesAgree, P!TablesAgree
<1> QED
  BY <1>2, Tabled, PTL

\* A COMPLETED diagnosis shows the graph, root cause and evidence of its own
\* report, whichever attempt projected it and whatever others have since.
THEOREM ReportIsShown == AllSpec => []CompletedIsShown
<1>1. TablesInv => P!CompletedIsShown
  BY DEF TablesInv, DiagnosisInv, StepsInv, GraphInv, Projected, ProgressInv, P!CompletedIsShown
<1>2. TablesInv => CompletedIsShown
  BY <1>1 DEF CompletedIsShown
<1> QED
  BY <1>2, Tabled, PTL

\* The variables of the log, the compaction and the tables keep their types; a
\* message identifier has one row.
THEOREM RecordTypes == AllSpec => []RecordTypesOK
<1>1. TablesInv => P!TypeOK
  <2> SUFFICES ASSUME TablesInv PROVE P!TypeOK
    OBVIOUS
  <2>1. ASSUME NEW d \in Diagnosis
        PROVE  /\ P!Stored(d) \subseteq Call /\ nodes[d] \subseteq P!Node
               /\ P!StepKeys(d) \subseteq Call \cup {"target-resolution", "final-report"}
    <3>1. StepsInv(d) /\ FactsInv(d) /\ GraphInv(d)
      BY DEF TablesInv, DiagnosisInv
    <3>2. \A i \in DOMAIN rows[d] :
            rows[d][i] \in [key : StepKey, status : {"COMPLETED", "FAILED"}, evidence : SUBSET P!Stored(d)]
      BY <3>1, SeqElements, Zenon DEF StepsInv
    <3>3. P!StepKeys(d) \subseteq StepKey
      BY <3>2 DEF P!StepKeys
    <3> QED
      BY <3>1, <3>3 DEF FactsInv, GraphInv, P!Stored, StepKey
  <2>2. DOMAIN edges \subseteq P!EdgeId /\ \A i \in DOMAIN edges : edges[i] \in Diagnosis
    BY DEF TablesInv, RowTypes, DiagnosisInv, GraphInv, P!EdgesOf
  <2> QED
    BY <2>1, <2>2 DEF TablesInv, RowTypes, P!TypeOK
<1>2. TablesInv /\ ContextTypes /\ TypeOK => RecordTypesOK
  BY <1>1 DEF ContextTypes, RecordTypesOK
<1> QED
  BY <1>2, Logged, Remembered, Tabled, PTL

-----------------------------------------------------------------------------
(* ModelCalls: rows, tokens, loops and keys agree with what clients heard.   *)

LoopPlaces == {"ready", "waiting", "tool", "returned", "gave_up", "raised"}
Stages == {"none", "key", "provider", "usage", "audit", "answered", "lost"}
LoopSet == [at : LoopPlaces, calls : Nat, retries : Nat, failures : Nat, refill : BOOLEAN,
            steps : Nat, tokens : Nat]
CallSet == [stage : Stages, client : {"none", "waits", "read", "gone"},
            outcome : {"none"} \cup M!Outcomes[Provider], tokens : Nat,
            usage : {"none", "success", "failure"}, audit : {"none", "success", "failure"},
            status : {0, 200, 401, 500, 502, 503}, late : BOOLEAN]
CallingTypes ==
  kind \in {"agent", "structured"} /\ loop \in LoopSet /\ call \in CallSet /\ ledger \in Nat

\* The loop waits exactly while its client does, and goes on after an answer.
LoopInv ==
  /\ loop.at = "waiting" <=> call.client = "waits"
  /\ loop.at \in {"ready", "tool", "returned", "gave_up"} =>
       \/ call.stage = "none" /\ call.client = "none"
       \/ call.stage = "answered" /\ call.client = "read" /\ call.status = 200
  /\ loop.at \in {"tool", "returned"} => call.client = "read"
  /\ call.client = "read" => call.stage = "answered"

\* Where the call stands tells which rows it has.
RowsInv ==
  /\ call.stage \in {"none", "key", "provider"} => call.outcome = "none"
  /\ call.stage \in {"none", "key", "provider", "usage"} => call.usage = "none"
  /\ call.stage \in {"none", "key", "provider", "usage", "audit"} => call.audit = "none" /\ call.status = 0
  /\ call.stage \in {"usage", "audit"} => call.outcome \notin {"none", "unexpected"}
  /\ call.stage = "audit" => call.usage = M!Result(call.outcome)
  /\ call.stage = "lost" => call.audit = "none" /\ call.status = 0
  /\ call.outcome \notin {"answer", "unfit"} => call.tokens = 0

\* The retries a result reports are the calls after the first.
CountInv ==
  /\ loop.calls <= M!Allowed /\ loop.steps <= loop.calls
  /\ loop.at \in {"waiting", "tool"} => loop.steps < loop.calls
  /\ loop.failures <= 4 /\ (loop.failures = 4 => loop.refill \/ loop.at = "gave_up")
  /\ kind = "structured" =>
       /\ loop.at = "ready" => loop.retries = IF loop.calls <= Retries THEN loop.calls
                                              ELSE loop.calls - 1
       /\ loop.at \in {"waiting", "returned", "gave_up"} => loop.retries = loop.calls - 1
       /\ loop.at # "tool"

KeyInv ==
  /\ \A d \in Disabler : disable[d] = "done" => key = "disabled"
  /\ \A d, e \in Disabler : disable[d] = "done" /\ disable[e] = "done" => d = e
  /\ DOMAIN disable = Disabler
  /\ call.late => key = "disabled" /\ call.outcome = "none"
                  /\ call.stage \notin {"provider", "usage", "audit"}

CallsInv == CallingTypes /\ LoopInv /\ RowsInv /\ CountInv /\ KeyInv /\ M!RowsAgree /\ M!TokensAgree

\* What a step makes of the call and of the loop, field by field.
CallThen(stage, client, outcome, tokens, usage, audit, code, late) ==
  /\ call' \in CallSet /\ call'.stage = stage /\ call'.client = client /\ call'.outcome = outcome
  /\ call'.tokens = tokens /\ call'.usage = usage /\ call'.audit = audit
  /\ call'.status = code /\ call'.late = late
LoopThen(place, asked, retries, failures, refill, tools, tokens) ==
  /\ loop' \in LoopSet /\ loop'.at = place /\ loop'.calls = asked /\ loop'.retries = retries
  /\ loop'.failures = failures /\ loop'.refill = refill /\ loop'.steps = tools
  /\ loop'.tokens = tokens
CallStays == CallThen(call.stage, call.client, call.outcome, call.tokens, call.usage, call.audit,
                      call.status, call.late)
LoopStays == LoopThen(loop.at, loop.calls, loop.retries, loop.failures, loop.refill, loop.steps,
                      loop.tokens)

\* What an instance gives.
LEMMA OutcomeKinds ==
  /\ M!Outcomes[Provider] \subseteq {"answer", "not_configured", "http_error", "malformed",
                                     "unexpected", "unfit"}
  /\ Retries \in Nat /\ MaxIterations \in Nat /\ M!Allowed \in Nat
  /\ M!Allowed = IF kind = "agent" THEN MaxIterations ELSE Retries + 2
BY CallingAssumption DEF M!LimitAssumption, M!Outcomes, M!OpenAICompatible, M!Ollama, M!Claude,
   M!Allowed

\* The types, field by field: the leaves below do not look into the records.
LEMMA FieldTypes == CallingTypes =>
  /\ loop.at \in LoopPlaces /\ loop.calls \in Nat /\ loop.retries \in Nat /\ loop.failures \in Nat
  /\ loop.refill \in BOOLEAN /\ loop.steps \in Nat /\ loop.tokens \in Nat
  /\ call.stage \in Stages /\ call.client \in {"none", "waits", "read", "gone"}
  /\ call.outcome \in {"none", "answer", "not_configured", "http_error", "malformed",
                       "unexpected", "unfit"}
  /\ call.tokens \in Nat /\ call.usage \in {"none", "success", "failure"}
  /\ call.audit \in {"none", "success", "failure"} /\ call.status \in {0, 200, 401, 500, 502, 503}
  /\ call.late \in BOOLEAN /\ ledger \in Nat /\ kind \in {"agent", "structured"}
BY OutcomeKinds DEF CallingTypes, LoopSet, CallSet

\* A step that does not touch the call, or the loop.
LEMMA Stays == CallingTypes => (call' = call => CallStays) /\ (loop' = loop => LoopStays)
BY DEF CallingTypes, CallStays, LoopStays, CallThen, LoopThen

\* A new stage, and nothing else; an answer with a status.
LEMMA Staged ==
  ASSUME NEW c \in CallSet, NEW stage \in Stages
  PROVE  LET d == [c EXCEPT !.stage = stage] IN
         /\ d \in CallSet /\ d.stage = stage /\ d.client = c.client /\ d.outcome = c.outcome
         /\ d.tokens = c.tokens /\ d.usage = c.usage /\ d.audit = c.audit
         /\ d.status = c.status /\ d.late = c.late
BY DEF CallSet

IsAnswered(d, c, code) ==
  /\ d \in CallSet /\ d.stage = "answered" /\ d.client = c.client /\ d.outcome = c.outcome
  /\ d.tokens = c.tokens /\ d.usage = c.usage /\ d.audit = c.audit
  /\ d.status = code /\ d.late = c.late

LEMMA Refused == ASSUME NEW c \in CallSet PROVE IsAnswered([c EXCEPT !.stage = "answered", !.status = 401], c, 401)
<1> DEFINE s == [c EXCEPT !.stage = "answered"]
<1>1. /\ s \in CallSet /\ s.stage = "answered" /\ s.client = c.client /\ s.outcome = c.outcome
      /\ s.tokens = c.tokens /\ s.usage = c.usage /\ s.audit = c.audit /\ s.late = c.late
  BY Staged DEF Stages
<1>2. [c EXCEPT !.stage = "answered", !.status = 401] = [s EXCEPT !.status = 401]
  OBVIOUS
<1> HIDE DEF s
<1>3. IsAnswered([s EXCEPT !.status = 401], c, 401)
  BY <1>1 DEF CallSet, IsAnswered
<1> QED
  BY <1>2, <1>3

LEMMA Broke == ASSUME NEW c \in CallSet PROVE IsAnswered(M!Broken(c), c, 500)
<1> DEFINE s == [c EXCEPT !.stage = "answered"]
<1>1. /\ s \in CallSet /\ s.stage = "answered" /\ s.client = c.client /\ s.outcome = c.outcome
      /\ s.tokens = c.tokens /\ s.usage = c.usage /\ s.audit = c.audit /\ s.late = c.late
  BY Staged DEF Stages
<1>2. M!Broken(c) = [s EXCEPT !.status = 500]
  BY DEF M!Broken
<1> HIDE DEF s
<1>3. IsAnswered([s EXCEPT !.status = 500], c, 500)
  BY <1>1 DEF CallSet, IsAnswered
<1> QED
  BY <1>2, <1>3

\* The loop asks.
LEMMA AskKeeps == CallsInv /\ M!Ask => CallsInv'
<1> SUFFICES ASSUME CallsInv, M!Ask PROVE CallsInv'
  OBVIOUS
<1> DEFINE r == IF kind = "structured" /\ loop.calls = Retries + 1 THEN loop.retries + 1
                ELSE loop.retries
<1>1. loop.at = "ready" /\ loop.calls < M!Allowed /\ UNCHANGED <<kind, ledger, key, disable>>
  BY DEF M!Ask
<1>2. CallThen("key", "waits", "none", 0, "none", "none", 0, M!Disabled)
  <2> DEFINE late == M!Disabled
  <2>1. call' = [stage |-> "key", client |-> "waits", outcome |-> "none", tokens |-> 0,
                 usage |-> "none", audit |-> "none", status |-> 0, late |-> late]
    BY DEF M!Ask, M!NoCall
  <2>2. late \in BOOLEAN
    BY DEF M!Disabled
  <2> HIDE DEF late
  <2>3. CallThen("key", "waits", "none", 0, "none", "none", 0, late)
    BY <2>1, <2>2 DEF CallThen, CallSet, Stages
  <2> QED
    BY <2>3 DEF late
<1>3. LoopThen("waiting", loop.calls + 1, r, loop.failures, loop.refill, loop.steps, loop.tokens)
  <2>1. r \in Nat
    BY FieldTypes DEF CallsInv
  <2>2. loop' = [loop EXCEPT !.at = "waiting", !.calls = loop.calls + 1, !.retries = r]
    BY DEF CallsInv, CallingTypes, M!Ask, LoopSet
  <2>3. loop \in LoopSet /\ loop.calls + 1 \in Nat
    BY FieldTypes DEF CallsInv, CallingTypes
  <2> DEFINE n == loop.calls + 1
  <2> HIDE DEF r, n
  <2>4. loop' = [loop EXCEPT !.at = "waiting", !.calls = n, !.retries = r] /\ n \in Nat
    BY <2>2, <2>3 DEF n
  <2>5. LoopThen("waiting", n, r, loop.failures, loop.refill, loop.steps, loop.tokens)
    BY <2>1, <2>3, <2>4 DEF LoopThen, LoopSet, LoopPlaces
  <2> QED
    BY <2>5 DEF n
<1>4. CallingTypes' /\ LoopInv' /\ RowsInv' /\ M!RowsAgree'
  BY <1>1, <1>2, <1>3 DEF CallsInv, CallingTypes, CallThen, LoopThen, LoopInv, RowsInv, M!RowsAgree
<1>5. CountInv'
  BY <1>1, <1>3, OutcomeKinds, FieldTypes DEF CallsInv, CountInv, LoopThen, M!Allowed
<1>6. KeyInv'
  BY <1>1, <1>2 DEF CallsInv, KeyInv, CallThen, M!Disabled
<1>7. M!TokensAgree'
  BY <1>1, <1>2, <1>3, FieldTypes DEF CallsInv, LoopInv, RowsInv, M!RowsAgree, CallThen, LoopThen, M!TokensAgree
<1> QED
  BY <1>4, <1>5, <1>6, <1>7 DEF CallsInv

\* Steps of the loop alone: it gives up, a tool ends.
LEMMA LoopKeeps == CallsInv /\ (M!GiveUp \/ M!ToolEnds) => CallsInv'
<1> SUFFICES ASSUME CallsInv, M!GiveUp \/ M!ToolEnds PROVE CallsInv'
  OBVIOUS
<1>1. UNCHANGED <<kind, call, ledger, key, disable>>
  BY DEF M!GiveUp, M!ToolEnds
<1>2. \/ /\ loop.at = "ready" /\ loop.calls = M!Allowed
         /\ LoopThen("gave_up", loop.calls, loop.retries, loop.failures, loop.refill, loop.steps,
                     loop.tokens)
      \/ /\ loop.at = "tool"
         /\ LoopThen("ready", loop.calls, loop.retries, loop.failures, loop.refill, loop.steps + 1,
                     loop.tokens)
  <2>1. CASE M!GiveUp
    BY <2>1 DEF CallsInv, CallingTypes, M!GiveUp, LoopThen, LoopSet, LoopPlaces
  <2>2. CASE M!ToolEnds
    <3> DEFINE n == loop.steps + 1
    <3>1. loop \in LoopSet /\ n \in Nat /\ loop.at = "tool"
          /\ loop' = [loop EXCEPT !.at = "ready", !.steps = n]
      BY <2>2, FieldTypes DEF CallsInv, CallingTypes, M!ToolEnds, LoopSet
    <3> HIDE DEF n
    <3>2. LoopThen("ready", loop.calls, loop.retries, loop.failures, loop.refill, n, loop.tokens)
      BY <3>1 DEF LoopThen, LoopSet, LoopPlaces
    <3> QED
      BY <3>1, <3>2 DEF n
  <2> QED
    BY <2>1, <2>2
<1>3. CallingTypes' /\ LoopInv' /\ RowsInv' /\ KeyInv' /\ M!RowsAgree' /\ M!TokensAgree'
  BY <1>1, <1>2 DEF CallsInv, CallingTypes, LoopThen, LoopInv, RowsInv, KeyInv, M!RowsAgree,
     M!TokensAgree
<1>4. CountInv'
  BY <1>1, <1>2, OutcomeKinds, FieldTypes DEF CallsInv, CountInv, LoopThen, M!Allowed
<1> QED
  BY <1>3, <1>4 DEF CallsInv

\* The client reads the answer, and the loop judges it.
LEMMA ReceiveKeeps == CallsInv /\ M!Receive => CallsInv'
<1> SUFFICES ASSUME CallsInv, M!Receive PROVE CallsInv'
  OBVIOUS
<1>1. call.stage = "answered" /\ call.client = "waits" /\ loop.at = "waiting"
      /\ UNCHANGED <<kind, ledger, key, disable>>
  BY DEF CallsInv, LoopInv, M!Receive
<1>2. CallThen(call.stage, "read", call.outcome, call.tokens, call.usage, call.audit, call.status,
               call.late)
  BY DEF CallsInv, CallingTypes, M!Receive, CallThen, CallSet
<1>3. RowsInv' /\ KeyInv' /\ M!RowsAgree'
  BY <1>1, <1>2 DEF CallsInv, CallThen, RowsInv, KeyInv, M!RowsAgree
<1>4. CASE call.status # 200
  <2>1. LoopThen("raised", loop.calls, loop.retries, loop.failures, loop.refill, loop.steps,
                 loop.tokens)
    BY <1>4 DEF CallsInv, CallingTypes, M!Receive, LoopThen, LoopSet, LoopPlaces
  <2>2. CallingTypes' /\ LoopInv' /\ M!TokensAgree'
    BY <1>1, <1>2, <1>4, <2>1 DEF CallsInv, CallingTypes, CallThen, LoopThen, LoopInv, M!TokensAgree
  <2>3. CountInv'
    BY <1>1, <2>1, OutcomeKinds, FieldTypes DEF CallsInv, CountInv, LoopThen, M!Allowed
  <2> QED
    BY <1>3, <2>2, <2>3 DEF CallsInv
<1>5. CASE call.status = 200
  <2> DEFINE l == [loop EXCEPT !.tokens = @ + call.tokens]
  <2>1. PICK c \in M!Contents : loop' = IF kind = "agent" THEN M!AfterAgent(c, l)
                                       ELSE M!AfterStructured(c, l)
    BY <1>5 DEF M!Receive
  <2>2. l \in LoopSet /\ l.at = "waiting" /\ l.tokens = loop.tokens + call.tokens
        /\ l.calls = loop.calls /\ l.retries = loop.retries /\ l.failures = loop.failures
        /\ l.refill = loop.refill /\ l.steps = loop.steps
    BY <1>1, FieldTypes DEF CallsInv, CallingTypes, LoopSet
  <2> HIDE DEF l
  <2>3. \E place \in {"ready", "tool", "returned", "gave_up"}, retries \in Nat, failures \in Nat,
           refill \in BOOLEAN :
          /\ LoopThen(place, loop.calls, retries, failures, refill, loop.steps,
                      loop.tokens + call.tokens)
          /\ kind = "agent" => failures <= 4 /\ (failures = 4 => refill \/ place = "gave_up")
          /\ kind = "structured" =>
               /\ failures = loop.failures /\ refill = loop.refill
               /\ \/ place = "returned" /\ retries = loop.retries
                  \/ place = "ready" /\ retries = IF loop.calls <= Retries THEN loop.retries + 1
                                               ELSE loop.retries
    <3>1. CASE kind = "agent"
      <4>1. loop.failures <= 4 /\ (loop.failures = 4 => loop.refill)
        BY <1>1 DEF CallsInv, CountInv
      <4>2. CASE M!Valid(c)
        <5> DEFINE place == IF c.fits = "final" THEN "returned" ELSE "tool"
        <5>1. loop' = [l EXCEPT !.failures = 0, !.refill = FALSE, !.at = place]
          BY <2>1, <3>1, <4>2 DEF M!AfterAgent
        <5>2. LoopThen(place, loop.calls, loop.retries, 0, FALSE, loop.steps, loop.tokens + call.tokens)
          BY <2>2, <5>1 DEF LoopThen, LoopSet, LoopPlaces
        <5> place \in {"ready", "tool", "returned", "gave_up"} /\ loop.retries \in Nat
          BY FieldTypes DEF CallsInv
        <5> HIDE DEF place
        <5> WITNESS place \in {"ready", "tool", "returned", "gave_up"}, loop.retries \in Nat,
                    0 \in Nat, FALSE \in BOOLEAN
        <5>3. 0 <= 4 /\ 0 # 4 /\ kind # "structured"
          BY <3>1
        <5> QED
          BY <5>2, <5>3, ZenonT(30)
      <4>3. CASE ~M!Valid(c) /\ l.refill
        <5>1. LoopThen("gave_up", loop.calls, loop.retries, loop.failures, loop.refill, loop.steps,
                       loop.tokens + call.tokens)
          BY <2>1, <2>2, <3>1, <4>3 DEF M!AfterAgent, LoopThen, LoopSet, LoopPlaces
        <5> QED
          BY <3>1, <4>1, <5>1, FieldTypes DEF CallsInv
      <4>4. CASE ~M!Valid(c) /\ ~l.refill
        <5> DEFINE refill == loop.failures >= 3
        <5>1. loop' = [l EXCEPT !.failures = @ + 1, !.refill = refill, !.at = "ready"]
          BY <2>1, <2>2, <3>1, <4>4 DEF M!AfterAgent
        <5>2. refill \in BOOLEAN
          OBVIOUS
        <5> DEFINE n == loop.failures + 1
        <5>3. n <= 4 /\ (n = 4 => refill) /\ n \in Nat
          BY <2>2, <4>1, <4>4, FieldTypes DEF CallsInv
        <5>4. loop' = [l EXCEPT !.failures = n, !.refill = refill, !.at = "ready"]
          BY <2>2, <5>1 DEF LoopSet
        <5> HIDE DEF refill, n
        <5>5. LoopThen("ready", loop.calls, loop.retries, n, refill, loop.steps,
                       loop.tokens + call.tokens)
          BY <2>2, <5>2, <5>3, <5>4 DEF LoopThen, LoopSet, LoopPlaces
        <5> QED
          BY <3>1, <5>2, <5>3, <5>5, FieldTypes DEF CallsInv
      <4> QED
        BY <4>2, <4>3, <4>4
    <3>2. CASE kind = "structured"
      <4>1. CASE M!Valid(c)
        <5>1. LoopThen("returned", loop.calls, loop.retries, loop.failures, loop.refill, loop.steps,
                       loop.tokens + call.tokens)
          BY <2>1, <2>2, <3>2, <4>1 DEF M!AfterStructured, LoopThen, LoopSet, LoopPlaces
        <5> QED
          BY <3>2, <5>1, FieldTypes DEF CallsInv
      <4>2. CASE ~M!Valid(c)
        <5> DEFINE r == IF loop.calls <= Retries THEN loop.retries + 1 ELSE loop.retries
        <5>1. loop' = [l EXCEPT !.at = "ready", !.retries = r]
          BY <2>1, <2>2, <3>2, <4>2 DEF M!AfterStructured
        <5>2. r \in Nat
          BY FieldTypes DEF CallsInv
        <5>3. LoopThen("ready", loop.calls, r, loop.failures, loop.refill, loop.steps,
                       loop.tokens + call.tokens)
          <6> HIDE DEF r
          <6> QED
            BY <2>2, <5>1, <5>2 DEF LoopThen, LoopSet, LoopPlaces
        <5> QED
          BY <3>2, <5>2, <5>3, FieldTypes DEF CallsInv
      <4> QED
        BY <4>1, <4>2
    <3> QED
      BY <3>1, <3>2, FieldTypes DEF CallsInv
  <2>4. CallingTypes' /\ LoopInv' /\ M!TokensAgree'
    BY <1>1, <1>2, <1>5, <2>3, FieldTypes DEF CallsInv, CallingTypes, CallThen, LoopThen, LoopInv,
       M!TokensAgree, M!RowsAgree
  <2>5. CountInv'
    BY <1>1, <2>3, OutcomeKinds, FieldTypes DEF CallsInv, CountInv, LoopThen, M!Allowed
  <2> QED
    BY <1>3, <2>4, <2>5 DEF CallsInv
<1> QED
  BY <1>4, <1>5

\* The client goes away, or the gateway does.
LEMMA LeaveKeeps == CallsInv /\ (M!StopWaiting \/ M!GatewayStops) => CallsInv'
<1> SUFFICES ASSUME CallsInv, M!StopWaiting \/ M!GatewayStops PROVE CallsInv'
  OBVIOUS
<1>1. UNCHANGED <<kind, ledger, key, disable>>
  BY DEF M!StopWaiting, M!GatewayStops
<1>2. \E stage \in Stages, client \in {"none", "gone", "read"} :
        /\ CallThen(stage, client, call.outcome, call.tokens, call.usage, call.audit, call.status,
                    call.late)
        /\ \/ stage = call.stage /\ client = "gone" /\ call.client = "waits"
           \/ /\ stage = "lost" /\ call.stage \in {"key", "provider", "usage", "audit"}
              /\ client = IF call.client = "waits" THEN "gone" ELSE call.client
  <2>1. CASE M!StopWaiting
    <3>1. CallThen(call.stage, "gone", call.outcome, call.tokens, call.usage, call.audit,
                   call.status, call.late)
      BY <2>1 DEF CallsInv, CallingTypes, M!StopWaiting, CallThen, CallSet
    <3> QED
      BY <2>1, <3>1, FieldTypes DEF CallsInv, M!StopWaiting
  <2>2. CASE M!GatewayStops
    <3> DEFINE client == IF call.client = "waits" THEN "gone" ELSE call.client
    <3>1. call' = [call EXCEPT !.stage = "lost", !.client = client]
      BY <2>2 DEF CallsInv, CallingTypes, CallSet, M!GatewayStops
    <3>2. client \in {"none", "gone", "read"}
      BY FieldTypes DEF CallsInv
    <3>3. CallThen("lost", client, call.outcome, call.tokens, call.usage, call.audit, call.status,
                   call.late)
      <4>1. call \in CallSet
        BY DEF CallsInv, CallingTypes
      <4> DEFINE c == [call EXCEPT !.stage = "lost"]
      <4>2. c \in CallSet /\ c.stage = "lost" /\ c.outcome = call.outcome /\ c.tokens = call.tokens
            /\ c.usage = call.usage /\ c.audit = call.audit /\ c.status = call.status
            /\ c.late = call.late
        BY <4>1 DEF CallSet, Stages
      <4>3. call' = [c EXCEPT !.client = client]
        BY <3>1
      <4> HIDE DEF client, c
      <4> QED
        BY <3>2, <4>2, <4>3 DEF CallThen, CallSet
    <3> QED
      BY <2>2, <3>2, <3>3 DEF M!GatewayStops, Stages
  <2> QED
    BY <2>1, <2>2
<1>3. LoopThen(IF call.client = "waits" THEN "raised" ELSE loop.at, loop.calls, loop.retries,
               loop.failures, loop.refill, loop.steps, loop.tokens)
  <2>1. CASE call.client = "waits"
    BY <2>1 DEF CallsInv, CallingTypes, M!StopWaiting, M!GatewayStops, LoopThen, LoopSet, LoopPlaces
  <2>2. CASE call.client # "waits"
    BY <2>2 DEF CallsInv, CallingTypes, M!StopWaiting, M!GatewayStops, LoopThen
  <2> QED
    BY <2>1, <2>2
<1>4. CallingTypes'
  BY <1>1, <1>2, <1>3 DEF CallsInv, CallingTypes, CallThen, LoopThen
<1>5. LoopInv'
  BY <1>1, <1>2, <1>3 DEF CallsInv, LoopInv, CallThen, LoopThen
<1>6. RowsInv' /\ M!RowsAgree'
  BY <1>1, <1>2 DEF CallsInv, RowsInv, CallThen, M!RowsAgree
<1>7. KeyInv'
  BY <1>1, <1>2 DEF CallsInv, KeyInv, CallThen
<1>8. M!TokensAgree'
  BY <1>1, <1>2, <1>3, FieldTypes DEF CallsInv, LoopInv, CallThen, LoopThen, M!TokensAgree
<1>9. CountInv'
  BY <1>1, <1>3, OutcomeKinds, FieldTypes DEF CallsInv, LoopInv, CountInv, LoopThen, M!Allowed
<1> QED
  BY <1>4, <1>5, <1>6, <1>7, <1>8, <1>9 DEF CallsInv

\* A step of the gateway that does not fail: the key is read, the provider
\* asked, a row written.
Served(stage, outcome, tokens, usage, audit, code) ==
  /\ call.stage \notin {"none", "answered", "lost"} /\ UNCHANGED <<kind, loop, key, disable>>
  /\ outcome \in {"none"} \cup M!Outcomes[Provider]
  /\ CallThen(stage, call.client, outcome, tokens, usage, audit, code, call.late)
  /\ \/ /\ call.stage = "key" /\ ledger' = ledger /\ outcome = "none" /\ tokens = call.tokens
        /\ usage = "none" /\ audit = "none"
        /\ \/ stage = "provider" /\ key = "enabled" /\ code = 0
           \/ stage = "answered" /\ code = 401
     \/ /\ call.stage = "provider" /\ ledger' = ledger /\ usage = "none" /\ audit = "none"
        /\ outcome # "none" /\ (outcome \notin {"answer", "unfit"} => tokens = 0)
        /\ \/ stage = "usage" /\ outcome # "unexpected" /\ code = 0
           \/ stage = "answered" /\ code = 500
     \/ /\ call.stage = "usage" /\ stage = "audit" /\ usage = M!Result(call.outcome)
        /\ outcome = call.outcome /\ tokens = call.tokens /\ audit = "none" /\ code = 0
        /\ ledger' = ledger + call.tokens
     \/ /\ call.stage = "audit" /\ stage = "answered" /\ audit = M!Result(call.outcome)
        /\ outcome = call.outcome /\ tokens = call.tokens /\ usage = call.usage
        /\ code = M!Code(call.outcome) /\ ledger' = ledger

LEMMA ServeKeeps ==
  ASSUME CallsInv, NEW stage, NEW outcome, NEW tokens, NEW usage, NEW audit, NEW code,
         Served(stage, outcome, tokens, usage, audit, code)
  PROVE  CallsInv'
<1> USE DEF Served
<1>1. LoopStays
  BY Stays DEF CallsInv
<1>2. CallingTypes'
  BY <1>1, FieldTypes DEF CallsInv, CallingTypes, CallThen, LoopThen, LoopStays
<1>3. LoopInv'
  BY <1>1 DEF CallsInv, LoopInv, CallThen, LoopThen, LoopStays
<1>4. RowsInv'
  BY FieldTypes DEF CallsInv, RowsInv, CallThen, M!Result
<1>5. KeyInv'
  BY DEF CallsInv, KeyInv, CallThen
<1>6. M!RowsAgree'
  <2>1. CASE call.stage = "audit" /\ stage = "answered" /\ code = M!Code(call.outcome)
             /\ audit = M!Result(call.outcome) /\ usage = call.usage /\ outcome = call.outcome
    <3>1. usage = M!Result(call.outcome) /\ call.outcome \notin {"none", "unexpected"}
      BY <2>1 DEF CallsInv, RowsInv
    <3>2. CASE call.outcome = "answer"
      BY <2>1, <3>1, <3>2 DEF CallThen, M!RowsAgree, M!Result, M!Code
    <3>3. CASE call.outcome = "unfit"
      BY <2>1, <3>1, <3>3 DEF CallThen, M!RowsAgree, M!Result, M!Code
    <3>4. CASE call.outcome \notin {"answer", "unfit"}
      BY <2>1, <3>1, <3>4 DEF CallThen, M!RowsAgree, M!Result, M!Code
    <3> QED
      BY <3>2, <3>3, <3>4
  <2>2. CASE ~(call.stage = "audit" /\ stage = "answered" /\ code = M!Code(call.outcome)
               /\ audit = M!Result(call.outcome) /\ usage = call.usage /\ outcome = call.outcome)
    <3>1. code \in {0, 401, 500} /\ (code = 401 => usage = "none" /\ outcome = "none")
          /\ audit = "none"
      BY <2>2, FieldTypes DEF CallsInv, RowsInv, Stages
    <3> QED
      BY <3>1 DEF CallThen, M!RowsAgree
  <2> QED
    BY <2>1, <2>2
<1>7. M!TokensAgree'
  BY <1>1, FieldTypes DEF CallsInv, LoopInv, RowsInv, CallThen, LoopThen, LoopStays, M!TokensAgree,
     M!Result
<1>8. CountInv'
  BY DEF CallsInv, CountInv, M!Allowed
<1> QED
  BY <1>2, <1>3, <1>4, <1>5, <1>6, <1>7, <1>8 DEF CallsInv

\* A commit fails, at any stage.
LEMMA BreaksKeeps ==
  ASSUME CallsInv, UNCHANGED <<kind, loop, ledger, key, disable>>,
         call.stage \notin {"none", "answered", "lost"}, call' = M!Broken(call)
  PROVE  CallsInv'
<1>1. CallThen("answered", call.client, call.outcome, call.tokens, call.usage, call.audit, 500,
               call.late)
  <2>1. IsAnswered(M!Broken(call), call, 500)
    BY Broke DEF CallsInv, CallingTypes
  <2> QED
    BY <2>1 DEF IsAnswered, CallThen
<1>2. LoopStays
  BY Stays DEF CallsInv
<1>3. CallingTypes'
  BY <1>1 DEF CallsInv, CallingTypes, CallThen
<1>4. LoopInv'
  BY <1>1, <1>2 DEF CallsInv, LoopInv, CallThen, LoopThen, LoopStays
<1>5. RowsInv' /\ M!RowsAgree'
  BY <1>1, FieldTypes DEF CallsInv, RowsInv, CallThen, M!RowsAgree, Stages
<1>6. KeyInv'
  BY <1>1 DEF CallsInv, KeyInv, CallThen
<1>7. M!TokensAgree'
  BY <1>1, <1>2, FieldTypes DEF CallsInv, LoopInv, RowsInv, CallThen, LoopThen, LoopStays,
     M!TokensAgree, Stages
<1>8. CountInv'
  BY DEF CallsInv, CountInv, M!Allowed
<1> QED
  BY <1>3, <1>4, <1>5, <1>6, <1>7, <1>8 DEF CallsInv

LEMMA AuthenticateKeeps == CallsInv /\ M!Authenticate => CallsInv'
<1> SUFFICES ASSUME CallsInv, M!Authenticate PROVE CallsInv'
  OBVIOUS
<1>1. call \in CallSet /\ call.stage = "key" /\ UNCHANGED <<kind, loop, ledger, key, disable>>
  BY DEF CallsInv, CallingTypes, M!Authenticate
<1>2. call.outcome = "none" /\ call.usage = "none" /\ call.audit = "none" /\ call.status = 0
  BY <1>1 DEF CallsInv, RowsInv
<1>3. CASE call' = M!Broken(call)
  BY <1>1, <1>3, BreaksKeeps
<1>4. CASE key = "enabled" /\ call' = [call EXCEPT !.stage = "provider"]
  <2>1. CallThen("provider", call.client, call.outcome, call.tokens, call.usage, call.audit,
                 call.status, call.late)
    BY <1>1, <1>4 DEF CallThen, CallSet, Stages
  <2>2. Served("provider", call.outcome, call.tokens, call.usage, call.audit, call.status)
    BY <1>1, <1>2, <1>4, <2>1 DEF Served, CallSet
  <2> QED
    BY <2>2, ServeKeeps
<1>5. CASE call' = [call EXCEPT !.stage = "answered", !.status = 401]
  <2>1. CallThen("answered", call.client, call.outcome, call.tokens, call.usage, call.audit,
                 401, call.late)
    <3>1. PICK c \in CallSet : c = call
      BY <1>1
    <3>2. IsAnswered([c EXCEPT !.stage = "answered", !.status = 401], c, 401)
      BY Refused
    <3>3. call' = [c EXCEPT !.stage = "answered", !.status = 401]
      BY <1>5, <3>1
    <3> QED
      BY <3>1, <3>2, <3>3 DEF IsAnswered, CallThen
  <2>2. Served("answered", call.outcome, call.tokens, call.usage, call.audit, 401)
    BY <1>1, <1>2, <2>1 DEF Served, CallSet
  <2> QED
    BY <2>2, ServeKeeps
<1> QED
  BY <1>3, <1>4, <1>5 DEF M!Authenticate

LEMMA CallProviderKeeps == CallsInv /\ M!CallProvider => CallsInv'
<1> SUFFICES ASSUME CallsInv, M!CallProvider PROVE CallsInv'
  OBVIOUS
<1>1. call \in CallSet /\ call.stage = "provider" /\ UNCHANGED <<kind, loop, ledger, key, disable>>
  BY DEF CallsInv, CallingTypes, M!CallProvider
<1>2. call.usage = "none" /\ call.audit = "none" /\ call.status = 0
  BY <1>1 DEF CallsInv, RowsInv
<1>3. PICK outcome \in M!Outcomes[Provider] :
        \E tokens \in IF outcome \in {"answer", "unfit"} THEN {0, 1} ELSE {0} :
          LET asked == [call EXCEPT !.outcome = outcome, !.tokens = tokens] IN
          call' = IF M!Logged(outcome) THEN [asked EXCEPT !.stage = "usage"]
                  ELSE IF outcome = "not_configured"
                  THEN [asked EXCEPT !.stage = "answered", !.status = 503]
                  ELSE M!Broken(asked)
  BY DEF M!CallProvider
<1>9. PICK tokens \in IF outcome \in {"answer", "unfit"} THEN {0, 1} ELSE {0} :
        LET asked == [call EXCEPT !.outcome = outcome, !.tokens = tokens] IN
        call' = IF M!Logged(outcome) THEN [asked EXCEPT !.stage = "usage"]
                ELSE IF outcome = "not_configured"
                THEN [asked EXCEPT !.stage = "answered", !.status = 503]
                ELSE M!Broken(asked)
  BY <1>3
<1> DEFINE asked == [call EXCEPT !.outcome = outcome, !.tokens = tokens]
<1>4. tokens \in Nat /\ outcome # "none" /\ (outcome \notin {"answer", "unfit"} => tokens = 0)
  BY <1>9, OutcomeKinds
<1>5. /\ asked \in CallSet /\ asked.outcome = outcome /\ asked.tokens = tokens
      /\ asked.client = call.client /\ asked.usage = call.usage /\ asked.audit = call.audit
      /\ asked.status = call.status /\ asked.late = call.late
  <2> DEFINE c == [call EXCEPT !.outcome = outcome]
  <2>1. /\ c \in CallSet /\ c.outcome = outcome /\ c.client = call.client /\ c.usage = call.usage
        /\ c.audit = call.audit /\ c.status = call.status /\ c.late = call.late
    BY <1>1 DEF CallSet
  <2> HIDE DEF c
  <2>2. LET d == [c EXCEPT !.tokens = tokens] IN
        /\ d \in CallSet /\ d.outcome = outcome /\ d.tokens = tokens /\ d.client = call.client
        /\ d.usage = call.usage /\ d.audit = call.audit /\ d.status = call.status
        /\ d.late = call.late
    BY <1>4, <2>1 DEF CallSet
  <2> QED
    BY <2>2 DEF c
<1>6. \/ outcome # "unexpected" /\ call' = [asked EXCEPT !.stage = "usage"]
      \/ outcome = "unexpected" /\ call' = M!Broken(asked)
  BY <1>9 DEF M!Logged
<1> HIDE DEF asked
<1>7. CASE outcome # "unexpected" /\ call' = [asked EXCEPT !.stage = "usage"]
  <2>1. CallThen("usage", call.client, outcome, tokens, call.usage, call.audit, call.status,
                 call.late)
    BY <1>5, <1>7 DEF CallThen, CallSet, Stages
  <2>2. Served("usage", outcome, tokens, call.usage, call.audit, call.status)
    BY <1>1, <1>2, <1>4, <1>7, <2>1 DEF Served
  <2> QED
    BY <2>2, ServeKeeps
<1>8. CASE call' = M!Broken(asked)
  <2>1. CallThen("answered", call.client, outcome, tokens, call.usage, call.audit, 500, call.late)
    <3>1. IsAnswered(call', asked, 500)
      BY <1>5, <1>8, Broke
    <3> QED
      BY <1>5, <3>1 DEF IsAnswered, CallThen
  <2>2. Served("answered", outcome, tokens, call.usage, call.audit, 500)
    BY <1>1, <1>2, <1>4, <2>1 DEF Served
  <2> QED
    BY <2>2, ServeKeeps
<1> QED
  BY <1>6, <1>7, <1>8

LEMMA RowKeeps == CallsInv /\ (M!WriteUsage \/ M!WriteAudit) => CallsInv'
<1> SUFFICES ASSUME CallsInv, M!WriteUsage \/ M!WriteAudit PROVE CallsInv'
  OBVIOUS
<1>1. call \in CallSet /\ call.stage \in {"usage", "audit"} /\ UNCHANGED <<kind, loop, key, disable>>
  BY DEF CallsInv, CallingTypes, M!WriteUsage, M!WriteAudit
<1>2. M!Result(call.outcome) \in {"success", "failure"}
      /\ M!Code(call.outcome) \in {200, 500, 502, 503} /\ call.audit = "none" /\ call.status = 0
  BY <1>1 DEF CallsInv, RowsInv, M!Result, M!Code
<1>3. CASE call' = M!Broken(call) /\ ledger' = ledger
  BY <1>1, <1>3, BreaksKeeps
<1>4. CASE call.stage = "usage" /\ ledger' = ledger + call.tokens
           /\ call' = [call EXCEPT !.stage = "audit", !.usage = M!Result(call.outcome)]
  <2>1. CallThen("audit", call.client, call.outcome, call.tokens, M!Result(call.outcome), call.audit,
                 call.status, call.late)
    <3> DEFINE r == M!Result(call.outcome)
               c == [call EXCEPT !.stage = "audit"]
    <3>1. c \in CallSet /\ c.stage = "audit" /\ c.client = call.client
          /\ c.outcome = call.outcome /\ c.tokens = call.tokens /\ c.audit = call.audit
          /\ c.status = call.status /\ c.late = call.late
      BY <1>1, Staged DEF Stages
    <3>2. call' = [c EXCEPT !.usage = r] /\ r \in {"none", "success", "failure"}
      BY <1>2, <1>4
    <3> HIDE DEF c, r
    <3>3. CallThen("audit", call.client, call.outcome, call.tokens, r, call.audit, call.status,
                   call.late)
      BY <3>1, <3>2 DEF CallThen, CallSet
    <3> QED
      BY <3>3 DEF r
  <2>2. Served("audit", call.outcome, call.tokens, M!Result(call.outcome), call.audit, call.status)
    BY <1>1, <1>2, <1>4, <2>1 DEF Served, CallSet
  <2> QED
    BY <2>2, ServeKeeps
<1>5. CASE call.stage = "audit" /\ ledger' = ledger
           /\ call' = [call EXCEPT !.stage = "answered", !.audit = M!Result(call.outcome),
                                   !.status = M!Code(call.outcome)]
  <2>1. CallThen("answered", call.client, call.outcome, call.tokens, call.usage,
                 M!Result(call.outcome), M!Code(call.outcome), call.late)
    <3> DEFINE r == M!Result(call.outcome)
               n == M!Code(call.outcome)
               c == [call EXCEPT !.stage = "answered"]
    <3>1. c \in CallSet /\ c.stage = "answered" /\ c.client = call.client
          /\ c.outcome = call.outcome /\ c.tokens = call.tokens /\ c.usage = call.usage
          /\ c.late = call.late
      BY <1>1, Staged DEF Stages
    <3>2. call' = [c EXCEPT !.audit = r, !.status = n]
      BY <1>5
    <3>3. r \in {"none", "success", "failure"} /\ n \in {0, 200, 401, 500, 502, 503}
      BY <1>2
    <3> DEFINE d == [c EXCEPT !.audit = r]
    <3> HIDE DEF c, r, n
    <3>4. d \in CallSet /\ d.stage = "answered" /\ d.client = call.client
          /\ d.outcome = call.outcome /\ d.tokens = call.tokens /\ d.usage = call.usage
          /\ d.audit = r /\ d.late = call.late
      BY <3>1, <3>3 DEF CallSet
    <3>5. call' = [d EXCEPT !.status = n]
      BY <3>2
    <3> HIDE DEF d
    <3>6. CallThen("answered", call.client, call.outcome, call.tokens, call.usage, r, n, call.late)
      BY <3>3, <3>4, <3>5 DEF CallThen, CallSet
    <3> QED
      BY <3>6 DEF r, n
  <2>2. Served("answered", call.outcome, call.tokens, call.usage, M!Result(call.outcome),
               M!Code(call.outcome))
    BY <1>1, <1>2, <1>5, <2>1 DEF Served, CallSet
  <2> QED
    BY <2>2, ServeKeeps
<1> QED
  BY <1>1, <1>3, <1>4, <1>5 DEF M!WriteUsage, M!WriteAudit

LEMMA CallsStep == CallsInv /\ [M!Next]_(M!vars) => CallsInv'
<1> SUFFICES ASSUME CallsInv, [M!Next]_(M!vars) PROVE CallsInv'
  OBVIOUS
<1>1. ASSUME NEW d \in Disabler, M!LookUp(d) \/ M!Disable(d) PROVE CallsInv'
  <2>1. UNCHANGED <<kind, loop, call, ledger>>
    BY <1>1 DEF M!LookUp, M!Disable
  <2>2. CallingTypes' /\ LoopInv' /\ RowsInv' /\ CountInv' /\ M!RowsAgree' /\ M!TokensAgree'
    BY <2>1 DEF CallsInv, CallingTypes, LoopInv, RowsInv, CountInv, M!Allowed, M!RowsAgree,
       M!TokensAgree
  <2>3. KeyInv'
    BY <1>1, <2>1 DEF CallsInv, KeyInv, M!LookUp, M!Disable, M!Updated
  <2> QED
    BY <2>2, <2>3 DEF CallsInv
<1>2. CASE UNCHANGED M!vars
  BY <1>2 DEF M!vars, CallsInv, CallingTypes, LoopInv, RowsInv, CountInv, KeyInv, M!Allowed,
     M!RowsAgree, M!TokensAgree
<1> QED
  BY <1>1, <1>2, AskKeeps, LoopKeeps, ReceiveKeeps, LeaveKeeps, AuthenticateKeeps,
     CallProviderKeeps, RowKeeps DEF M!Next

LEMMA CallsInit == M!Init => CallsInv
BY OutcomeKinds DEF M!Init, M!NoCall, CallsInv, CallingTypes, LoopSet, CallSet, LoopInv, RowsInv,
   CountInv, KeyInv, M!RowsAgree, M!TokensAgree, LoopPlaces, Stages

LEMMA CallsMoves == [AllNext]_all => [M!Next]_(M!vars)
BY DEF AllNext, all, calling, M!vars

\* Of a call of a model, the rows, the tokens and what the client heard agree,
\* whatever fails on the way; the loops keep to their bounds; one of those that
\* disable a key is told so, and none of its later calls reaches a provider
\* (ToolAgent.run, generate_structured, the gateway's ChatService and ApiKeyService).
THEOREM CallsAddUp == AllSpec => []CallsAreAccounted
<1>1. CallsInv => CallsAreAccounted
  <2> SUFFICES ASSUME CallsInv PROVE M!CallsAreAccounted
    BY DEF CallsAreAccounted
  <2>1. M!LoopBounded
    BY OutcomeKinds DEF CallsInv, CallingTypes, LoopInv, CountInv, M!LoopBounded, M!NoCall
  <2>2. M!KeyStaysDisabled
    BY DEF CallsInv, KeyInv, M!KeyStaysDisabled
  <2> QED
    BY <2>1, <2>2 DEF CallsInv, M!CallsAreAccounted
<1> QED
  BY <1>1, CallsInit, CallsStep, CallsMoves, PTL DEF AllSpec, AllInit

-----------------------------------------------------------------------------
(* ChatStream: what the page was shown is what the conversation holds.       *)

Said == {"user", "reply", "report", "error"}
Frames == {"conversation", "intent", "message", "final", "error", "5xx"}
Ends == {"message", "final", "error", "5xx"}
Marks == {"question", "report", "error", "model", "remove"}
RequestSet == [kind : {"none", "chat", "quick", "script"}, conv : Request \cup {Old, Nobody},
               pc : {"idle", "created", "classify", "work", "over"}, queue : Seq(Frames),
               got : SUBSET Frames, client : {"none", "reads", "gone", "ended"},
               faults : SUBSET Marks]
PageSet == [conv : Request \cup {Old, Nobody}, shown : Request \cup {Old, Nobody},
            sending : BOOLEAN, switched : BOOLEAN, quick : Request \cup {Nobody},
            running : BOOLEAN, result : Request \cup {Nobody}, left : BOOLEAN]
ChatTypes ==
  /\ req \in [Request -> RequestSet] /\ transcript \in [Request -> Seq(Said)]
  /\ page \in PageSet

\* What was put into the queue of a request whose client still reads.
Emitted(r) == req[r].got \cup S!ToSet(req[r].queue)

\* What a request leaves in its conversation; an error may follow.
Blank == <<>>
Question == <<"user">>
Replied == <<"user", "reply">>
Reported == <<"user", "report">>
Failed == <<"error">>
QuestionFailed == <<"user", "error">>
RepliedFailed == <<"user", "reply", "error">>
ReportedFailed == <<"user", "report", "error">>
Plain == {Blank, Question, Replied, Reported}
WithError == {Failed, QuestionFailed, RepliedFailed, ReportedFailed}

\* The end of a request: what its conversation holds, what was put into the
\* queue and what failed on the way.
Fits(type, client, said, sent, faults) ==
  /\ type = "quick" => said = Blank
  /\ said \in Plain \cup WithError /\ (faults = {} => said \in Plain)
  /\ said \in {RepliedFailed, ReportedFailed} => "remove" \in faults
  /\ said = Failed => faults \cap {"question", "model", "remove"} # {}
  /\ type = "chat" =>
       /\ "final" \in sent => "report" \in faults \/ said \in {Reported, ReportedFailed}
       /\ "message" \in sent => said \in {Replied, RepliedFailed}
       /\ "error" \in sent => said \in WithError
  /\ client # "gone" => sent \cap Ends # {} \/ "error" \in faults

Under(r) ==
  /\ req[r].pc = "idle" => req[r].client = "none"
  /\ req[r].client = "ended" => S!ToSet(req[r].queue) = {}
  /\ req[r].pc # "over" =>
       /\ req[r].faults = {} /\ Emitted(r) \cap Ends = {} /\ req[r].client # "ended"
       /\ transcript[r] = IF req[r].pc = "work" /\ req[r].kind # "quick" THEN Question ELSE Blank
  /\ req[r].pc = "classify" => req[r].kind # "quick"
  /\ "conversation" \in Emitted(r) => req[r].kind = "chat"
  /\ req[r].pc = "over" =>
       /\ Fits(req[r].kind, req[r].client, transcript[r], Emitted(r), req[r].faults)
       /\ r \notin directories \/ "remove" \in req[r].faults

\* A page has one question and one diagnosis under way; where the answer
\* comes from something else than what it shows, it was left meanwhile.
Live(r, type) == req[r].kind = type /\ req[r].client = "reads"
PageInv ==
  /\ S!PageAgrees
  /\ \A r, q \in Request : Live(r, "chat") /\ Live(q, "chat") => r = q
  /\ \A r \in Request : Live(r, "chat") =>
       page.sending /\ (req[r].conv = page.conv \/ page.shown = Nobody \/ page.switched)
  /\ page.left \/ \A r \in Request : Live(r, "quick") => page.running /\ page.quick = r
ChatInv == ChatTypes /\ PageInv /\ \A r \in Request : Under(r)

\* Sequences: what joining and appending does to short ones, and to the set of
\* their elements.
LEMMA Joined ==
  ASSUME NEW A, NEW s \in Seq(A), NEW t \in Seq(A), NEW e \in A
  PROVE  /\ s \o t \in Seq(A) /\ Append(t, e) \in Seq(A) /\ s \o Append(t, e) = Append(s \o t, e)
         /\ S!ToSet(s \o t) = S!ToSet(s) \cup S!ToSet(t)
         /\ S!ToSet(Append(t, e)) = S!ToSet(t) \cup {e}
         /\ s \o <<>> = s /\ <<>> \o s = s
<1>1. ASSUME NEW x \in Seq(A), NEW y \in Seq(A)
      PROVE  S!ToSet(x \o y) = S!ToSet(x) \cup S!ToSet(y)
  <2>1. Len(x) \in Nat /\ Len(y) \in Nat /\ DOMAIN x = 1 .. Len(x) /\ DOMAIN y = 1 .. Len(y)
    BY LenProperties
  <2>2. x \o y \in Seq(A) /\ Len(x \o y) = Len(x) + Len(y)
        /\ \A i \in 1 .. Len(x) + Len(y) :
             (x \o y)[i] = IF i <= Len(x) THEN x[i] ELSE y[i - Len(x)]
    BY ConcatProperties
  <2>3. DOMAIN (x \o y) = 1 .. (Len(x) + Len(y))
    BY <2>2, LenProperties
  <2>4. ASSUME NEW i \in 1 .. (Len(x) + Len(y))
        PROVE  (x \o y)[i] \in {x[k] : k \in 1 .. Len(x)} \cup {y[k] : k \in 1 .. Len(y)}
    <3>1. CASE i <= Len(x)
      BY <2>1, <2>2, <3>1
    <3>2. CASE ~(i <= Len(x))
      <4>1. i - Len(x) \in 1 .. Len(y) /\ (x \o y)[i] = y[i - Len(x)]
        BY <2>1, <2>2, <3>2
      <4> QED
        BY <4>1
    <3> QED
      BY <3>1, <3>2
  <2>5. ASSUME NEW k \in 1 .. Len(x)
        PROVE  k \in 1 .. (Len(x) + Len(y)) /\ (x \o y)[k] = x[k]
    BY <2>1, <2>2
  <2>6. ASSUME NEW k \in 1 .. Len(y)
        PROVE  k + Len(x) \in 1 .. (Len(x) + Len(y)) /\ (x \o y)[k + Len(x)] = y[k]
    BY <2>1, <2>2
  <2>7. S!ToSet(x \o y) = {(x \o y)[i] : i \in 1 .. (Len(x) + Len(y))}
        /\ S!ToSet(x) = {x[i] : i \in 1 .. Len(x)} /\ S!ToSet(y) = {y[i] : i \in 1 .. Len(y)}
    BY <2>1, <2>3 DEF S!ToSet
  <2> HIDE DEF S!ToSet
  <2>8. S!ToSet(x \o y) \subseteq S!ToSet(x) \cup S!ToSet(y)
    BY <2>4, <2>7
  <2>9. S!ToSet(x) \cup S!ToSet(y) \subseteq S!ToSet(x \o y)
    BY <2>5, <2>6, <2>7
  <2> QED
    BY <2>8, <2>9
<1>2. Append(t, e) = t \o <<e>> /\ <<e>> \in Seq(A) /\ S!ToSet(<<e>>) = {e}
  BY AppendIsConcat DEF S!ToSet
<1>3. s \o t \in Seq(A) /\ s \o (t \o <<e>>) = (s \o t) \o <<e>>
  BY <1>2, ConcatProperties, ConcatAssociative
<1>4. Append(s \o t, e) = (s \o t) \o <<e>> /\ Append(t, e) \in Seq(A)
  BY <1>3, AppendIsConcat, AppendProperties
<1>5. s \o <<>> = s /\ <<>> \o s = s
  BY ConcatEmptySeq
<1>6. S!ToSet(s \o t) = S!ToSet(s) \cup S!ToSet(t)
      /\ S!ToSet(Append(t, e)) = S!ToSet(t) \cup {e}
  <2>1. S!ToSet(t \o <<e>>) = S!ToSet(t) \cup S!ToSet(<<e>>)
    BY <1>1, <1>2
  <2> QED
    BY <1>1, <1>2, <2>1
<1>7. s \o Append(t, e) = Append(s \o t, e)
  BY <1>2, <1>3, <1>4
<1> QED
  BY <1>3, <1>4, <1>5, <1>6, <1>7

\* A short sequence with one more element.
LEMMA Extended ==
  ASSUME NEW A, NEW s \in Seq(A), NEW t \in Seq(A), Len(t) = Len(s) + 1, NEW e \in A,
         t[Len(t)] = e, \A i \in 1 .. Len(s) : t[i] = s[i]
  PROVE  Append(s, e) = t
<1>1. Append(s, e) \in Seq(A) /\ Len(Append(s, e)) = Len(t) /\ Len(s) \in Nat
      /\ \A i \in 1 .. Len(s) : Append(s, e)[i] = s[i]
      /\ Append(s, e)[Len(s) + 1] = e
  BY AppendProperties, LenProperties
<1>2. \A i \in 1 .. Len(t) : Append(s, e)[i] = t[i]
  BY <1>1
<1> QED
  BY <1>1, <1>2, SeqEqual

LEMMA ExtendedOne ==
  ASSUME NEW A, NEW a \in A, NEW b \in A
  PROVE  Append(<<>>, a) = <<a>> /\ Append(<<a>>, b) = <<a, b>>
<1>1. <<>> \in Seq(A) /\ <<a>> \in Seq(A) /\ <<a, b>> \in Seq(A)
  OBVIOUS
<1>2. Append(<<>>, a) = <<a>>
  BY <1>1, Extended
<1>3. (\A i \in 1 .. Len(<<a>>) : <<a, b>>[i] = <<a>>[i]) /\ <<a, b>>[Len(<<a, b>>)] = b
      /\ Len(<<a, b>>) = Len(<<a>>) + 1
  OBVIOUS
<1> DEFINE s == <<a>>
           t == <<a, b>>
<1>4. s \in Seq(A) /\ t \in Seq(A) /\ Len(t) = Len(s) + 1 /\ t[Len(t)] = b
      /\ \A i \in 1 .. Len(s) : t[i] = s[i]
  BY <1>1, <1>3
<1> HIDE DEF s, t
<1>5. Append(s, b) = t
  BY <1>4, Extended
<1> QED
  BY <1>2, <1>5 DEF s, t

LEMMA ExtendedTwo ==
  ASSUME NEW A, NEW a \in A, NEW b \in A, NEW c \in A
  PROVE  Append(<<a, b>>, c) = <<a, b, c>>
<1>1. <<a, b>> \in Seq(A) /\ <<a, b, c>> \in Seq(A)
  OBVIOUS
<1>2. (\A i \in 1 .. Len(<<a, b>>) : <<a, b, c>>[i] = <<a, b>>[i])
      /\ <<a, b, c>>[Len(<<a, b, c>>)] = c /\ Len(<<a, b, c>>) = Len(<<a, b>>) + 1
  OBVIOUS
<1> DEFINE s == <<a, b>>
           t == <<a, b, c>>
<1>3. s \in Seq(A) /\ t \in Seq(A) /\ Len(t) = Len(s) + 1 /\ t[Len(t)] = c
      /\ \A i \in 1 .. Len(s) : t[i] = s[i]
  BY <1>1, <1>2
<1> HIDE DEF s, t
<1>4. Append(s, c) = t
  BY <1>3, Extended
<1> QED
  BY <1>4 DEF s, t

LEMMA Short ==
  /\ Plain \subseteq Seq(Said)
  /\ Append(Blank, "error") = Failed /\ Append(Question, "error") = QuestionFailed
  /\ Append(Replied, "error") = RepliedFailed /\ Append(Reported, "error") = ReportedFailed
  /\ Question \o <<"report">> = Reported /\ <<"report">> \in Seq(Said)
<1>1. <<"user">> \in Seq(Said) /\ <<>> \in Seq(Said) /\ <<"user", "reply">> \in Seq(Said)
      /\ <<"user", "report">> \in Seq(Said) /\ <<"report">> \in Seq(Said)
  BY DEF Said
<1>2. "user" \in Said /\ "error" \in Said /\ "reply" \in Said /\ "report" \in Said
  BY DEF Said
<1>3. Append(<<>>, "error") = <<"error">> /\ Append(<<>>, "report") = <<"report">>
  BY <1>2, ExtendedOne
<1>4. Append(<<"user">>, "error") = <<"user", "error">>
  BY <1>2, ExtendedOne
<1>5. Append(<<"user">>, "report") = <<"user", "report">>
  BY <1>2, ExtendedOne
<1>6. Append(<<"user", "reply">>, "error") = <<"user", "reply", "error">>
  BY <1>2, ExtendedTwo
<1>7. Append(<<"user", "report">>, "error") = <<"user", "report", "error">>
  BY <1>2, ExtendedTwo
<1>8. <<"user">> \o Append(<<>>, "report") = Append(<<"user">> \o <<>>, "report")
      /\ <<"user">> \o <<>> = <<"user">>
  BY <1>1, <1>2, Joined
<1> QED
  BY <1>1, <1>3, <1>4, <1>5, <1>6, <1>7, <1>8
     DEF Plain, Blank, Question, Replied, Reported, Failed, QuestionFailed, RepliedFailed,
         ReportedFailed

LEMMA Apart ==
  /\ Blank \notin {Question, Replied, Reported} \cup WithError
  /\ Question \notin {Replied, Reported} \cup WithError
  /\ Replied \notin {Reported} \cup WithError /\ Reported \notin WithError
  /\ Failed \notin {QuestionFailed, RepliedFailed, ReportedFailed}
  /\ QuestionFailed \notin {RepliedFailed, ReportedFailed} /\ RepliedFailed # ReportedFailed
<1>1. Len(Blank) = 0 /\ Len(Question) = 1 /\ Len(Failed) = 1 /\ Len(Replied) = 2
      /\ Len(Reported) = 2 /\ Len(QuestionFailed) = 2 /\ Len(RepliedFailed) = 3
      /\ Len(ReportedFailed) = 3
  BY DEF Blank, Question, Replied, Reported, Failed, QuestionFailed, RepliedFailed, ReportedFailed
<1>2. Question[1] # Failed[1]
  BY DEF Question, Failed
<1>3. Replied[2] # Reported[2]
  BY DEF Replied, Reported
<1>4. Replied[2] # QuestionFailed[2]
  BY DEF Replied, QuestionFailed
<1>5. Reported[2] # QuestionFailed[2]
  BY DEF Reported, QuestionFailed
<1>6. RepliedFailed[2] # ReportedFailed[2]
  BY DEF RepliedFailed, ReportedFailed
<1>8. Blank # Question /\ Blank # Replied /\ Blank # Reported /\ Blank # Failed
      /\ Blank # QuestionFailed /\ Blank # RepliedFailed /\ Blank # ReportedFailed
  <2>1. Len(Blank) # Len(Question) /\ Len(Blank) # Len(Replied) /\ Len(Blank) # Len(Reported)
        /\ Len(Blank) # Len(Failed) /\ Len(Blank) # Len(QuestionFailed) /\ Len(Blank) # Len(RepliedFailed)
        /\ Len(Blank) # Len(ReportedFailed)
    BY <1>1
  <2> QED
    BY <2>1, Zenon
<1>9. Question # Replied /\ Question # Reported /\ Question # QuestionFailed
      /\ Question # RepliedFailed /\ Question # ReportedFailed
  <2>1. Len(Question) # Len(Replied) /\ Len(Question) # Len(Reported) /\ Len(Question) # Len(QuestionFailed)
        /\ Len(Question) # Len(RepliedFailed) /\ Len(Question) # Len(ReportedFailed)
    BY <1>1
  <2> QED
    BY <2>1, Zenon
<1>10. Replied # Failed /\ Replied # RepliedFailed /\ Replied # ReportedFailed
  <2>1. Len(Replied) # Len(Failed) /\ Len(Replied) # Len(RepliedFailed) /\ Len(Replied) # Len(ReportedFailed)
    BY <1>1
  <2> QED
    BY <2>1, Zenon
<1>11. Reported # Failed /\ Reported # RepliedFailed /\ Reported # ReportedFailed
  <2>1. Len(Reported) # Len(Failed) /\ Len(Reported) # Len(RepliedFailed) /\ Len(Reported) # Len(ReportedFailed)
    BY <1>1
  <2> QED
    BY <2>1, Zenon
<1>12. Failed # QuestionFailed /\ Failed # RepliedFailed /\ Failed # ReportedFailed
       /\ QuestionFailed # RepliedFailed /\ QuestionFailed # ReportedFailed
  <2>1. Len(Failed) # Len(QuestionFailed) /\ Len(Failed) # Len(RepliedFailed) /\ Len(Failed) # Len(ReportedFailed)
        /\ Len(QuestionFailed) # Len(RepliedFailed) /\ Len(QuestionFailed) # Len(ReportedFailed)
    BY <1>1
  <2> QED
    BY <2>1, Zenon
<1>13. Question # Failed
  BY <1>2
<1>14. Replied # Reported /\ Replied # QuestionFailed
  BY <1>3, <1>4
<1>15. Reported # QuestionFailed /\ RepliedFailed # ReportedFailed
  BY <1>5, <1>6
<1> QED
  BY <1>8, <1>9, <1>10, <1>11, <1>12, <1>13, <1>14, <1>15 DEF WithError

\* What the steps of a request's task share: one request moves to an await or to
\* its end, adds messages to its conversation and frames to its queue.
Elsewhere(r) ==
  \A q \in Request \ {r} : req'[q] = req[q] /\ transcript'[q] = transcript[q]
                           /\ (q \in directories' <=> q \in directories)
Moves(r, place, entries, frames, faults) ==
  /\ req' \in [Request -> RequestSet] /\ transcript' \in [Request -> Seq(Said)] /\ Elsewhere(r)
  /\ req'[r].kind = req[r].kind /\ req'[r].conv = req[r].conv /\ req'[r].client = req[r].client
  /\ req'[r].pc = place /\ req'[r].faults = faults /\ Emitted(r)' = Emitted(r) \cup S!ToSet(frames)
  /\ transcript'[r] = transcript[r] \o entries

LEMMA Updates ==
  ASSUME ChatTypes, NEW r \in Request,
         NEW place \in {"idle", "created", "classify", "work", "over"},
         NEW entries \in Seq(Said), NEW frames \in Seq(Frames), NEW faults \in SUBSET Marks,
         S!Write(r, entries),
         \A q \in Request \ {r} : q \in directories' <=> q \in directories,
         req' = [req EXCEPT ![r] = [@ EXCEPT !.pc = place, !.queue = req[r].queue \o frames,
                                            !.faults = faults]]
  PROVE  Moves(r, place, entries, frames, faults)
<1> DEFINE new == [req[r] EXCEPT !.pc = place, !.queue = req[r].queue \o frames, !.faults = faults]
           queue == req[r].queue \o frames
           moved == [req[r] EXCEPT !.pc = place]
           queued == [moved EXCEPT !.queue = queue]
<1>7. req' = [req EXCEPT ![r] = new]
  OBVIOUS
<1>1. req[r] \in RequestSet /\ req[r].queue \in Seq(Frames) /\ transcript[r] \in Seq(Said)
  BY DEF ChatTypes, RequestSet
<1>2. queue \in Seq(Frames) /\ S!ToSet(queue) = S!ToSet(req[r].queue) \cup S!ToSet(frames)
      /\ transcript[r] \o entries \in Seq(Said)
  <2>1. PICK e \in Frames, w \in Said : TRUE
    BY DEF Frames, Said
  <2>2. queue \in Seq(Frames) /\ S!ToSet(queue) = S!ToSet(req[r].queue) \cup S!ToSet(frames)
    BY <1>1, <2>1, Joined
  <2> QED
    BY <1>1, <2>1, <2>2, Joined
<1>3. moved \in RequestSet /\ moved.pc = place /\ moved.kind = req[r].kind /\ moved.conv = req[r].conv
      /\ moved.client = req[r].client /\ moved.got = req[r].got /\ moved.queue = req[r].queue
  BY <1>1 DEF RequestSet
<1> HIDE DEF queue, moved
<1>4. queued \in RequestSet /\ queued.pc = place /\ queued.kind = req[r].kind
      /\ queued.conv = req[r].conv /\ queued.client = req[r].client /\ queued.got = req[r].got
      /\ queued.queue = queue
  BY <1>2, <1>3 DEF RequestSet
<1>5. new = [queued EXCEPT !.faults = faults]
  BY <1>1, <1>3 DEF moved, queue
<1> HIDE DEF queued, new
<1>6. new \in RequestSet /\ new.pc = place /\ new.kind = req[r].kind /\ new.conv = req[r].conv
      /\ new.client = req[r].client /\ new.got = req[r].got /\ new.queue = queue
      /\ new.faults = faults
  BY <1>4, <1>5 DEF RequestSet
<1>8. req' \in [Request -> RequestSet] /\ req'[r] = new /\ \A q \in Request \ {r} : req'[q] = req[q]
  BY <1>6, <1>7 DEF ChatTypes
<1>9. transcript' \in [Request -> Seq(Said)] /\ transcript'[r] = transcript[r] \o entries
      /\ \A q \in Request \ {r} : transcript'[q] = transcript[q]
  BY <1>2 DEF S!Write, ChatTypes
<1>10. Emitted(r)' = Emitted(r) \cup S!ToSet(frames)
  BY <1>2, <1>6, <1>8 DEF Emitted
<1> QED
  BY <1>6, <1>8, <1>9, <1>10 DEF Moves, Elsewhere

\* The head of a sequence and the elements of the rest.
LEMMA Headed ==
  ASSUME NEW A, NEW s \in Seq(A), s # <<>>
  PROVE  /\ Head(s) \in A /\ Tail(s) \in Seq(A)
         /\ S!ToSet(s) = {Head(s)} \cup S!ToSet(Tail(s))
<1>1. Head(s) \in A /\ Tail(s) \in Seq(A) /\ Len(s) \in Nat /\ Len(s) >= 1
      /\ Len(Tail(s)) = Len(s) - 1 /\ Head(s) = s[1]
      /\ \A i \in 1 .. Len(Tail(s)) : Tail(s)[i] = s[i + 1]
  BY HeadTailProperties, EmptySeq, LenProperties
<1>2. S!ToSet(s) = {s[i] : i \in 1 .. Len(s)}
      /\ S!ToSet(Tail(s)) = {Tail(s)[i] : i \in 1 .. (Len(s) - 1)}
  BY <1>1, LenProperties DEF S!ToSet
<1> HIDE DEF S!ToSet
<1>3. ASSUME NEW i \in 1 .. Len(s), i # 1
      PROVE  i - 1 \in 1 .. (Len(s) - 1) /\ s[i] = Tail(s)[i - 1]
  BY <1>1, <1>3
<1>4. ASSUME NEW i \in 1 .. (Len(s) - 1)
      PROVE  i + 1 \in 1 .. Len(s) /\ Tail(s)[i] = s[i + 1]
  BY <1>1
<1>5. 1 \in 1 .. Len(s)
  BY <1>1
<1>6. S!ToSet(s) \subseteq {Head(s)} \cup S!ToSet(Tail(s))
  <2> SUFFICES ASSUME NEW i \in 1 .. Len(s) PROVE s[i] \in {Head(s)} \cup S!ToSet(Tail(s))
    BY <1>2
  <2>1. CASE i = 1
    BY <1>1, <2>1
  <2>2. CASE i # 1
    BY <1>2, <1>3, <2>2
  <2> QED
    BY <2>1, <2>2
<1>7. {Head(s)} \cup S!ToSet(Tail(s)) \subseteq S!ToSet(s)
  BY <1>1, <1>2, <1>4, <1>5
<1> QED
  BY <1>1, <1>6, <1>7

Stands(r) ==
  /\ req' \in [Request -> RequestSet] /\ transcript' \in [Request -> Seq(Said)] /\ Elsewhere(r)
  /\ req'[r].kind = req[r].kind /\ req'[r].conv = req[r].conv /\ req'[r].client = req[r].client
  /\ Under(r)'

\* A request that stands keeps the invariant: the page sees no more of it.
LEMMA ChatStands ==
  ASSUME ChatInv, NEW r \in Request, Stands(r), page' = page
  PROVE  ChatInv'
<1>1. ChatTypes'
  BY DEF Stands, ChatInv, ChatTypes
<1>2. \A q \in Request : req'[q].kind = req[q].kind /\ req'[q].conv = req[q].conv
                         /\ req'[q].client = req[q].client
  BY DEF Stands, Elsewhere
<1>3. PageInv'
  BY <1>2 DEF ChatInv, PageInv, Live, S!PageAgrees
<1>4. ASSUME NEW q \in Request \ {r} PROVE Under(q)'
  <2>1. req'[q] = req[q] /\ transcript'[q] = transcript[q] /\ (q \in directories' <=> q \in directories)
    BY DEF Stands, Elsewhere
  <2>2. Under(q) /\ Emitted(q)' = Emitted(q)
    BY <2>1 DEF ChatInv, Emitted
  <2> QED
    BY <2>1, <2>2 DEF Under
<1> QED
  BY <1>1, <1>3, <1>4 DEF ChatInv, Stands

LEMMA OverKeeps ==
  ASSUME ChatTypes, NEW r \in Request, Under(r), req[r].pc # "over", req[r].pc # "idle",
         NEW entries \in Seq(Said), NEW frames \in Seq(Frames), NEW faults \in SUBSET Marks,
         S!Over(r, entries, frames, faults), "conversation" \notin S!ToSet(frames),
         Fits(req[r].kind, req[r].client, transcript[r] \o entries,
              Emitted(r) \cup S!ToSet(frames), faults)
  PROVE  Stands(r)
<1>1. req[r].faults = {} /\ req[r].faults \cup faults = faults
  BY DEF Under
<1>2. Moves(r, "over", entries, frames, faults)
  <2>1. \A q \in Request \ {r} : q \in directories' <=> q \in directories
    BY DEF S!Over
  <2>2. req' = [req EXCEPT ![r] = [@ EXCEPT !.pc = "over", !.queue = req[r].queue \o frames,
                                            !.faults = faults]]
    BY <1>1 DEF S!Over
  <2>3. S!Write(r, entries)
    BY DEF S!Over
  <2> QED
    BY <2>1, <2>2, <2>3, Updates
<1>3. r \notin directories' \/ "remove" \in faults
  BY DEF S!Over
<1>4. Under(r)'
  BY <1>2, <1>3 DEF Moves, Under
<1> QED
  BY <1>2, <1>4 DEF Moves, Stands

LEMMA GoesOn ==
  ASSUME ChatTypes, NEW r \in Request, Under(r), NEW place \in {"classify", "work"},
         NEW entries \in Seq(Said), NEW frames \in Seq(Frames), S!GoOn(r, place, entries, frames),
         req[r].pc \notin {"over", "idle"},
         \A q \in Request \ {r} : q \in directories' <=> q \in directories,
         S!ToSet(frames) \subseteq {"intent"},
         transcript[r] \o entries = IF place = "work" /\ req[r].kind # "quick" THEN Question ELSE Blank,
         place = "classify" => req[r].kind # "quick"
  PROVE  Stands(r)
<1> DEFINE faults == req[r].faults
           queue == req[r].queue \o frames
           moved == [req[r] EXCEPT !.pc = place]
           queued == [moved EXCEPT !.queue = queue]
<1>1. req[r] \in RequestSet
  BY DEF ChatTypes
<1>2. faults \in SUBSET Marks /\ queued = [queued EXCEPT !.faults = faults]
  <2>1. moved \in RequestSet /\ moved.faults = faults
    BY <1>1 DEF RequestSet
  <2>2. queue \in Seq(Frames)
    BY <1>1, ConcatProperties DEF RequestSet
  <2> HIDE DEF moved, queue
  <2>3. queued \in RequestSet /\ queued.faults = faults
    BY <2>1, <2>2 DEF RequestSet
  <2> HIDE DEF queued
  <2> QED
    BY <1>1, <2>3 DEF RequestSet
<1>3. req' = [req EXCEPT ![r] = queued]
  BY DEF S!GoOn
<1>4. req' = [req EXCEPT ![r] = [@ EXCEPT !.pc = place, !.queue = req[r].queue \o frames,
                                          !.faults = faults]]
  BY <1>2, <1>3
<1>5. S!Write(r, entries)
  BY DEF S!GoOn
<1> HIDE DEF faults, queue, moved, queued
<1>9. place \in {"idle", "created", "classify", "work", "over"}
  OBVIOUS
<1>6. Moves(r, place, entries, frames, faults)
  BY <1>2, <1>4, <1>5, <1>9, Updates
<1>7. faults = {} /\ req[r].client # "ended" /\ Emitted(r) \cap Ends = {}
  BY DEF faults, Under
<1>8. Under(r)'
  BY <1>6, <1>7 DEF Moves, Under, Ends
<1> QED
  BY <1>6, <1>8 DEF Moves, Stands

\* The ways a request ends: with an error that was appended and sent, without
\* one in its conversation, and a quick diagnosis, which has no conversation.
LEMMA ErrorFits ==
  ASSUME NEW type, NEW client, NEW base \in Plain, NEW said, NEW sent, NEW faults,
         said \in WithError, said = Failed => base = Blank,
         said \in {RepliedFailed, ReportedFailed} => base \in {Replied, Reported},
         base = Reported => said = ReportedFailed, base = Replied => said = RepliedFailed,
         type # "quick", "error" \in sent, faults # {},
         base = Blank => faults \cap {"question", "model", "remove"} # {},
         base \in {Replied, Reported} => "remove" \in faults,
         "final" \in sent => base = Reported, "message" \in sent => base = Replied
  PROVE  Fits(type, client, said, sent, faults)
<1>1. said \in {RepliedFailed, ReportedFailed} => "remove" \in faults
  OBVIOUS
<1>2. said = Failed => faults \cap {"question", "model", "remove"} # {}
  OBVIOUS
<1>3. ("final" \in sent => said \in {Reported, ReportedFailed})
      /\ ("message" \in sent => said \in {Replied, RepliedFailed})
  OBVIOUS
<1>4. sent \cap Ends # {}
  BY DEF Ends
<1> QED
  BY <1>1, <1>2, <1>3, <1>4 DEF Fits

LEMMA PlainFits ==
  ASSUME NEW type, NEW client, NEW said \in Plain, NEW sent, NEW faults,
         type = "quick" => said = Blank,
         type = "chat" =>
           /\ "final" \in sent => "report" \in faults \/ said = Reported
           /\ "message" \in sent => said = Replied
           /\ "error" \notin sent,
         client = "gone" \/ sent \cap Ends # {} \/ "error" \in faults
  PROVE  Fits(type, client, said, sent, faults)
<1>1. said \notin WithError
  BY Apart DEF Plain
<1>2. said # Failed /\ said \notin {RepliedFailed, ReportedFailed}
  BY <1>1 DEF WithError
<1> QED
  BY <1>2 DEF Fits

\* An error is appended and sent, appended only in vain, or answered to a script.
LEMMA RaiseKeeps ==
  ASSUME ChatTypes, NEW r \in Request, Under(r), req[r].pc # "over", req[r].pc # "idle",
         NEW entries \in Seq(Said), NEW frames \in Seq(Frames), NEW faults \in SUBSET Marks,
         S!Raise(r, entries, frames, faults),
         S!ToSet(frames) \cap {"conversation", "error", "5xx"} = {},
         req[r].kind = "quick" => transcript[r] = Blank,
         transcript[r] \o entries \in Plain,
         faults # {}, transcript[r] \o entries = Blank => faults \cap {"question", "model", "remove"} # {},
         transcript[r] \o entries \in {Replied, Reported} => "remove" \in faults,
         "final" \in S!ToSet(frames) => transcript[r] \o entries = Reported,
         "message" \in S!ToSet(frames) => transcript[r] \o entries = Replied
  PROVE  Stands(r)
<1> DEFINE base == transcript[r] \o entries
           longer == Append(entries, "error")
           told == Append(frames, "error")
<1>1. "error" \in Said /\ "error" \in Frames
  BY DEF Said, Frames
<1>2. transcript[r] \in Seq(Said)
  BY DEF ChatTypes
<1>3. longer \in Seq(Said) /\ transcript[r] \o longer = Append(base, "error")
      /\ transcript[r] \o Blank = transcript[r]
  <2>3. longer \in Seq(Said)
    BY <1>1, AppendProperties
  <2>4. ASSUME NEW s \in Seq(Said), NEW t \in Seq(Said), NEW e \in Said
        PROVE  s \o Append(t, e) = Append(s \o t, e)
    BY Joined, SMTT(30)
  <2>1. longer \in Seq(Said) /\ transcript[r] \o longer = Append(base, "error")
    BY <1>1, <1>2, <2>3, <2>4
  <2>2. transcript[r] \o <<>> = transcript[r]
    BY <1>2, ConcatEmptySeq
  <2> QED
    BY <2>1, <2>2 DEF Blank
<1>4. told \in Seq(Frames) /\ S!ToSet(told) = S!ToSet(frames) \cup {"error"}
  BY <1>1, Joined
<1>5. Append(base, "error") \in WithError
      /\ (Append(base, "error") = Failed => base = Blank)
      /\ (Append(base, "error") \in {RepliedFailed, ReportedFailed}
            => base \in {Replied, Reported})
      /\ (base = Reported => Append(base, "error") = ReportedFailed)
      /\ (base = Replied => Append(base, "error") = RepliedFailed)
  BY Short, Apart DEF Plain, WithError
<1>6. Emitted(r) \cap Ends = {}
  BY DEF Under
<1>11. base \in Plain
  OBVIOUS
<1>7. CASE req[r].kind = "chat" /\ S!Over(r, longer, told, faults)
  <2> DEFINE said == Append(base, "error")
             sent == Emitted(r) \cup S!ToSet(told)
  <2>1. "error" \in sent /\ ("final" \in sent => "final" \in S!ToSet(frames))
        /\ ("message" \in sent => "message" \in S!ToSet(frames))
    BY <1>4, <1>6 DEF Ends
  <2>2. ("final" \in sent => base = Reported) /\ ("message" \in sent => base = Replied)
        /\ req[r].kind # "quick"
    BY <1>7, <2>1
  <2>3. (base = Blank => faults \cap {"question", "model", "remove"} # {})
        /\ (base \in {Replied, Reported} => "remove" \in faults) /\ faults # {}
    OBVIOUS
  <2>4. said \in WithError /\ (said = Failed => base = Blank)
        /\ (said \in {RepliedFailed, ReportedFailed} => base \in {Replied, Reported})
        /\ (base = Reported => said = ReportedFailed) /\ (base = Replied => said = RepliedFailed)
    BY <1>5
  <2> HIDE DEF base, said, sent
  <2>5. Fits(req[r].kind, req[r].client, said, sent, faults)
    BY <1>11, <2>1, <2>2, <2>3, <2>4, ErrorFits
  <2>6. transcript[r] \o longer = said /\ sent = Emitted(r) \cup S!ToSet(told)
    BY <1>3 DEF said, sent
  <2>7. "conversation" \notin S!ToSet(told)
    BY <1>4
  <2> HIDE DEF longer, told
  <2> QED
    BY <1>3, <1>4, <1>7, <2>5, <2>6, <2>7, OverKeeps
<1>8. CASE req[r].kind = "chat" /\ S!Over(r, entries, frames, faults \cup {"error"})
  <2> DEFINE sent == Emitted(r) \cup S!ToSet(frames)
             failing == faults \cup {"error"}
  <2>1. ("final" \in sent => "final" \in S!ToSet(frames)) /\ "error" \notin sent
        /\ ("message" \in sent => "message" \in S!ToSet(frames))
    BY <1>6 DEF Ends
  <2>2. ("final" \in sent => base = Reported) /\ ("message" \in sent => base = Replied)
        /\ req[r].kind # "quick" /\ "error" \in failing
    BY <1>8, <2>1
  <2>3. failing \in SUBSET Marks
    BY DEF Marks
  <2>4. S!Over(r, entries, frames, failing) /\ "conversation" \notin S!ToSet(frames)
    BY <1>8
  <2>5. base = transcript[r] \o entries /\ sent = Emitted(r) \cup S!ToSet(frames)
    OBVIOUS
  <2> HIDE DEF base, sent, failing
  <2>6. Fits(req[r].kind, req[r].client, base, sent, failing)
    BY <1>11, <2>1, <2>2, PlainFits
  <2> QED
    BY <2>3, <2>4, <2>5, <2>6, OverKeeps
<1>9. CASE req[r].kind = "quick" /\ S!Over(r, Blank, told, faults)
  <2> DEFINE sent == Emitted(r) \cup S!ToSet(told)
  <2>1. sent \cap Ends # {} /\ transcript[r] \o Blank = Blank /\ Blank \in Plain
        /\ req[r].kind # "chat"
    BY <1>3, <1>4, <1>9 DEF Ends, Plain
  <2>2. Blank \in Seq(Said) /\ "conversation" \notin S!ToSet(told)
    BY <1>4 DEF Blank
  <2>5. sent = Emitted(r) \cup S!ToSet(told)
    OBVIOUS
  <2> HIDE DEF told, sent
  <2>3. Fits(req[r].kind, req[r].client, Blank, sent, faults)
    BY <2>1, PlainFits
  <2> QED
    BY <1>4, <1>9, <2>1, <2>2, <2>3, <2>5, OverKeeps
<1>10. CASE req[r].kind \notin {"chat", "quick"} /\ S!Over(r, entries, <<"5xx">>, faults)
  <2> DEFINE sent == Emitted(r) \cup S!ToSet(<<"5xx">>)
  <2>1. <<"5xx">> \in Seq(Frames) /\ S!ToSet(<<"5xx">>) = {"5xx"}
    BY DEF Frames, S!ToSet
  <2>2. sent \cap Ends # {} /\ req[r].kind # "chat" /\ req[r].kind # "quick"
    BY <1>10, <2>1 DEF Ends
  <2>5. base = transcript[r] \o entries /\ sent = Emitted(r) \cup S!ToSet(<<"5xx">>)
    OBVIOUS
  <2> HIDE DEF base, sent
  <2>3. Fits(req[r].kind, req[r].client, base, sent, faults)
    BY <1>11, <2>2, PlainFits
  <2> QED
    BY <1>10, <2>1, <2>3, <2>5, OverKeeps
<1> QED
  BY <1>7, <1>8, <1>9, <1>10 DEF S!Raise, Blank

\* A request ends without an error, but for that of the removal.
LEMMA EndKeeps ==
  ASSUME ChatTypes, NEW r \in Request, Under(r), req[r].pc # "over", req[r].pc # "idle",
         NEW entries \in Seq(Said), NEW frames \in Seq(Frames), S!Leave(r, entries, frames),
         S!ToSet(frames) \cap {"conversation", "error", "5xx"} = {},
         req[r].kind = "quick" => transcript[r] = Blank /\ entries = Blank,
         transcript[r] \o entries \in Plain,
         "final" \in S!ToSet(frames) => transcript[r] \o entries = Reported,
         "message" \in S!ToSet(frames) => transcript[r] \o entries = Replied,
         req[r].client = "gone" \/ S!ToSet(frames) \cap Ends # {}
  PROVE  Stands(r)
<1>1. CASE S!Over(r, entries, frames, {})
  <2>1. Emitted(r) \cap Ends = {}
    BY DEF Under
  <2>2. req[r].kind = "quick" => transcript[r] \o entries = Blank
    BY ConcatEmptySeq DEF ChatTypes, Blank
  <2> DEFINE base == transcript[r] \o entries
             sent == Emitted(r) \cup S!ToSet(frames)
  <2>4. ("final" \in sent => base = Reported) /\ ("message" \in sent => base = Replied)
        /\ "error" \notin sent /\ (req[r].client = "gone" \/ sent \cap Ends # {})
    BY <2>1 DEF Ends
  <2>5. base \in Plain /\ (req[r].kind = "quick" => base = Blank)
    BY <2>2
  <2> HIDE DEF base, sent
  <2>6. Fits(req[r].kind, req[r].client, base, sent, {})
    BY <2>4, <2>5, PlainFits
  <2>3. Fits(req[r].kind, req[r].client, transcript[r] \o entries, Emitted(r) \cup S!ToSet(frames), {})
    BY <2>6 DEF base, sent
  <2> QED
    BY <1>1, <2>3, OverKeeps
<1>2. CASE S!Raise(r, entries, frames, {"remove"})
  <2>1. {"remove"} \in SUBSET Marks
    BY DEF Marks
  <2> QED
    BY <1>2, <2>1, RaiseKeeps
<1> QED
  BY <1>1, <1>2 DEF S!Leave

\* What a request that is under way has left so far.
LEMMA SoFar ==
  ASSUME ChatTypes, NEW r \in Request, Under(r), req[r].pc \notin {"over", "idle"}
  PROVE  /\ transcript[r] \in {Blank, Question} /\ transcript[r] \o <<>> = transcript[r]
         /\ req[r].kind = "quick" \/ req[r].pc # "work" => transcript[r] = Blank
         /\ <<>> \in Seq(Said) /\ <<>> \in Seq(Frames) /\ S!ToSet(<<>>) = {}
<1>1. transcript[r] \o <<>> = transcript[r]
  BY ConcatEmptySeq DEF ChatTypes
<1> QED
  BY <1>1 DEF Under, S!ToSet

LEMMA RaiseHere ==
  ASSUME ChatTypes, NEW r \in Request, Under(r), req[r].pc \notin {"over", "idle"},
         NEW frames \in Seq(Frames), S!ToSet(frames) \subseteq {"intent"},
         NEW faults \in SUBSET Marks, faults \cap {"question", "model", "remove"} # {},
         S!Raise(r, <<>>, frames, faults)
  PROVE  Stands(r)
<1>1. transcript[r] \in {Blank, Question} /\ transcript[r] \o <<>> = transcript[r]
      /\ (req[r].kind = "quick" => transcript[r] = Blank) /\ <<>> \in Seq(Said)
  BY SoFar
<1> DEFINE none == <<>>
<1>2. transcript[r] \o none \in {Blank, Question} /\ none \in Seq(Said)
      /\ S!Raise(r, none, frames, faults)
  BY <1>1
<1> HIDE DEF none
<1>3. transcript[r] \o none \in Plain /\ transcript[r] \o none \notin {Replied, Reported}
  BY <1>2, Apart DEF Plain
<1>4. S!ToSet(frames) \cap {"conversation", "error", "5xx"} = {}
      /\ "final" \notin S!ToSet(frames) /\ "message" \notin S!ToSet(frames)
  OBVIOUS
<1> QED
  BY <1>1, <1>2, <1>3, <1>4, RaiseKeeps

LEMMA BeginStands ==
  ASSUME ChatInv, NEW r \in Request, S!Begin(r)
  PROVE  Stands(r)
<1> DEFINE place == IF req[r].kind = "quick" THEN "work" ELSE "classify"
           none == <<>>
<1>1. ChatTypes /\ Under(r) /\ req[r].pc \notin {"over", "idle"} /\ req[r].pc # "work"
  BY DEF ChatInv, S!Begin
<1>2. S!GoOn(r, place, none, none) /\ \A q \in Request \ {r} : q \in directories' <=> q \in directories
  BY DEF S!Begin
<1>3. none \in Seq(Said) /\ none \in Seq(Frames) /\ S!ToSet(none) \subseteq {"intent"}
      /\ transcript[r] \o none = Blank
  BY <1>1, SoFar
<1>4. place \in {"classify", "work"} /\ (place = "classify" => req[r].kind # "quick")
      /\ ~(place = "work" /\ req[r].kind # "quick")
  OBVIOUS
<1> HIDE DEF place, none
<1> QED
  BY <1>1, <1>2, <1>3, <1>4, GoesOn

LEMMA ClassifiedStands ==
  ASSUME ChatInv, NEW r \in Request, S!Classified(r)
  PROVE  Stands(r)
<1> DEFINE told == IF req[r].kind = "chat" THEN <<"intent">> ELSE <<>>
           user == <<"user">>
           reply == <<"user", "reply">>
           answer == Append(told, "message")
<1>1. ChatTypes /\ Under(r) /\ req[r].pc \notin {"over", "idle"} /\ req[r].kind # "quick"
      /\ req[r].pc = "classify"
  BY DEF ChatInv, S!Classified, Under
<1>2. transcript[r] = Blank /\ <<>> \in Seq(Frames) /\ S!ToSet(<<>>) = {}
  BY <1>1, SoFar
<1>3. told \in Seq(Frames) /\ S!ToSet(told) \subseteq {"intent"}
  <2>1. <<"intent">> \in Seq(Frames) /\ S!ToSet(<<"intent">>) = {"intent"}
    BY DEF Frames, S!ToSet
  <2> QED
    BY <1>2, <2>1
<1>4. user \in Seq(Said) /\ reply \in Seq(Said) /\ user = Question /\ reply = Replied
  BY DEF Said, Question, Replied
<1>5. transcript[r] \o user = Question /\ transcript[r] \o reply = Replied
  BY <1>2, <1>4, ConcatEmptySeq DEF Blank
<1>6. \/ S!Raise(r, <<>>, <<>>, {"model"})
      \/ S!Raise(r, <<>>, told, {"question"})
      \/ S!GoOn(r, "work", user, told) /\ directories' = directories
      \/ S!Leave(r, reply, answer)
      \/ S!Raise(r, user, told, {"report"})
  BY DEF S!Classified
<1>7. answer \in Seq(Frames) /\ S!ToSet(answer) = S!ToSet(told) \cup {"message"}
  <2>1. "message" \in Frames
    BY DEF Frames
  <2> HIDE DEF told
  <2> QED
    BY <1>3, <2>1, Joined
<1>8. {"model"} \in SUBSET Marks /\ {"question"} \in SUBSET Marks /\ {"report"} \in SUBSET Marks
  BY DEF Marks
<1> HIDE DEF told, user, reply, answer
<1>9. CASE S!Raise(r, <<>>, <<>>, {"model"})
  <2>1. {"model"} \cap {"question", "model", "remove"} # {} /\ S!ToSet(<<>>) \subseteq {"intent"}
    BY <1>2
  <2> QED
    BY <1>1, <1>2, <1>8, <1>9, <2>1, RaiseHere
<1>10. CASE S!Raise(r, <<>>, told, {"question"})
  <2>1. {"question"} \cap {"question", "model", "remove"} # {}
    OBVIOUS
  <2> QED
    BY <1>1, <1>3, <1>8, <1>10, <2>1, RaiseHere
<1>11. CASE S!GoOn(r, "work", user, told) /\ directories' = directories
  <2> DEFINE place == "work"
  <2>1. place \in {"classify", "work"} /\ place # "classify" /\ S!GoOn(r, place, user, told)
        /\ transcript[r] \o user = IF place = "work" /\ req[r].kind # "quick" THEN Question ELSE Blank
    BY <1>1, <1>5, <1>11
  <2> HIDE DEF place
  <2> QED
    BY <1>1, <1>3, <1>4, <1>11, <2>1, GoesOn
<1>12. CASE S!Leave(r, reply, answer)
  <2>1. transcript[r] \o reply \in Plain /\ S!ToSet(answer) \cap Ends # {}
        /\ S!ToSet(answer) \cap {"conversation", "error", "5xx"} = {}
        /\ "final" \notin S!ToSet(answer)
    BY <1>3, <1>5, <1>7 DEF Plain, Ends
  <2> QED
    BY <1>1, <1>4, <1>5, <1>7, <1>12, <2>1, EndKeeps
<1>13. CASE S!Raise(r, user, told, {"report"})
  <2> DEFINE faults == {"report"}
  <2>1. transcript[r] \o user \in Plain /\ transcript[r] \o user \notin {Blank, Replied, Reported}
    BY <1>5, Apart DEF Plain
  <2>2. S!ToSet(told) \cap {"conversation", "error", "5xx"} = {} /\ faults # {}
        /\ "final" \notin S!ToSet(told) /\ "message" \notin S!ToSet(told)
        /\ faults \in SUBSET Marks /\ S!Raise(r, user, told, faults)
    BY <1>3, <1>8, <1>13
  <2> HIDE DEF faults
  <2>3. /\ transcript[r] \o user = Blank => faults \cap {"question", "model", "remove"} # {}
        /\ transcript[r] \o user \in {Replied, Reported} => "remove" \in faults
        /\ "final" \in S!ToSet(told) => transcript[r] \o user = Reported
        /\ "message" \in S!ToSet(told) => transcript[r] \o user = Replied
        /\ req[r].kind = "quick" => transcript[r] = Blank
        /\ req[r].pc # "over" /\ req[r].pc # "idle"
    BY <1>1, <2>1, <2>2
  <2> QED
    BY <1>1, <1>3, <1>4, <2>1, <2>2, <2>3, RaiseKeeps
<1> QED
  BY <1>6, <1>9, <1>10, <1>11, <1>12, <1>13

LEMMA FinishStands ==
  ASSUME ChatInv, NEW r \in Request, S!Finish(r)
  PROVE  Stands(r)
<1> DEFINE none == <<>>
           final == <<"final">>
           answer == <<"report">>
<1>1. ChatTypes /\ Under(r) /\ req[r].pc \notin {"over", "idle"} /\ req[r].pc = "work"
  BY DEF ChatInv, S!Finish
<1>2. none \in Seq(Said) /\ none \in Seq(Frames) /\ S!ToSet(none) = {}
      /\ transcript[r] \o none = transcript[r]
      /\ transcript[r] = IF req[r].kind = "quick" THEN Blank ELSE Question
  BY <1>1, SoFar DEF Under
<1>3. final \in Seq(Frames) /\ S!ToSet(final) = {"final"} /\ answer \in Seq(Said)
  BY DEF Frames, Said, S!ToSet
<1>4. Emitted(r) \cap Ends = {} /\ "final" \in Ends
  BY <1>1 DEF Under, Ends
<1>5. \/ req[r].kind = "quick" /\ (S!Over(r, none, final, {}) \/ S!Raise(r, none, none, {"remove"}))
      \/ req[r].kind # "quick" /\ (S!Leave(r, answer, final) \/ S!Over(r, none, final, {"report"}))
  BY DEF S!Finish
<1>6. Question \o answer = Reported
  BY Short
<1>7. {"remove"} \in SUBSET Marks /\ {"report"} \in SUBSET Marks /\ {} \in SUBSET Marks
  BY DEF Marks
<1> HIDE DEF final, answer
<1> DEFINE sent == Emitted(r) \cup S!ToSet(final)
<1>8. sent \cap Ends # {} /\ "error" \notin sent /\ "message" \notin sent
      /\ "conversation" \notin S!ToSet(final)
  BY <1>3, <1>4 DEF Ends
<1>9. sent = Emitted(r) \cup S!ToSet(final)
  OBVIOUS
<1> HIDE DEF sent
<1>10. transcript[r] \in Plain
  BY <1>2 DEF Plain
<1>11. CASE req[r].kind = "quick" /\ S!Over(r, none, final, {})
  <2> DEFINE faults == {}
  <2>0. faults \in SUBSET Marks /\ S!Over(r, none, final, faults)
    BY <1>7, <1>11
  <2> HIDE DEF none, faults
  <2>1. Fits(req[r].kind, req[r].client, transcript[r] \o none, sent, faults)
    BY <1>2, <1>8, <1>10, <1>11, PlainFits
  <2> QED
    BY <1>1, <1>2, <1>3, <1>8, <1>9, <2>0, <2>1, OverKeeps
<1>12. CASE req[r].kind = "quick" /\ S!Raise(r, none, none, {"remove"})
  <2>1. {"remove"} \cap {"question", "model", "remove"} # {} /\ S!ToSet(none) \subseteq {"intent"}
    BY <1>2
  <2> QED
    BY <1>1, <1>2, <1>7, <1>12, <2>1, RaiseHere
<1>13. CASE req[r].kind # "quick" /\ S!Leave(r, answer, final)
  <2>1. transcript[r] \o answer = Reported /\ Reported \in Plain
        /\ S!ToSet(final) \cap Ends # {} /\ "message" \notin S!ToSet(final)
        /\ S!ToSet(final) \cap {"conversation", "error", "5xx"} = {}
    BY <1>2, <1>3, <1>6, <1>13 DEF Plain, Ends
  <2> QED
    BY <1>1, <1>3, <1>13, <2>1, EndKeeps
<1>14. CASE req[r].kind # "quick" /\ S!Over(r, none, final, {"report"})
  <2> DEFINE faults == {"report"}
  <2>0. faults \in SUBSET Marks /\ S!Over(r, none, final, faults) /\ "report" \in faults
    BY <1>7, <1>14
  <2> HIDE DEF none, faults
  <2>1. Fits(req[r].kind, req[r].client, transcript[r] \o none, sent, faults)
    BY <1>2, <1>8, <1>10, <1>14, <2>0, PlainFits
  <2> QED
    BY <1>1, <1>2, <1>3, <1>8, <1>9, <2>0, <2>1, OverKeeps
<1> QED
  BY <1>5, <1>11, <1>12, <1>13, <1>14

LEMMA WorkRaisesStands ==
  ASSUME ChatInv, NEW r \in Request, S!WorkRaises(r)
  PROVE  Stands(r)
<1>1. ChatTypes /\ Under(r) /\ req[r].pc \notin {"over", "idle"} /\ S!Raise(r, <<>>, <<>>, {"model"})
  BY DEF ChatInv, S!WorkRaises
<1>2. <<>> \in Seq(Frames) /\ S!ToSet(<<>>) \subseteq {"intent"}
  BY <1>1, SoFar
<1>3. {"model"} \cap {"question", "model", "remove"} # {} /\ {"model"} \in SUBSET Marks
  BY DEF Marks
<1> QED
  BY <1>1, <1>2, <1>3, RaiseHere

LEMMA CancelledStands ==
  ASSUME ChatInv, NEW r \in Request, S!Cancelled(r)
  PROVE  Stands(r)
<1> DEFINE none == <<>>
<1>1. ChatTypes /\ Under(r) /\ req[r].pc \notin {"over", "idle"} /\ S!Leave(r, none, none)
      /\ req[r].client = "gone"
  BY DEF ChatInv, S!Cancelled, S!CancelIsSilent
<1>2. none \in Seq(Said) /\ none \in Seq(Frames) /\ S!ToSet(none) = {} /\ none = Blank
      /\ transcript[r] \o none \in Plain
      /\ (req[r].kind = "quick" => transcript[r] = Blank)
  BY <1>1, SoFar DEF Blank, Plain, Question
<1> HIDE DEF none
<1> QED
  BY <1>1, <1>2, EndKeeps

\* The steps of the browser.
Asks(kind_) == IF kind_ = "chat" THEN <<"conversation">> ELSE <<>>

LEMMA AsksFrames ==
  ASSUME NEW kind_
  PROVE  /\ Asks(kind_) \in Seq(Frames) /\ S!ToSet(Asks(kind_)) \subseteq {"conversation"}
         /\ S!ToSet(Asks(kind_)) # {} => kind_ = "chat"
<1>1. <<"conversation">> \in Seq(Frames) /\ S!ToSet(<<"conversation">>) = {"conversation"}
  BY DEF Frames, S!ToSet
<1>2. <<>> \in Seq(Frames) /\ S!ToSet(<<>>) = {}
  BY DEF S!ToSet
<1> QED
  BY <1>1, <1>2 DEF Asks

LEMMA AskedIs ==
  ASSUME NEW r \in Request, NEW kind_ \in {"chat", "quick", "script"},
         NEW conv \in Request \cup {Old, Nobody}, NEW a, a = S!Asked(r, kind_, conv)
  PROVE  /\ a \in RequestSet /\ a.kind = kind_ /\ a.conv = conv /\ a.pc = "created"
         /\ a.client = "reads" /\ a.got = {} /\ a.faults = {} /\ a.queue = Asks(kind_)
<1> DEFINE queue == Asks(kind_)
<1>1. a = [kind |-> kind_, conv |-> conv, pc |-> "created", queue |-> queue, got |-> {},
           client |-> "reads", faults |-> {}]
  BY DEF S!Asked, Asks
<1>2. queue \in Seq(Frames)
  BY AsksFrames
<1> HIDE DEF queue
<1>3. a.kind = kind_ /\ a.conv = conv /\ a.pc = "created" /\ a.queue = queue /\ a.got = {}
      /\ a.client = "reads" /\ a.faults = {}
  BY <1>1
<1>4. a \in RequestSet
  BY <1>1, <1>2 DEF RequestSet
<1> QED
  BY <1>3, <1>4 DEF queue

\* A request that begins stands; only its client is new to the page.
LEMMA AskStands ==
  ASSUME ChatInv, NEW r \in Request, NEW kind_ \in {"chat", "quick", "script"},
         NEW conv \in Request \cup {Old, Nobody}, req[r].pc = "idle",
         req' = [req EXCEPT ![r] = S!Asked(r, kind_, conv)],
         UNCHANGED <<transcript, directories>>
  PROVE  /\ ChatTypes' \/ page' \notin PageSet
         /\ \A q \in Request : Under(q)'
         /\ req'[r].kind = kind_ /\ req'[r].conv = conv
         /\ \A q \in Request \ {r} : req'[q] = req[q]
<1>0. PICK a : a = S!Asked(r, kind_, conv)
  OBVIOUS
<1>1. a \in RequestSet /\ a.kind = kind_ /\ a.conv = conv /\ a.pc = "created"
      /\ a.client = "reads" /\ a.got = {} /\ a.faults = {}
      /\ S!ToSet(a.queue) \subseteq {"conversation"} /\ (S!ToSet(a.queue) # {} => kind_ = "chat")
  <2>1. a \in RequestSet
    BY <1>0, AskedIs
  <2>2. a.kind = kind_ /\ a.conv = conv /\ a.pc = "created"
    BY <1>0, AskedIs
  <2>3. a.client = "reads" /\ a.got = {} /\ a.faults = {}
    BY <1>0, AskedIs
  <2>4. a.queue = Asks(kind_)
    BY <1>0, AskedIs
  <2>5. S!ToSet(a.queue) \subseteq {"conversation"} /\ (S!ToSet(a.queue) # {} => kind_ = "chat")
    BY <2>4, AsksFrames
  <2> QED
    BY <2>1, <2>2, <2>3, <2>5
<1>2. req' = [req EXCEPT ![r] = a]
  BY <1>0
<1>3. req' \in [Request -> RequestSet] /\ req'[r] = a /\ \A q \in Request \ {r} : req'[q] = req[q]
  BY <1>1, <1>2 DEF ChatInv, ChatTypes
<1>4. transcript[r] = Blank
  BY DEF ChatInv, Under
<1>5. Under(r)'
  <2>1. Emitted(r)' \subseteq {"conversation"} /\ (Emitted(r)' # {} => kind_ = "chat")
    BY <1>1, <1>3 DEF Emitted
  <2> QED
    BY <1>1, <1>3, <1>4, <2>1 DEF Under, Ends
<1>6. ASSUME NEW q \in Request \ {r} PROVE Under(q)'
  <2>1. Under(q) /\ req'[q] = req[q] /\ Emitted(q)' = Emitted(q)
    BY <1>3 DEF ChatInv, Emitted
  <2> QED
    BY <2>1 DEF Under
<1> QED
  BY <1>1, <1>3, <1>5, <1>6 DEF ChatInv, ChatTypes

LEMMA SendChatKeeps ==
  ASSUME ChatInv, NEW r \in Request, S!SendChat(r)
  PROVE  ChatInv'
<1> DEFINE conv == IF page.conv = Nobody THEN r ELSE page.conv
<1>0. page \in PageSet /\ page.sending = FALSE /\ page' = [page EXCEPT !.sending = TRUE]
  BY DEF ChatInv, ChatTypes, PageSet, S!SendChat
<1>1. page' \in PageSet /\ page'.sending /\ page'.conv = page.conv /\ page'.shown = page.shown
      /\ page'.switched = page.switched /\ page'.left = page.left /\ page'.quick = page.quick
      /\ page'.running = page.running /\ page'.result = page.result
  BY <1>0 DEF PageSet
<1>2. conv \in Request \cup {Old, Nobody} /\ req[r].pc = "idle"
      /\ req' = [req EXCEPT ![r] = S!Asked(r, "chat", conv)]
      /\ UNCHANGED <<transcript, directories>>
  BY <1>0 DEF S!SendChat, PageSet
<1> HIDE DEF conv
<1>3. ChatTypes' /\ (\A q \in Request : Under(q)') /\ req'[r].kind = "chat" /\ req'[r].conv = conv
      /\ \A q \in Request \ {r} : req'[q] = req[q]
  BY <1>1, <1>2, AskStands
<1>4. \A q \in Request : Live(q, "chat")' => q = r
  BY <1>0, <1>3 DEF ChatInv, PageInv, Live
<1>5. conv = page.conv \/ page.shown = Nobody \/ page.switched
  BY DEF ChatInv, PageInv, S!PageAgrees, conv
<1>6. \A q \in Request : Live(q, "quick")' => Live(q, "quick")
  BY <1>3 DEF Live
<1> QED
  BY <1>1, <1>3, <1>4, <1>5, <1>6 DEF ChatInv, PageInv, S!PageAgrees

LEMMA RunQuickKeeps ==
  ASSUME ChatInv, NEW r \in Request, S!RunQuick(r)
  PROVE  ChatInv'
<1>0. page \in PageSet /\ page.running = FALSE
      /\ page' = [page EXCEPT !.quick = r, !.running = TRUE, !.result = Nobody]
  BY DEF ChatInv, ChatTypes, PageSet, S!RunQuick
<1>1. page' \in PageSet /\ page'.sending = page.sending /\ page'.conv = page.conv
      /\ page'.shown = page.shown /\ page'.switched = page.switched /\ page'.left = page.left
      /\ page'.quick = r /\ page'.running /\ page'.result = Nobody
  BY <1>0 DEF PageSet
<1>2. Nobody \in Request \cup {Old, Nobody} /\ req[r].pc = "idle"
      /\ req' = [req EXCEPT ![r] = S!Asked(r, "quick", Nobody)]
      /\ UNCHANGED <<transcript, directories>>
  BY DEF S!RunQuick
<1>3. ChatTypes' /\ (\A q \in Request : Under(q)') /\ req'[r].kind = "quick"
      /\ \A q \in Request \ {r} : req'[q] = req[q]
  BY <1>1, <1>2, AskStands
<1>4. \A q \in Request : Live(q, "chat")' => q # r /\ Live(q, "chat") /\ req'[q] = req[q]
  BY <1>3 DEF Live
<1>5. page.left \/ \A q \in Request : Live(q, "quick")' => q = r
  BY <1>0, <1>3 DEF ChatInv, PageInv, Live
<1> QED
  BY <1>1, <1>3, <1>4, <1>5 DEF ChatInv, PageInv, S!PageAgrees

LEMMA CallChatKeeps ==
  ASSUME ChatInv, NEW r \in Request, S!CallChat(r)
  PROVE  ChatInv'
<1>1. Old \in Request \cup {Old, Nobody} /\ req[r].pc = "idle"
      /\ req' = [req EXCEPT ![r] = S!Asked(r, "script", Old)]
      /\ UNCHANGED <<transcript, directories>> /\ page' = page
  BY DEF S!CallChat
<1>2. ChatTypes' /\ (\A q \in Request : Under(q)') /\ req'[r].kind = "script"
      /\ \A q \in Request \ {r} : req'[q] = req[q]
  BY <1>1, AskStands DEF ChatInv, ChatTypes
<1>3. \A q \in Request, type \in {"chat", "quick"} :
        Live(q, type)' => q # r /\ Live(q, type) /\ req'[q] = req[q]
  BY <1>2 DEF Live
<1> QED
  BY <1>1, <1>2, <1>3 DEF ChatInv, PageInv, S!PageAgrees

LEMMA DeliverKeeps ==
  ASSUME ChatInv, NEW r \in Request, S!Deliver(r)
  PROVE  ChatInv'
<1> DEFINE event == Head(req[r].queue)
           got == req[r].got \cup {event}
           moved == [req[r] EXCEPT !.queue = Tail(req[r].queue)]
           new == [moved EXCEPT !.got = got]
<1>1. req[r] \in RequestSet /\ req[r].queue \in Seq(Frames) /\ req[r].queue # <<>>
      /\ req[r].client = "reads" /\ req[r].kind # "script"
  BY DEF ChatInv, ChatTypes, RequestSet, S!Deliver
<1>2. event \in Frames /\ Tail(req[r].queue) \in Seq(Frames)
      /\ S!ToSet(req[r].queue) = {event} \cup S!ToSet(Tail(req[r].queue))
  BY <1>1, Headed
<1>3. req' = [req EXCEPT ![r] = new]
  BY DEF S!Deliver, S!Told
<1> HIDE DEF event
<1>4. moved \in RequestSet /\ moved.kind = req[r].kind /\ moved.conv = req[r].conv
      /\ moved.pc = req[r].pc /\ moved.client = req[r].client /\ moved.faults = req[r].faults
      /\ moved.queue = Tail(req[r].queue)
  BY <1>1, <1>2 DEF RequestSet
<1>5. got \in SUBSET Frames
  BY <1>1, <1>2 DEF RequestSet
<1> HIDE DEF moved, got
<1>6. new \in RequestSet /\ new.kind = req[r].kind /\ new.conv = req[r].conv
      /\ new.pc = req[r].pc /\ new.client = req[r].client /\ new.faults = req[r].faults
      /\ new.queue = Tail(req[r].queue) /\ new.got = got
  BY <1>4, <1>5 DEF RequestSet
<1> HIDE DEF new
<1>7. req' \in [Request -> RequestSet] /\ req'[r] = new /\ \A q \in Request \ {r} : req'[q] = req[q]
  BY <1>3, <1>6 DEF ChatInv, ChatTypes
<1>8. Emitted(r)' = Emitted(r)
  BY <1>2, <1>6, <1>7 DEF Emitted, got
<1>9. transcript' = transcript /\ directories' = directories
  BY DEF S!Deliver
<1>10. ASSUME NEW q \in Request PROVE Under(q)'
  <2>1. Under(q) /\ Emitted(q)' = Emitted(q) /\ req'[q].kind = req[q].kind
        /\ req'[q].pc = req[q].pc /\ req'[q].client = req[q].client
        /\ req'[q].faults = req[q].faults
    <3>1. CASE q = r
      BY <1>6, <1>7, <1>8, <3>1 DEF ChatInv
    <3>2. CASE q # r
      BY <1>7, <3>2 DEF ChatInv, Emitted
    <3> QED
      BY <3>1, <3>2
  <2>2. req[q].client = "ended" => req'[q] = req[q]
    BY <1>1, <1>7
  <2> QED
    BY <1>9, <2>1, <2>2 DEF Under
<1>11. \A q \in Request, type \in {"chat", "quick"} :
         (Live(q, type)' <=> Live(q, type)) /\ req'[q].conv = req[q].conv
  BY <1>6, <1>7 DEF Live
<1>12. \/ /\ event = "conversation" /\ page' = [page EXCEPT !.conv = req[r].conv]
       \/ req[r].kind = "quick" /\ page' = [page EXCEPT !.result = r]
       \/ page' = page
  BY DEF S!Deliver, event
<1>13. page \in PageSet /\ req[r].conv \in Request \cup {Old, Nobody}
  BY <1>1 DEF ChatInv, ChatTypes, RequestSet
<1>14. page' \in PageSet /\ PageInv'
  <2>1. CASE event = "conversation" /\ page' = [page EXCEPT !.conv = req[r].conv]
    <3>1. req[r].kind = "chat"
      BY <1>2, <2>1 DEF ChatInv, Under, Emitted
    <3>2. Live(r, "chat")
      BY <1>1, <3>1 DEF Live
    <3>3. page' \in PageSet /\ page'.conv = req[r].conv /\ page'.sending = page.sending
          /\ page'.shown = page.shown /\ page'.switched = page.switched
          /\ page'.left = page.left /\ page'.quick = page.quick
          /\ page'.running = page.running /\ page'.result = page.result
      BY <1>13, <2>1 DEF PageSet
    <3>4. page.shown = Nobody \/ page.switched \/ page'.conv = page.shown
      BY <3>2, <3>3 DEF ChatInv, PageInv, S!PageAgrees
    <3>5. S!PageAgrees'
      BY <3>3, <3>4 DEF ChatInv, PageInv, S!PageAgrees
    <3>6. \A q \in Request : Live(q, "chat")' => q = r
      BY <1>11, <3>2 DEF ChatInv, PageInv
    <3>7. page'.sending
      BY <3>2, <3>3 DEF ChatInv, PageInv
    <3> QED
      BY <1>11, <3>3, <3>5, <3>6, <3>7 DEF ChatInv, PageInv
  <2>2. CASE req[r].kind = "quick" /\ page' = [page EXCEPT !.result = r]
    <3>1. Live(r, "quick")
      BY <1>1, <2>2 DEF Live
    <3>2. page' \in PageSet /\ page'.conv = page.conv /\ page'.sending = page.sending
          /\ page'.shown = page.shown /\ page'.switched = page.switched
          /\ page'.left = page.left /\ page'.quick = page.quick
          /\ page'.running = page.running /\ page'.result = r
      BY <1>13, <2>2 DEF PageSet
    <3>3. page.left \/ page.quick = r
      BY <3>1 DEF ChatInv, PageInv
    <3> QED
      BY <1>11, <3>2, <3>3 DEF ChatInv, PageInv, S!PageAgrees
  <2>3. CASE page' = page
    BY <1>11, <1>13, <2>3 DEF ChatInv, PageInv, S!PageAgrees
  <2> QED
    BY <1>12, <2>1, <2>2, <2>3
<1> QED
  BY <1>7, <1>9, <1>10, <1>14 DEF ChatInv, ChatTypes

LEMMA StreamEndsKeeps ==
  ASSUME ChatInv, NEW r \in Request, S!StreamEnds(r)
  PROVE  ChatInv'
<1> DEFINE none == <<>>
           got == req[r].got \cup S!ToSet(req[r].queue)
           ended == [req[r] EXCEPT !.client = "ended"]
           emptied == [ended EXCEPT !.queue = none]
           new == [emptied EXCEPT !.got = got]
<1>1. req[r] \in RequestSet /\ req[r].queue \in Seq(Frames) /\ req[r].client = "reads"
      /\ req[r].pc = "over"
  BY DEF ChatInv, ChatTypes, RequestSet, S!StreamEnds
<1>2. got \in SUBSET Frames
  <2>1. S!ToSet(req[r].queue) \subseteq Frames
    BY <1>1, LenProperties, ElementOfSeq DEF S!ToSet
  <2> QED
    BY <1>1, <2>1 DEF RequestSet
<1>3. req' = [req EXCEPT ![r] = new]
  BY DEF S!StreamEnds
<1>4. none \in Seq(Frames) /\ S!ToSet(none) = {}
  BY DEF S!ToSet
<1>5. ended \in RequestSet /\ ended.kind = req[r].kind /\ ended.conv = req[r].conv
      /\ ended.pc = req[r].pc /\ ended.client = "ended" /\ ended.faults = req[r].faults
  BY <1>1 DEF RequestSet
<1> HIDE DEF got, none, ended
<1>6. emptied \in RequestSet /\ emptied.kind = req[r].kind /\ emptied.conv = req[r].conv
      /\ emptied.pc = req[r].pc /\ emptied.client = "ended" /\ emptied.faults = req[r].faults
      /\ emptied.queue = none
  BY <1>4, <1>5 DEF RequestSet
<1> HIDE DEF emptied
<1>7. new \in RequestSet /\ new.kind = req[r].kind /\ new.conv = req[r].conv
      /\ new.pc = req[r].pc /\ new.client = "ended" /\ new.faults = req[r].faults
      /\ new.queue = none /\ new.got = got
  BY <1>2, <1>6 DEF RequestSet
<1> HIDE DEF new
<1>8. req' \in [Request -> RequestSet] /\ req'[r] = new /\ \A q \in Request \ {r} : req'[q] = req[q]
  BY <1>3, <1>7 DEF ChatInv, ChatTypes
<1>9. Emitted(r)' = Emitted(r)
  BY <1>4, <1>7, <1>8 DEF Emitted, got
<1>10. transcript' = transcript /\ directories' = directories
  BY DEF S!StreamEnds
<1>11. Under(r)'
  <2>1. Under(r)
    BY DEF ChatInv
  <2>2. Fits(req[r].kind, "ended", transcript[r], Emitted(r), req[r].faults)
    BY <1>1, <2>1 DEF Under, Fits
  <2>3. S!ToSet(req'[r].queue) = {}
    BY <1>4, <1>7, <1>8
  <2> QED
    BY <1>1, <1>7, <1>8, <1>9, <1>10, <2>1, <2>2, <2>3 DEF Under
<1>12. ASSUME NEW q \in Request \ {r} PROVE Under(q)'
  <2>1. Under(q) /\ req'[q] = req[q] /\ Emitted(q)' = Emitted(q)
    BY <1>8 DEF ChatInv, Emitted
  <2> QED
    BY <1>10, <2>1 DEF Under
<1>13. \A q \in Request, type \in {"chat", "quick"} :
         Live(q, type)' => q # r /\ Live(q, type) /\ req'[q] = req[q]
  BY <1>7, <1>8 DEF Live
<1>14. page' \in PageSet /\ page'.conv = page.conv /\ page'.shown = page.shown
       /\ page'.switched = page.switched /\ page'.left = page.left /\ page'.quick = page.quick
       /\ page'.result = page.result
       /\ (req[r].kind # "chat" => page'.sending = page.sending)
       /\ (req[r].kind # "quick" => page'.running = page.running)
  <2> DEFINE sends == page.sending /\ req[r].kind # "chat"
             runs == page.running /\ req[r].kind # "quick"
             sent == [page EXCEPT !.sending = sends]
  <2>1. page \in PageSet /\ page' = [sent EXCEPT !.running = runs]
    BY DEF ChatInv, ChatTypes, S!StreamEnds, PageSet
  <2>2. sends \in BOOLEAN /\ (req[r].kind # "chat" => sends = page.sending)
    BY <2>1, Zenon DEF PageSet
  <2>3. runs \in BOOLEAN /\ (req[r].kind # "quick" => runs = page.running)
    BY <2>1, Zenon DEF PageSet
  <2> HIDE DEF sends, runs
  <2>4. sent \in PageSet /\ sent.conv = page.conv /\ sent.shown = page.shown
        /\ sent.switched = page.switched /\ sent.left = page.left /\ sent.quick = page.quick
        /\ sent.result = page.result /\ sent.running = page.running /\ sent.sending = sends
    BY <2>1, <2>2 DEF PageSet
  <2> HIDE DEF sent
  <2> QED
    BY <2>1, <2>2, <2>3, <2>4 DEF PageSet
<1>15. \A q \in Request : Live(q, "chat")' => page'.sending
  <2>1. ASSUME NEW q \in Request, Live(q, "chat")' PROVE req[r].kind # "chat" /\ page.sending
    BY <1>1, <1>13, <2>1 DEF ChatInv, PageInv, Live
  <2> QED
    BY <1>14, <2>1
<1>16. page.left \/ \A q \in Request : Live(q, "quick")' => page'.running /\ page.quick = q
  <2> SUFFICES ASSUME ~page.left, NEW q \in Request, Live(q, "quick")'
               PROVE  page'.running /\ page.quick = q
    OBVIOUS
  <2>1. Live(q, "quick") /\ q # r
    BY <1>13
  <2>2. page.running /\ page.quick = q
    BY <2>1 DEF ChatInv, PageInv
  <2>3. req[r].kind # "quick"
    BY <1>1, <2>1, <2>2 DEF ChatInv, PageInv, Live
  <2> QED
    BY <1>14, <2>2, <2>3
<1> QED
  BY <1>8, <1>10, <1>11, <1>12, <1>13, <1>14, <1>15, <1>16
     DEF ChatInv, ChatTypes, PageInv, S!PageAgrees

LEMMA OpenKeeps ==
  ASSUME ChatInv, NEW c \in S!Conversation, S!OpenConversation(c)
  PROVE  ChatInv'
<1> DEFINE switched == page.switched \/ page.sending
<1>1. page \in PageSet /\ c \in Request \cup {Old, Nobody}
  BY DEF ChatInv, ChatTypes, S!Conversation
<1>2. switched \in BOOLEAN /\ (page.switched => switched) /\ (page.sending => switched)
  BY <1>1 DEF PageSet
<1>3. page' = [page EXCEPT !.conv = c, !.shown = c, !.switched = switched]
  BY DEF S!OpenConversation
<1> HIDE DEF switched
<1>4. page' \in PageSet /\ page'.conv = c /\ page'.shown = c /\ page'.switched = switched
      /\ page'.sending = page.sending /\ page'.left = page.left /\ page'.quick = page.quick
      /\ page'.result = page.result /\ page'.running = page.running
  BY <1>1, <1>2, <1>3 DEF PageSet
<1>5. UNCHANGED <<req, transcript, directories>>
  BY DEF S!OpenConversation
<1>6. \A q \in Request : Under(q)' /\ Live(q, "chat")' = Live(q, "chat")
                         /\ Live(q, "quick")' = Live(q, "quick")
  BY <1>5 DEF ChatInv, Under, Emitted, Live
<1>7. PageInv'
  BY <1>2, <1>4, <1>5, <1>6 DEF ChatInv, PageInv, S!PageAgrees, Live
<1> QED
  BY <1>4, <1>5, <1>6, <1>7 DEF ChatInv, ChatTypes

LEMMA LeaveKeepsPage ==
  ASSUME ChatInv, S!LeaveService
  PROVE  ChatInv'
<1> DEFINE left == page.left \/ page.running
<1>1. page \in PageSet
  BY DEF ChatInv, ChatTypes
<1>2. left \in BOOLEAN /\ (page.left => left) /\ (page.running => left)
  BY <1>1 DEF PageSet
<1>3. page' = [page EXCEPT !.quick = Nobody, !.running = FALSE, !.result = Nobody, !.left = left]
  BY DEF S!LeaveService
<1> HIDE DEF left
<1>4. page' \in PageSet /\ page'.conv = page.conv /\ page'.shown = page.shown
      /\ page'.switched = page.switched /\ page'.sending = page.sending /\ page'.left = left
      /\ page'.quick = Nobody /\ page'.result = Nobody
  BY <1>1, <1>2, <1>3 DEF PageSet
<1>5. UNCHANGED <<req, transcript, directories>>
  BY DEF S!LeaveService
<1>6. \A q \in Request : Under(q)' /\ Live(q, "chat")' = Live(q, "chat")
                         /\ Live(q, "quick")' = Live(q, "quick")
  BY <1>5 DEF ChatInv, Under, Emitted, Live
<1>7. PageInv'
  BY <1>2, <1>4, <1>5, <1>6 DEF ChatInv, PageInv, S!PageAgrees, Live
<1> QED
  BY <1>4, <1>5, <1>6, <1>7 DEF ChatInv, ChatTypes

LEMMA ReloadKeeps ==
  ASSUME ChatInv, S!Reload
  PROVE  ChatInv'
<1>1. page' = S!FreshPage /\ UNCHANGED <<transcript, directories>>
  BY DEF S!Reload
<1>2. page' \in PageSet /\ S!PageAgrees' /\ page'.shown = Nobody /\ ~page'.left
  BY <1>1 DEF PageSet, S!FreshPage, S!PageAgrees
<1>3. ASSUME NEW q \in Request
      PROVE  /\ req'[q] \in RequestSet /\ Under(q)'
             /\ ~(Live(q, "chat")') /\ ~(Live(q, "quick")')
  <2>1. Under(q) /\ req[q] \in RequestSet
    BY DEF ChatInv, ChatTypes
  <2>2. CASE req[q].client = "reads" /\ req[q].kind # "script"
    <3> DEFINE none == <<>>
               gone == [req[q] EXCEPT !.client = "gone"]
    <3>1. req'[q] = [gone EXCEPT !.queue = none]
      BY <2>2 DEF S!Reload
    <3>2. gone \in RequestSet /\ gone.kind = req[q].kind /\ gone.pc = req[q].pc
          /\ gone.client = "gone" /\ gone.got = req[q].got /\ gone.faults = req[q].faults
      BY <2>1 DEF RequestSet
    <3>3. none \in Seq(Frames) /\ S!ToSet(none) = {}
      BY DEF S!ToSet
    <3> HIDE DEF none, gone
    <3>4. req'[q] \in RequestSet /\ req'[q].kind = req[q].kind /\ req'[q].pc = req[q].pc
          /\ req'[q].client = "gone" /\ req'[q].got = req[q].got
          /\ req'[q].faults = req[q].faults /\ req'[q].queue = none
      BY <3>1, <3>2, <3>3 DEF RequestSet
    <3>5. Emitted(q)' \subseteq Emitted(q)
      BY <3>3, <3>4 DEF Emitted
    <3>6. req[q].pc = "over"
            => Fits(req[q].kind, "gone", transcript[q], Emitted(q)', req[q].faults)
      BY <2>1, <3>5 DEF Under, Fits
    <3>7. Under(q)'
      BY <1>1, <2>1, <2>2, <3>4, <3>5, <3>6 DEF Under
    <3> QED
      BY <3>4, <3>7 DEF Live
  <2>3. CASE ~(req[q].client = "reads" /\ req[q].kind # "script")
    <3>1. req'[q] = req[q]
      BY <2>3 DEF S!Reload
    <3>2. Emitted(q)' = Emitted(q)
      BY <3>1 DEF Emitted
    <3>3. Under(q)'
      BY <1>1, <2>1, <3>1, <3>2 DEF Under
    <3> QED
      BY <2>1, <2>3, <3>1, <3>3 DEF Live
  <2> QED
    BY <2>2, <2>3
<1>4. ChatTypes'
  <2>1. req' \in [Request -> RequestSet]
    BY <1>3 DEF S!Reload
  <2> QED
    BY <1>1, <1>2, <2>1 DEF ChatInv, ChatTypes
<1> QED
  BY <1>2, <1>3, <1>4 DEF ChatInv, PageInv

LEMMA ChatInit == S!Init => ChatInv
<1> SUFFICES ASSUME S!Init PROVE ChatInv
  OBVIOUS
<1>1. \A r \in Request : req[r] = S!Idle /\ transcript[r] = <<>>
  BY DEF S!Init
<1>2. <<>> \in Seq(Frames) /\ <<>> \in Seq(Said) /\ S!ToSet(<<>>) = {}
  BY DEF S!ToSet
<1>3. S!Idle \in RequestSet
  BY <1>2 DEF S!Idle, RequestSet
<1>4. ChatTypes
  BY <1>2, <1>3 DEF S!Init, ChatTypes, PageSet, S!FreshPage
<1>5. \A r \in Request : Under(r)
  BY <1>1, <1>2 DEF S!Idle, Under, Emitted, Blank, Ends
<1>6. PageInv
  BY <1>1 DEF S!Init, PageInv, S!PageAgrees, Live, S!Idle, S!FreshPage
<1> QED
  BY <1>4, <1>5, <1>6 DEF ChatInv

LEMMA ChatStep == ChatInv /\ [S!Next]_(S!vars) => ChatInv'
<1> SUFFICES ASSUME ChatInv, [S!Next]_(S!vars) PROVE ChatInv'
  OBVIOUS
<1>1. ASSUME NEW r \in Request,
             S!Begin(r) \/ S!Classified(r) \/ S!Finish(r) \/ S!WorkRaises(r) \/ S!Cancelled(r)
      PROVE  ChatInv'
  <2>1. page' = page
    BY <1>1 DEF S!Begin, S!Classified, S!Finish, S!WorkRaises, S!Cancelled
  <2>2. Stands(r)
    BY <1>1, BeginStands, ClassifiedStands, FinishStands, WorkRaisesStands, CancelledStands
  <2> QED
    BY <2>1, <2>2, ChatStands
<1>2. ASSUME NEW r \in Request, S!SendChat(r) \/ S!RunQuick(r) \/ S!CallChat(r)
      PROVE  ChatInv'
  BY <1>2, SendChatKeeps, RunQuickKeeps, CallChatKeeps
<1>3. ASSUME NEW r \in Request, S!Deliver(r) \/ S!StreamEnds(r) PROVE ChatInv'
  BY <1>3, DeliverKeeps, StreamEndsKeeps
<1>4. CASE UNCHANGED S!vars
  <2>1. UNCHANGED <<req, transcript, directories, page>>
    BY <1>4 DEF S!vars
  <2>2. \A q \in Request : Under(q)'
    BY <2>1 DEF ChatInv, Under, Emitted
  <2>3. PageInv'
    BY <2>1 DEF ChatInv, PageInv, S!PageAgrees, Live
  <2> QED
    BY <2>1, <2>2, <2>3 DEF ChatInv, ChatTypes
<1> QED
  BY <1>1, <1>2, <1>3, <1>4, OpenKeeps, LeaveKeepsPage, ReloadKeeps DEF S!Next

LEMMA ChatMoves == [AllNext]_all => [S!Next]_(S!vars)
BY DEF AllNext, all, chat, S!vars

\* What can be read off a conversation that a request leaves.
LEMMA Answers ==
  /\ \A said \in {Reported, ReportedFailed} : "report" \in S!ToSet(said)
  /\ \A said \in {Replied, RepliedFailed} : "reply" \in S!ToSet(said)
  /\ \A said \in WithError : "error" \in S!ToSet(said)
  /\ \A said \in {Blank, Question, Replied, Reported, Failed, QuestionFailed} :
       \A i, j \in DOMAIN said :
         said[i] \in {"report", "reply", "error"} /\ said[j] \in {"report", "reply", "error"} => i = j
  /\ \A said \in {RepliedFailed, ReportedFailed} :
       \A i, j \in DOMAIN said :
         said[i] \in {"report", "reply", "error"} /\ said[j] \in {"report", "reply", "error"} /\ i < j
           => said[i] # "error" /\ said[j] = "error"
  /\ \A said \in {Question, Replied, Reported, QuestionFailed, RepliedFailed, ReportedFailed} :
       said[1] = "user"
  /\ DOMAIN Blank = {}
<1>1. DOMAIN Blank = {} /\ DOMAIN Question = {1} /\ DOMAIN Failed = {1} /\ DOMAIN Replied = {1, 2}
      /\ DOMAIN Reported = {1, 2} /\ DOMAIN QuestionFailed = {1, 2}
      /\ DOMAIN RepliedFailed = {1, 2, 3} /\ DOMAIN ReportedFailed = {1, 2, 3}
  BY DEF Blank, Question, Replied, Reported, Failed, QuestionFailed, RepliedFailed, ReportedFailed
<1>2. Question[1] = "user" /\ Failed[1] = "error"
  BY DEF Question, Failed
<1>3. Replied[1] = "user" /\ Replied[2] = "reply" /\ Reported[1] = "user" /\ Reported[2] = "report"
      /\ QuestionFailed[1] = "user" /\ QuestionFailed[2] = "error"
  BY DEF Replied, Reported, QuestionFailed
<1>4. RepliedFailed[1] = "user" /\ RepliedFailed[2] = "reply" /\ RepliedFailed[3] = "error"
  BY DEF RepliedFailed
<1>5. ReportedFailed[1] = "user" /\ ReportedFailed[2] = "report" /\ ReportedFailed[3] = "error"
  BY DEF ReportedFailed
<1>6. \A s : S!ToSet(s) = {s[i] : i \in DOMAIN s}
  BY DEF S!ToSet
<1> HIDE DEF S!ToSet
<1>7. "report" \in S!ToSet(Reported) /\ "report" \in S!ToSet(ReportedFailed)
      /\ "reply" \in S!ToSet(Replied) /\ "reply" \in S!ToSet(RepliedFailed)
  BY <1>1, <1>3, <1>4, <1>5, <1>6
<1>8. "error" \in S!ToSet(Failed) /\ "error" \in S!ToSet(QuestionFailed)
      /\ "error" \in S!ToSet(RepliedFailed) /\ "error" \in S!ToSet(ReportedFailed)
  BY <1>1, <1>2, <1>3, <1>4, <1>5, <1>6
<1>9. ASSUME NEW said \in {Blank, Question, Replied, Reported, Failed, QuestionFailed},
             NEW i \in DOMAIN said, NEW j \in DOMAIN said,
             said[i] \in {"report", "reply", "error"}, said[j] \in {"report", "reply", "error"}
      PROVE  i = j
  <2>1. CASE said = Blank \/ said = Question \/ said = Failed
    BY <1>1, <1>9, <2>1
  <2>2. CASE said = Replied \/ said = Reported \/ said = QuestionFailed
    <3>1. i \in {1, 2} /\ j \in {1, 2} /\ said[1] = "user"
      BY <1>1, <1>3, <1>9, <2>2
    <3> QED
      BY <1>9, <3>1
  <2> QED
    BY <1>9, <2>1, <2>2
<1>10. ASSUME NEW said \in {RepliedFailed, ReportedFailed},
              NEW i \in DOMAIN said, NEW j \in DOMAIN said, i < j,
              said[i] \in {"report", "reply", "error"}, said[j] \in {"report", "reply", "error"}
       PROVE  said[i] # "error" /\ said[j] = "error"
  <2>1. i \in {1, 2, 3} /\ j \in {1, 2, 3} /\ said[1] = "user" /\ said[2] # "error"
        /\ said[3] = "error"
    BY <1>1, <1>4, <1>5, <1>10
  <2>2. i # 1
    BY <1>10, <2>1
  <2>3. i = 2 /\ j = 3
    BY <1>10, <2>1, <2>2
  <2> QED
    BY <2>1, <2>3
<1>11. \A said \in {Question, Replied, Reported, QuestionFailed, RepliedFailed, ReportedFailed} :
         said[1] = "user"
  BY <1>2, <1>3, <1>4, <1>5
<1> QED
  BY <1>1, <1>7, <1>8, <1>9, <1>10, <1>11 DEF WithError

\* What the page shows is in the conversation, an answer follows its question and
\* is the only one, and a stream that ends has said how; each exception is that of
\* a fault of the database, the model or the disk, or of a page that was left
\* (ChatService, the routers of /chat and /diagnose, and useChat).
THEOREM ChatKept == AllSpec => []ChatIsRecorded
<1>1. ChatInv => ChatIsRecorded
  <2> SUFFICES ASSUME ChatInv, NEW r \in Request
               PROVE  S!ShownIsStored(r) /\ S!OneAnswer(r) /\ S!StreamTells(r)
    BY DEF ChatInv, PageInv, ChatIsRecorded, S!ChatIsRecorded
  <2> DEFINE said == transcript[r]
             over == req[r].pc = "over"
  <2>1. Under(r) /\ req[r].got \subseteq Emitted(r)
        /\ (req[r].client = "ended" => req[r].got = Emitted(r))
    BY DEF ChatInv, Under, Emitted
  <2>2. over => Fits(req[r].kind, req[r].client, said, Emitted(r), req[r].faults)
    BY <2>1 DEF Under
  <2>3. ~over => said \in {Blank, Question} /\ Emitted(r) \cap Ends = {} /\ req[r].client # "ended"
    BY <2>1 DEF Under
  <2>4. S!ShownIsStored(r)
    <3> SUFFICES ASSUME req[r].kind = "chat"
                 PROVE  /\ "final" \in req[r].got
                              => "report" \in S!ToSet(said) \/ "report" \in req[r].faults
                        /\ "message" \in req[r].got => "reply" \in S!ToSet(said)
                        /\ "error" \in req[r].got => "error" \in S!ToSet(said)
      BY DEF S!ShownIsStored
    <3>1. CASE ~over
      BY <2>1, <2>3, <3>1 DEF Ends
    <3>2. CASE over
      <4>1. /\ "final" \in req[r].got
                 => "report" \in req[r].faults \/ said \in {Reported, ReportedFailed}
            /\ "message" \in req[r].got => said \in {Replied, RepliedFailed}
            /\ "error" \in req[r].got => said \in WithError
        BY <2>1, <2>2, <3>2 DEF Fits
      <4> HIDE DEF said
      <4> QED
        BY <4>1, Answers
    <3> QED
      BY <3>1, <3>2
  <2>5. S!OneAnswer(r)
    <3> DEFINE answers == {i \in DOMAIN said : said[i] \in {"report", "reply", "error"}}
    <3>1. said \in Plain \cup WithError
      BY <2>2, <2>3 DEF Fits, Plain
    <3>2. said \in {RepliedFailed, ReportedFailed} => "remove" \in req[r].faults
      <4>1. CASE over
        BY <2>2, <4>1 DEF Fits
      <4>2. CASE ~over
        BY <2>3, <4>2, Apart DEF WithError
      <4> QED
        BY <4>1, <4>2
    <3>3. said = Failed => req[r].faults \cap {"question", "model", "remove"} # {}
      <4>1. CASE over
        BY <2>2, <4>1 DEF Fits
      <4>2. CASE ~over
        BY <2>3, <4>2, Apart DEF WithError
      <4> QED
        BY <4>1, <4>2
    <3> HIDE DEF said
    <3>4. ASSUME NEW i \in answers, NEW j \in answers, i < j
          PROVE  said[i] # "error" /\ said[j] = "error" /\ "remove" \in req[r].faults
      <4>1. CASE said \in {RepliedFailed, ReportedFailed}
        BY <3>2, <3>4, <4>1, Answers
      <4>2. CASE said \notin {RepliedFailed, ReportedFailed}
        <5>1. said \in {Blank, Question, Replied, Reported, Failed, QuestionFailed}
          BY <3>1, <4>2 DEF Plain, WithError
        <5>2. i = j
          BY <5>1, Answers
        <5>3. i \in Int
          BY DEF said, ChatInv, ChatTypes
        <5> QED
          BY <3>4, <5>2, <5>3
      <4> QED
        BY <4>1, <4>2
    <3>5. ASSUME answers # {}
          PROVE  \/ said[1] = "user" \/ req[r].faults \cap {"question", "model"} # {}
                 \/ said = <<"error">> /\ "remove" \in req[r].faults
      <4>1. CASE said = Blank
        BY <3>5, <4>1, Answers
      <4>2. CASE said = Failed
        <5>1. said = <<"error">>
          BY <4>2 DEF Failed
        <5> QED
          BY <3>3, <4>2, <5>1
      <4>3. CASE said # Blank /\ said # Failed
        BY <3>1, <4>3, Answers DEF Plain, WithError
      <4> QED
        BY <4>1, <4>2, <4>3
    <3> QED
      BY <3>4, <3>5 DEF S!OneAnswer, said
  <2>6. S!StreamTells(r)
    <3>1. req[r].client = "ended" => req[r].got \cap {"final", "message", "error", "5xx"} # {}
                                     \/ "error" \in req[r].faults
      <4> SUFFICES ASSUME req[r].client = "ended"
                   PROVE  req[r].got \cap Ends # {} \/ "error" \in req[r].faults
        BY DEF Ends
      <4> QED
        BY <2>1, <2>2, <2>3 DEF Fits
    <3>2. over /\ req[r].faults = {}
            => said \in {<<>>, <<"user">>, <<"user", "report">>, <<"user", "reply">>}
      BY <2>2 DEF Fits, Plain, Blank, Question, Replied, Reported
    <3>3. over => r \notin directories \/ "remove" \in req[r].faults
      BY <2>1 DEF Under
    <3> QED
      BY <3>1, <3>2, <3>3 DEF S!StreamTells
  <2> QED
    BY <2>4, <2>5, <2>6
<1> QED
  BY <1>1, ChatInit, ChatStep, ChatMoves, PTL DEF AllSpec, AllInit

-----------------------------------------------------------------------------
(* Investigation: the calls of a diagnosis, its budget and its conclusion.  *)

Reached == I!Scripted \cup {"INVESTIGATE", "VERIFY", "REPORT", "END"}
FindTypes ==
  /\ pos \in Reached /\ opened \in BOOLEAN /\ crashes \in Nat
  /\ records \in [DOMAIN records -> Nat \ {0}]
  /\ shown \in [DOMAIN shown -> {"found", "empty"}]
  /\ DOMAIN shown \subseteq DOMAIN records /\ pending \subseteq stale
  /\ running \cap (stale \cup DOMAIN shown) = {}
  /\ verdict \in {"none", "confirmed", "insufficient_evidence", "failed"}
  /\ pos # "INVESTIGATE" => pending = {}
  /\ pos \in I!Scripted /\ ~opened => running = {}
  /\ pos \in {"VERIFY", "REPORT", "END"} => running = {}

\* The calls under way will have a row of the timeline each, at most.
WithinBudget ==
  /\ IsFiniteSet(DOMAIN records) /\ IsFiniteSet(running)
  /\ Sum(records, DOMAIN records) + Cardinality(running) <= MaxSteps

\* The scripted calls about a service that is known.
ScanCalls == {I!ToolCall("list_deployments", "all"), I!ToolCall("list_pods", "all")}
PodsCall == I!ToolCall("list_pods", "service")
BaseCalls == {I!ToolCall("get_service_health", "service"), I!ToolCall("query_metrics", "p95"),
              I!ToolCall("query_metrics", "errors"), I!ToolCall("query_metrics", "resources"),
              I!ToolCall("query_logs", "service")}
ScriptedCalls == ScanCalls \cup {PodsCall} \cup BaseCalls
AllOnce == \A k \in DOMAIN records : records[k] = 1
Made == DOMAIN records \cup running

\* Where the script is, and what it has called by then.
Observed ==
  /\ pos \in I!Scripted => Made \subseteq ScriptedCalls
  /\ AllOnce /\ (crashes = 0 \/ MaxSteps >= 12) =>
       /\ pos = "PODS" /\ opened => PodsCall \in Made
       /\ pos \in {"BASELINE", "INVESTIGATE", "VERIFY", "REPORT"} => PodsCall \in DOMAIN records
       /\ pos = "BASELINE" /\ opened => BaseCalls \subseteq Made
       /\ pos \in {"INVESTIGATE", "VERIFY", "REPORT"} => BaseCalls \subseteq DOMAIN records
  /\ crashes = 0 =>
       /\ pos \in {"SYSTEM_SCAN", "TRIAGE"} \/ (pos = "PODS" /\ ~opened) => Made \subseteq ScanCalls
       /\ pos = "PODS" \/ (pos = "BASELINE" /\ ~opened) => Made \subseteq ScanCalls \cup {PodsCall}

Concluded ==
  pos = "REPORT" /\ synthesis.rule \notin {"none", "model", "deadline"} => I!Passed(synthesis)

FindInv == FindTypes /\ WithinBudget /\ (case.known => Observed) /\ Concluded

-----------------------------------------------------------------------------
\* The timeline is the sum of its records.
LEMMA StepsIsSum == I!Steps = Sum(records, DOMAIN records)
<1> DEFINE Q(g) == g = [t \in SUBSET (DOMAIN records) |->
                IF t = {} THEN 0 ELSE records[Chosen(t)] + g[t \ {Chosen(t)}]]
<1>1. I!Steps = (CHOOSE g : Q(g))[DOMAIN records]
  BY DEF I!Steps, I!FoldFunction, I!FoldFunctionOnSet, I!MapThenFoldSet, Chosen
<1> QED
  BY <1>1 DEF Sum, Counts

LEMMA BudgetMeans == FindTypes /\ WithinBudget => I!BudgetKept /\ I!Steps \in Nat
<1> SUFFICES ASSUME FindTypes, WithinBudget PROVE I!BudgetKept /\ I!Steps \in Nat
  OBVIOUS
<1>1. records \in [DOMAIN records -> Nat]
  BY DEF FindTypes
<1>2. Sum(records, DOMAIN records) \in Nat
  <2>1. PICK g : SumsTo(g, records, DOMAIN records)
    BY <1>1, SumOnIs DEF WithinBudget
  <2> QED
    BY <2>1 DEF SumsTo
<1>3. Cardinality(running) \in Nat
  BY FS_CardinalityType DEF WithinBudget
<1>4. MaxSteps \in Nat
  BY StepsAssumption DEF I!StepsAssumption
<1> QED
  BY <1>2, <1>3, <1>4, StepsIsSum DEF WithinBudget, I!BudgetKept

\* An answer adds one.
LEMMA AnswerCounts ==
  ASSUME FindTypes, WithinBudget, NEW c,
         records' = [x \in DOMAIN records \cup {c} |->
                       IF x = c THEN (IF c \in DOMAIN records THEN records[c] + 1 ELSE 1)
                                ELSE records[x]]
  PROVE  /\ DOMAIN records' = DOMAIN records \cup {c} /\ IsFiniteSet(DOMAIN records')
         /\ records' \in [DOMAIN records' -> Nat \ {0}]
         /\ Sum(records', DOMAIN records') = Sum(records, DOMAIN records) + 1
         /\ AllOnce' => AllOnce /\ c \notin DOMAIN records
<1>1. records \in [DOMAIN records -> Nat] /\ DOMAIN records' = DOMAIN records \cup {c}
  BY DEF FindTypes
<1>2. records' \in [DOMAIN records' -> Nat \ {0}] /\ records' \in [DOMAIN records' -> Nat]
  BY DEF FindTypes
<1>3. IsFiniteSet(DOMAIN records')
  BY <1>1, FS_AddElement DEF WithinBudget
<1>4. \A y \in DOMAIN records \ {c} : records'[y] = records[y]
  OBVIOUS
<1>5. CASE c \in DOMAIN records
  <2>1. DOMAIN records' = DOMAIN records /\ records'[c] = records[c] + 1
    BY <1>1, <1>5
  <2>2. /\ Sum(records, DOMAIN records) \in Nat /\ Sum(records', DOMAIN records) \in Nat
        /\ Sum(records', DOMAIN records) + records[c] = Sum(records, DOMAIN records) + records'[c]
    BY <1>1, <1>2, <1>4, <1>5, <2>1, SumChanges DEF WithinBudget
  <2>3. records[c] \in Nat \ {0}
    BY <1>5 DEF FindTypes
  <2>4. Sum(records', DOMAIN records') = Sum(records, DOMAIN records) + 1
    BY <2>1, <2>2, <2>3
  <2>5. ~AllOnce'
    <3>1. c \in DOMAIN records' /\ records'[c] # 1
      BY <1>5, <2>1, <2>3
    <3> QED
      BY <3>1 DEF AllOnce
  <2> QED
    BY <1>1, <1>2, <1>3, <2>4, <2>5
<1>6. CASE c \notin DOMAIN records
  <2>1. records'[c] = 1
    BY <1>6
  <2>2. /\ Sum(records, DOMAIN records) \in Nat
        /\ Sum(records', DOMAIN records \cup {c}) = Sum(records, DOMAIN records) + records'[c]
    BY <1>1, <1>2, <1>4, <1>6, SumGrows DEF WithinBudget
  <2>3. Sum(records', DOMAIN records') = Sum(records, DOMAIN records) + 1
    BY <1>1, <2>1, <2>2
  <2>4. AllOnce' => AllOnce
    BY <1>1, <1>4, <1>6 DEF AllOnce
  <2> QED
    BY <1>1, <1>2, <1>3, <1>6, <2>3, <2>4
<1> QED
  BY <1>5, <1>6

\* A group makes no more calls than the budget has left.
GroupCalls ==
  ScriptedCalls \cup
    {I!ToolCall("query_metrics", "up"), I!ToolCall("query_metrics", "all_errors"),
     I!ToolCall("query_metrics", "all_resources"), I!ToolCall("query_logs", "all_errors"),
     I!ToolCall("query_logs", "all")}
LEMMA RangeIsShort ==
  ASSUME NEW s \in Seq(GroupCalls), NEW k \in Nat, k <= Len(s)
  PROVE  /\ IsFiniteSet(I!Range(SubSeq(s, 1, k))) /\ Cardinality(I!Range(SubSeq(s, 1, k))) <= k
         /\ k = Len(s) => I!Range(SubSeq(s, 1, k)) = {s[i] : i \in 1..Len(s)}
         /\ I!Range(SubSeq(s, 1, k)) \subseteq {s[i] : i \in 1..Len(s)}
<1> DEFINE f == SubSeq(s, 1, k)
           R == I!Range(f)
<1>1. f \in [1..k -> GroupCalls] /\ \A i \in 1..k : f[i] = s[i]
  <2>1. 1..k \subseteq 1..Len(s) /\ s \in [1..Len(s) -> GroupCalls]
    OBVIOUS
  <2>2. \A i \in 1..k : s[i] \in GroupCalls
    BY <2>1
  <2>3. f \in Seq(GroupCalls) /\ Len(f) = k /\ \A i \in 1..k : f[i] = s[i]
    BY <2>2, SubSeqProperties
  <2> HIDE DEF f
  <2> QED
    BY <2>3
<1>2. R = {f[i] : i \in 1..k}
  BY <1>1 DEF I!Range
<1>3. f \in Surjection(1..k, R)
  BY <1>1, <1>2 DEF Surjection
<1>4. IsFiniteSet(1..k) /\ Cardinality(1..k) = k
  BY FS_Interval
<1>5. R \subseteq {s[i] : i \in 1..Len(s)}
  BY <1>1, <1>2
<1>6. k = Len(s) => R = {s[i] : i \in 1..Len(s)}
  BY <1>1, <1>2
<1> HIDE DEF f
<1>7. IsFiniteSet(R) /\ Cardinality(R) <= Cardinality(1..k)
  BY <1>3, <1>4, FS_Surjection
<1> QED
  BY <1>4, <1>5, <1>6, <1>7 DEF f

LEMMA GroupIs ==
  /\ I!Group \in Seq(GroupCalls)
  /\ pos = "PODS" /\ case.known => I!Group = <<PodsCall>>
  /\ pos = "BASELINE" /\ case.known =>
       Len(I!Group) = 5 /\ {I!Group[i] : i \in 1..Len(I!Group)} = BaseCalls
  /\ case.known /\ pos \in I!Scripted =>
       {I!Group[i] : i \in 1..Len(I!Group)} \subseteq ScriptedCalls
  /\ case.known /\ pos \in {"SYSTEM_SCAN", "TRIAGE"} =>
       {I!Group[i] : i \in 1..Len(I!Group)} \subseteq ScanCalls
<1> DEFINE mine == {I!Group[i] : i \in 1..Len(I!Group)}
<1>1. I!Group \in Seq(GroupCalls)
  <2> DEFINE K(t, a) == I!ToolCall(t, a)
             S2 == <<K("list_deployments", "all"), K("list_pods", "all")>>
             S5 == <<K("get_service_health", "service"), K("query_metrics", "p95"),
                     K("query_metrics", "errors"), K("query_metrics", "resources"),
                     K("query_logs", "service")>>
             S4 == <<K("query_metrics", "up"), K("query_metrics", "all_errors"),
                     K("query_metrics", "all_resources"), K("query_logs", "all_errors")>>
             U2 == <<K("query_metrics", "up"), K("query_logs", "all")>>
  <2>1. I!Group \in {<<>>, S2, <<K("list_deployments", "all")>>, <<K("list_pods", "service")>>, S5, S4, U2}
    BY DEF I!Group
  <2>2. /\ K("list_deployments", "all") \in GroupCalls /\ K("list_pods", "all") \in GroupCalls
        /\ K("list_pods", "service") \in GroupCalls /\ K("get_service_health", "service") \in GroupCalls
    BY DEF GroupCalls, ScriptedCalls, ScanCalls, PodsCall, BaseCalls
  <2>3. /\ K("query_metrics", "p95") \in GroupCalls /\ K("query_metrics", "errors") \in GroupCalls
        /\ K("query_metrics", "resources") \in GroupCalls /\ K("query_logs", "service") \in GroupCalls
    BY DEF GroupCalls, ScriptedCalls, ScanCalls, PodsCall, BaseCalls
  <2>4. /\ K("query_metrics", "up") \in GroupCalls /\ K("query_metrics", "all_errors") \in GroupCalls
        /\ K("query_metrics", "all_resources") \in GroupCalls /\ K("query_logs", "all_errors") \in GroupCalls
        /\ K("query_logs", "all") \in GroupCalls
    BY DEF GroupCalls, ScriptedCalls, ScanCalls, PodsCall, BaseCalls
  <2>5. \A a, b, c, d, e \in GroupCalls :
          /\ <<>> \in Seq(GroupCalls) /\ <<a>> \in Seq(GroupCalls) /\ <<a, b>> \in Seq(GroupCalls)
          /\ <<a, b, c, d>> \in Seq(GroupCalls) /\ <<a, b, c, d, e>> \in Seq(GroupCalls)
    OBVIOUS
  <2> HIDE DEF K
  <2>6. S2 \in Seq(GroupCalls) /\ U2 \in Seq(GroupCalls)
    BY <2>2, <2>4, <2>5, Zenon
  <2>7. S4 \in Seq(GroupCalls)
    BY <2>4, <2>5, Zenon
  <2>8. S5 \in Seq(GroupCalls)
    BY <2>2, <2>3, <2>5, Zenon
  <2>9. /\ <<K("list_deployments", "all")>> \in Seq(GroupCalls)
        /\ <<K("list_pods", "service")>> \in Seq(GroupCalls) /\ <<>> \in Seq(GroupCalls)
    <3>1. \A a \in GroupCalls : <<a>> \in Seq(GroupCalls)
      OBVIOUS
    <3> QED
      BY <2>2, <3>1
  <2> HIDE DEF S2, S4, S5, U2
  <2> QED
    BY <2>1, <2>6, <2>7, <2>8, <2>9
<1>2. pos = "PODS" /\ case.known => I!Group = <<PodsCall>>
  BY DEF I!Group, PodsCall
<1>3. ASSUME pos = "BASELINE", case.known PROVE Len(I!Group) = 5 /\ mine = BaseCalls
  <2>1. I!Group = <<I!ToolCall("get_service_health", "service"), I!ToolCall("query_metrics", "p95"),
                    I!ToolCall("query_metrics", "errors"), I!ToolCall("query_metrics", "resources"),
                    I!ToolCall("query_logs", "service")>>
    BY <1>3 DEF I!Group
  <2>2. 1..Len(I!Group) = {1, 2, 3, 4, 5} /\ Len(I!Group) = 5
    BY <2>1
  <2> QED
    BY <2>1, <2>2 DEF BaseCalls
<1>4. ASSUME case.known, pos \in {"SYSTEM_SCAN", "TRIAGE"} PROVE mine \subseteq ScanCalls
  <2>1. I!Group = <<>> \/ I!Group = <<I!ToolCall("list_deployments", "all"), I!ToolCall("list_pods", "all")>>
    BY <1>4 DEF I!Group
  <2>2. CASE I!Group = <<>>
    BY <2>2
  <2>3. CASE I!Group = <<I!ToolCall("list_deployments", "all"), I!ToolCall("list_pods", "all")>>
    <3>1. 1..Len(I!Group) = {1, 2}
      BY <2>3
    <3> QED
      BY <2>3, <3>1 DEF ScanCalls
  <2> QED
    BY <2>1, <2>2, <2>3
<1>5. ASSUME case.known, pos = "PODS" PROVE mine \subseteq ScriptedCalls
  <2>1. I!Group = <<PodsCall>> /\ 1..Len(I!Group) = {1}
    BY <1>2, <1>5
  <2> QED
    BY <2>1 DEF ScriptedCalls
<1>6. I!Scripted = {"SYSTEM_SCAN", "TRIAGE", "PODS", "BASELINE"}
  BY DEF I!Scripted, I!NextPhase
<1> QED
  BY <1>1, <1>2, <1>3, <1>4, <1>5, <1>6 DEF ScriptedCalls

\* What a group is granted, and when it is granted the whole.
LEMMA SelectedIs ==
  ASSUME FindTypes, WithinBudget
  PROVE  /\ IsFiniteSet(I!Selected) /\ I!Steps + Cardinality(I!Selected) <= MaxSteps
         /\ I!Selected \subseteq {I!Group[i] : i \in 1..Len(I!Group)}
         /\ I!Steps + Len(I!Group) <= MaxSteps =>
              I!Selected = {I!Group[i] : i \in 1..Len(I!Group)}
<1> DEFINE left == MaxSteps - I!Steps
           k == IF left < Len(I!Group) THEN left ELSE Len(I!Group)
<1>1. I!Steps \in Nat /\ I!Steps <= MaxSteps /\ MaxSteps \in Nat
  BY BudgetMeans, StepsAssumption DEF I!BudgetKept, I!StepsAssumption
<1>2. I!Group \in Seq(GroupCalls) /\ Len(I!Group) \in Nat
  BY GroupIs
<1>3. k \in Nat /\ k <= Len(I!Group) /\ I!Steps + k <= MaxSteps
      /\ (I!Steps + Len(I!Group) <= MaxSteps => k = Len(I!Group))
  BY <1>1, <1>2
<1>4. I!Selected = I!Range(SubSeq(I!Group, 1, k))
  BY DEF I!Selected
<1> HIDE DEF k
<1>5. /\ IsFiniteSet(I!Selected) /\ Cardinality(I!Selected) <= k
      /\ I!Selected \subseteq {I!Group[i] : i \in 1..Len(I!Group)}
      /\ k = Len(I!Group) => I!Selected = {I!Group[i] : i \in 1..Len(I!Group)}
  BY <1>2, <1>3, <1>4, RangeIsShort
<1>6. Cardinality(I!Selected) \in Nat
  BY <1>5, FS_CardinalityType
<1>7. I!Steps + Cardinality(I!Selected) <= MaxSteps
  BY <1>1, <1>3, <1>5, <1>6
<1> QED
  BY <1>3, <1>5, <1>7

\* When every call was made once, the timeline has as many rows as calls.
LEMMA OnceIsCounted ==
  ASSUME FindTypes, WithinBudget, AllOnce
  PROVE  I!Steps = Cardinality(DOMAIN records) /\ I!Steps \in Nat
<1>1. records \in [DOMAIN records -> Nat] /\ \A x \in DOMAIN records : records[x] = 1
  BY DEF FindTypes, AllOnce
<1> QED
  BY <1>1, SumOfOnes, StepsIsSum, BudgetMeans DEF WithinBudget

AtMost(T, n) == IsFiniteSet(T) /\ Cardinality(T) \in Nat /\ Cardinality(T) <= n
LEMMA OneMore ==
  ASSUME NEW T, NEW n \in Nat, AtMost(T, n), NEW a
  PROVE  AtMost(T \cup {a}, n + 1)
<1>1. IsFiniteSet(T) /\ Cardinality(T) \in Nat /\ Cardinality(T) <= n
  BY DEF AtMost
<1>2. IsFiniteSet(T \cup {a}) /\ Cardinality(T \cup {a}) \in {Cardinality(T), Cardinality(T) + 1}
  BY <1>1, FS_AddElement
<1> QED
  BY <1>1, <1>2 DEF AtMost

LEMMA ScriptedCount ==
  /\ IsFiniteSet(ScriptedCalls) /\ Cardinality(ScriptedCalls) <= 8
  /\ IsFiniteSet(ScanCalls) /\ Cardinality(ScanCalls) <= 2
  /\ IsFiniteSet(ScanCalls \cup {PodsCall}) /\ Cardinality(ScanCalls \cup {PodsCall}) <= 3
<1>1. AtMost({}, 0)
  BY FS_EmptySet DEF AtMost
<1>2. ASSUME NEW T, NEW n \in Nat, AtMost(T, n), NEW a, NEW b PROVE AtMost(T \cup {a, b}, n + 2)
  <2>1. AtMost(T \cup {a}, n + 1)
    BY <1>2, OneMore
  <2>2. n + 1 \in Nat /\ (n + 1) + 1 = n + 2
    OBVIOUS
  <2>3. T \cup {a, b} = (T \cup {a}) \cup {b}
    OBVIOUS
  <2>4. AtMost((T \cup {a}) \cup {b}, (n + 1) + 1)
    BY <2>1, <2>2, OneMore
  <2> QED
    BY <2>2, <2>3, <2>4
<1>3. AtMost(ScanCalls, 2)
  <2>1. AtMost({} \cup ScanCalls, 0 + 2)
    BY <1>1, <1>2 DEF ScanCalls
  <2> QED
    BY <2>1
<1>4. AtMost(ScanCalls \cup {PodsCall}, 3)
  <2>1. AtMost(ScanCalls \cup {PodsCall}, 2 + 1)
    BY <1>3, OneMore
  <2> QED
    BY <2>1
<1>5. AtMost((ScanCalls \cup {PodsCall}) \cup BaseCalls, 8)
  <2> DEFINE T == ScanCalls \cup {PodsCall}
             t1 == I!ToolCall("get_service_health", "service")
             t2 == I!ToolCall("query_metrics", "p95")
             t3 == I!ToolCall("query_metrics", "errors")
             t4 == I!ToolCall("query_metrics", "resources")
             t5 == I!ToolCall("query_logs", "service")
  <2>1. T \cup BaseCalls = (((T \cup {t1, t2}) \cup {t3}) \cup {t4}) \cup {t5}
    BY DEF BaseCalls
  <2> HIDE DEF T, t1, t2, t3, t4, t5
  <2>2. AtMost(T \cup {t1, t2}, 5)
    <3>1. AtMost(T \cup {t1, t2}, 3 + 2)
      BY <1>2, <1>4 DEF T
    <3> QED
      BY <3>1
  <2>3. AtMost((T \cup {t1, t2}) \cup {t3}, 6)
    <3>1. AtMost((T \cup {t1, t2}) \cup {t3}, 5 + 1)
      BY OneMore, <2>2
    <3> QED
      BY <3>1
  <2>4. AtMost(((T \cup {t1, t2}) \cup {t3}) \cup {t4}, 7)
    <3>1. AtMost(((T \cup {t1, t2}) \cup {t3}) \cup {t4}, 6 + 1)
      BY OneMore, <2>3
    <3> QED
      BY <3>1
  <2>5. AtMost((((T \cup {t1, t2}) \cup {t3}) \cup {t4}) \cup {t5}, 8)
    <3>1. AtMost((((T \cup {t1, t2}) \cup {t3}) \cup {t4}) \cup {t5}, 7 + 1)
      BY OneMore, <2>4
    <3> QED
      BY <3>1
  <2> QED
    BY <2>1, <2>5 DEF T
<1>6. ScriptedCalls = (ScanCalls \cup {PodsCall}) \cup BaseCalls
  BY DEF ScriptedCalls
<1> QED
  BY <1>3, <1>4, <1>5, <1>6 DEF AtMost

-----------------------------------------------------------------------------
\* Every conclusion of a rule passes the gate: its items were found, one of
\* them is direct, and they are of different tools.
LEMMA TwoAreMany ==
  ASSUME NEW W, IsFiniteSet(W), NEW x \in W, NEW y \in W, x # y
  PROVE  Cardinality(W) >= 2
<1>1. IsFiniteSet(W \ {x}) /\ Cardinality(W \ {x}) = Cardinality(W) - 1
  BY FS_RemoveElement
<1>2. W \ {x} # {} /\ Cardinality(W \ {x}) \in Nat /\ Cardinality(W) \in Nat
  BY <1>1, FS_CardinalityType
<1>3. Cardinality(W \ {x}) # 0
  BY <1>1, <1>2, FS_EmptySet
<1> QED
  BY <1>1, <1>2, <1>3

LEMMA FewAreFinite == \A a, b, c, d : IsFiniteSet({a, b}) /\ IsFiniteSet({a, b, c})
                                      /\ IsFiniteSet({a, b, c, d})
<1> TAKE a, b, c, d
<1>1. IsFiniteSet({a} \cup {b})
  BY FS_Singleton, FS_AddElement
<1>2. IsFiniteSet({a, b})
  <2>1. {a} \cup {b} = {a, b}
    OBVIOUS
  <2> QED
    BY <1>1, <2>1
<1>3. IsFiniteSet({a, b, c})
  <2>1. {a, b} \cup {c} = {a, b, c}
    OBVIOUS
  <2> QED
    BY <1>2, <2>1, FS_AddElement
<1>4. IsFiniteSet({a, b, c, d})
  <2>1. {a, b, c} \cup {d} = {a, b, c, d}
    OBVIOUS
  <2> QED
    BY <1>3, <2>1, FS_AddElement
<1> QED
  BY <1>2, <1>3, <1>4

\* What a rule cites that holds against the gate.
Holds(cited) ==
  /\ IsFiniteSet(cited) /\ cited \subseteq I!Found
  /\ \E c \in cited : I!IsDirect(c)
  /\ \E c \in cited, d \in cited : c.tool # d.tool

LEMMA HoldsPasses ==
  ASSUME NEW cited, Holds(cited), NEW s, s.cited = cited, ~s.contradicted
  PROVE  I!Passed(s)
<1>1. Cardinality(cited) >= 2
  <2>1. PICK c \in cited, d \in cited : c.tool # d.tool
    BY DEF Holds
  <2>2. c # d
    BY <2>1
  <2> QED
    BY <2>2, TwoAreMany DEF Holds
<1>2. \A c \in cited : I!Supports(c)
  BY DEF Holds, I!Found, I!Supports
<1>3. \E c \in cited : I!IsDirect(c)
  BY DEF Holds
<1>4. I!Cardinality(cited) = Cardinality(cited)
  BY DEF I!Cardinality, Cardinality
<1> QED
  BY <1>1, <1>2, <1>3, <1>4 DEF I!Passed

LEMMA DirectIs ==
  /\ \A tools : I!Of(tools) \subseteq I!Found /\ \A c \in I!Of(tools) : c.tool \in tools
  /\ \A tools : I!Direct(tools) \subseteq I!Found
                /\ \A c \in I!Direct(tools) : c.tool \in tools /\ I!IsDirect(c)
  /\ \A c \in I!Metrics : c \in I!Found /\ I!IsDirect(c)
                          /\ c.tool \in {"query_metrics", "get_service_health"}
  /\ \A c \in I!Logs : c \in I!Found /\ I!IsDirect(c) /\ c.tool = "query_logs"
  /\ \A c \in I!Traces : c \in I!Found /\ I!IsDirect(c) /\ c.tool = "query_trace"
  /\ \A c \in I!Of({"query_slow_queries"}) : I!IsDirect(c)
  /\ \A c \in I!Of({"explain_sql"}) : I!IsDirect(c)
BY DEF I!Of, I!Direct, I!Metrics, I!MetricTools, I!Logs, I!Traces, I!IsDirect, I!DirectTools

LEMMA HoldsIf ==
  ASSUME NEW x, IsFiniteSet(x), x \subseteq I!Found, NEW a \in x, NEW b \in x,
         I!IsDirect(a), a.tool # b.tool
  PROVE  Holds(x)
BY DEF Holds

LEMMA RulesHold ==
  ASSUME NEW i \in DOMAIN I!SynthesisRules, NEW cited \in I!Cites(I!SynthesisRules[i])
  PROVE  Holds(cited)
<1>1. ASSUME NEW x \in I!KubernetesRestart PROVE Holds(x)
  <2>1. PICK p \in I!Direct({"get_pod"}), l \in I!Direct({"get_pod_events"}), r \in I!Direct({"get_restart_count"}) :
          x = {p, l, r}
    BY <1>1 DEF I!KubernetesRestart
  <2>2. p \in I!Found /\ l \in I!Found /\ r \in I!Found
    BY DirectIs
  <2>3. I!IsDirect(p) /\ p.tool # l.tool
    BY DirectIs
  <2>5. p \in x /\ l \in x /\ x \subseteq I!Found
    BY <2>1, <2>2
  <2>4. IsFiniteSet(x)
    BY <2>1, FewAreFinite
  <2> QED
    BY <2>3, <2>4, <2>5, HoldsIf
<1>2. ASSUME NEW x \in I!SinglePod PROVE Holds(x)
  <2>1. PICK p \in I!Of({"list_pods"}), m \in I!Metrics :
          x = {p, m}
    BY <1>2 DEF I!SinglePod
  <2>2. p \in I!Found /\ m \in I!Found
    BY DirectIs
  <2>3. I!IsDirect(m) /\ m.tool # p.tool
    BY DirectIs
  <2>5. m \in x /\ p \in x /\ x \subseteq I!Found
    BY <2>1, <2>2
  <2>4. IsFiniteSet(x)
    BY <2>1, FewAreFinite
  <2> QED
    BY <2>3, <2>4, <2>5, HoldsIf
<1>3. ASSUME NEW x \in I!ResourceExhaustion PROVE Holds(x)
  <2>1. PICK o \in I!Direct(I!KubernetesTools), m \in I!Metrics :
          x = {o, m}
    BY <1>3 DEF I!ResourceExhaustion
  <2>2. o \in I!Found /\ m \in I!Found
    BY DirectIs
  <2>3. I!IsDirect(o) /\ o.tool # m.tool
    BY DirectIs DEF I!KubernetesTools
  <2>5. o \in x /\ m \in x /\ x \subseteq I!Found
    BY <2>1, <2>2
  <2>4. IsFiniteSet(x)
    BY <2>1, FewAreFinite
  <2> QED
    BY <2>3, <2>4, <2>5, HoldsIf
<1>4. ASSUME NEW x \in I!CpuSaturation PROVE Holds(x)
  <2>1. PICK l \in I!Logs, m \in I!Metrics :
          x = {l, m}
    BY <1>4 DEF I!CpuSaturation
  <2>2. l \in I!Found /\ m \in I!Found
    BY DirectIs
  <2>3. I!IsDirect(l) /\ l.tool # m.tool
    BY DirectIs
  <2>5. l \in x /\ m \in x /\ x \subseteq I!Found
    BY <2>1, <2>2
  <2>4. IsFiniteSet(x)
    BY <2>1, FewAreFinite
  <2> QED
    BY <2>3, <2>4, <2>5, HoldsIf
<1>5. ASSUME NEW x \in I!RetryStorm PROVE Holds(x)
  <2>1. PICK t \in I!Traces, l \in I!Logs, m \in I!Metrics :
          x = {t, l, m}
    BY <1>5 DEF I!RetryStorm
  <2>2. t \in I!Found /\ l \in I!Found /\ m \in I!Found
    BY DirectIs
  <2>3. I!IsDirect(t) /\ t.tool # l.tool
    BY DirectIs
  <2>5. t \in x /\ l \in x /\ x \subseteq I!Found
    BY <2>1, <2>2
  <2>4. IsFiniteSet(x)
    BY <2>1, FewAreFinite
  <2> QED
    BY <2>3, <2>4, <2>5, HoldsIf
<1>6. ASSUME NEW x \in I!DependencyTimeout PROVE Holds(x)
  <2>1. PICK t \in I!Traces, l \in I!Logs :
          x = {t, l}
    BY <1>6 DEF I!DependencyTimeout
  <2>2. t \in I!Found /\ l \in I!Found
    BY DirectIs
  <2>3. I!IsDirect(t) /\ t.tool # l.tool
    BY DirectIs
  <2>5. t \in x /\ l \in x /\ x \subseteq I!Found
    BY <2>1, <2>2
  <2>4. IsFiniteSet(x)
    BY <2>1, FewAreFinite
  <2> QED
    BY <2>3, <2>4, <2>5, HoldsIf
<1>7. ASSUME NEW x \in I!DeploymentRegression PROVE Holds(x)
  <2>1. PICK p \in I!Of({"list_pods"}), d \in I!Of({"get_commit_diff"}), s \in I!Of({"query_slow_queries"}), e \in I!Of({"explain_sql"}) :
          x = {p, d, s, e}
    BY <1>7 DEF I!DeploymentRegression
  <2>2. p \in I!Found /\ d \in I!Found /\ s \in I!Found /\ e \in I!Found
    BY DirectIs
  <2>3. I!IsDirect(s) /\ s.tool # e.tool
    BY DirectIs
  <2>5. s \in x /\ e \in x /\ x \subseteq I!Found
    BY <2>1, <2>2
  <2>4. IsFiniteSet(x)
    BY <2>1, FewAreFinite
  <2> QED
    BY <2>3, <2>4, <2>5, HoldsIf
<1>8. ASSUME NEW x \in I!ConnectionPool PROVE Holds(x)
  <2>1. PICK l \in I!Logs, s \in I!Of({"query_slow_queries"}) :
          x = {l, s}
    BY <1>8 DEF I!ConnectionPool
  <2>2. l \in I!Found /\ s \in I!Found
    BY DirectIs
  <2>3. I!IsDirect(l) /\ l.tool # s.tool
    BY DirectIs
  <2>5. l \in x /\ s \in x /\ x \subseteq I!Found
    BY <2>1, <2>2
  <2>4. IsFiniteSet(x)
    BY <2>1, FewAreFinite
  <2> QED
    BY <2>3, <2>4, <2>5, HoldsIf
<1>9. ASSUME NEW x \in I!SlowQuery PROVE Holds(x)
  <2>1. PICK s \in I!Of({"query_slow_queries"}), e \in I!Of({"explain_sql"}) :
          x = {s, e} \/ \E t \in I!Traces : x = {s, e, t}
    BY <1>9 DEF I!SlowQuery
  <2>2. s \in I!Found /\ I!IsDirect(s) /\ e \in I!Found /\ s.tool # e.tool
    BY DirectIs
  <2>3. s \in x /\ e \in x /\ x \subseteq I!Found
    BY <2>1, <2>2, DirectIs
  <2>4. IsFiniteSet(x)
    <3>1. CASE x = {s, e}
      BY <3>1, FewAreFinite
    <3>2. ASSUME NEW t, x = {s, e, t} PROVE IsFiniteSet(x)
      BY <3>2, FewAreFinite
    <3> QED
      BY <2>1, <3>1, <3>2
  <2> QED
    BY <2>2, <2>3, <2>4, HoldsIf
<1>10. ASSUME NEW x \in I!DatabaseSpan PROVE Holds(x)
  <2>1. PICK m \in I!Metrics, l \in I!Logs, t \in I!Traces :
          x = {m, l, t}
    BY <1>10 DEF I!DatabaseSpan
  <2>2. m \in I!Found /\ l \in I!Found /\ t \in I!Found
    BY DirectIs
  <2>3. I!IsDirect(m) /\ m.tool # l.tool
    BY DirectIs
  <2>5. m \in x /\ l \in x /\ x \subseteq I!Found
    BY <2>1, <2>2
  <2>4. IsFiniteSet(x)
    BY <2>1, FewAreFinite
  <2> QED
    BY <2>3, <2>4, <2>5, HoldsIf
<1>11. I!SynthesisRules[i] \in
         {"kubernetes_restart", "single_pod_degradation", "resource_exhaustion",
          "cpu_saturation", "retry_storm", "dependency_timeout", "deployment_regression",
          "connection_pool", "slow_query", "database_span"}
  BY DEF I!SynthesisRules
<1>12. \/ cited \in I!KubernetesRestart \/ cited \in I!SinglePod \/ cited \in I!ResourceExhaustion
       \/ cited \in I!CpuSaturation \/ cited \in I!RetryStorm \/ cited \in I!DependencyTimeout
       \/ cited \in I!DeploymentRegression \/ cited \in I!ConnectionPool \/ cited \in I!SlowQuery
       \/ cited \in I!DatabaseSpan
  BY <1>11 DEF I!Cites
<1> QED
  BY <1>1, <1>2, <1>3, <1>4, <1>5, <1>6, <1>7, <1>8, <1>9, <1>10, <1>12

-----------------------------------------------------------------------------
LEMMA ScriptIs == I!Scripted = {"SYSTEM_SCAN", "TRIAGE", "PODS", "BASELINE"}
BY DEF I!Scripted, I!NextPhase

LEMMA Fewer ==
  ASSUME NEW W, IsFiniteSet(W), NEW R, R \subseteq W
  PROVE  IsFiniteSet(R) /\ Cardinality(R) \in Nat /\ Cardinality(R) <= Cardinality(W)
BY FS_Subset, FS_CardinalityType

LEMMA SumIsNat == FindTypes /\ WithinBudget => Sum(records, DOMAIN records) \in Nat
BY BudgetMeans, StepsIsSum

LEMMA FindInit == I!Init => FindInv
<1> SUFFICES ASSUME I!Init PROVE FindInv
  OBVIOUS
<1>1. /\ pos = "SYSTEM_SCAN" /\ ~opened /\ opened \in BOOLEAN /\ running = {} /\ stale = {} /\ pending = {}
      /\ records = <<>> /\ shown = <<>> /\ verdict = "none" /\ callFailures = 0 /\ crashes = 0
  BY DEF I!Init
<1>2. DOMAIN records = {} /\ DOMAIN shown = {} /\ records \in [DOMAIN records -> Nat]
  BY <1>1
<1>3. FindTypes
  BY <1>1, <1>2, ScriptIs DEF FindTypes, Reached
<1>4. WithinBudget
  <2>1. IsFiniteSet({}) /\ Cardinality({}) = 0
    BY FS_EmptySet
  <2>2. Sum(records, DOMAIN records) = 0
    BY <1>2, <2>1, SumIsZero
  <2>3. MaxSteps \in Nat
    BY StepsAssumption DEF I!StepsAssumption
  <2> QED
    BY <1>1, <1>2, <2>1, <2>2, <2>3 DEF WithinBudget
<1>5. Observed
  BY <1>1, <1>2 DEF Observed, Made
<1> QED
  BY <1>1, <1>3, <1>4, <1>5 DEF FindInv, Concluded

\* How many calls the timeline has when one of the script is missing.
LEMMA MissingCall ==
  ASSUME FindTypes, WithinBudget, AllOnce, DOMAIN records \subseteq ScriptedCalls,
         NEW c \in ScriptedCalls, c \notin DOMAIN records
  PROVE  I!Steps <= 7
<1>1. I!Steps = Cardinality(DOMAIN records)
  BY OnceIsCounted
<1>2. IsFiniteSet(ScriptedCalls \ {c}) /\ Cardinality(ScriptedCalls \ {c}) = Cardinality(ScriptedCalls) - 1
  BY ScriptedCount, FS_RemoveElement
<1>3. Cardinality(DOMAIN records) \in Nat /\ Cardinality(DOMAIN records) <= Cardinality(ScriptedCalls \ {c})
  BY <1>2, Fewer
<1>4. Cardinality(ScriptedCalls) \in Nat
  BY ScriptedCount, FS_CardinalityType
<1> QED
  BY <1>1, <1>2, <1>3, <1>4, ScriptedCount

LEMMA EarlyCalls ==
  ASSUME FindTypes, WithinBudget, AllOnce, DOMAIN records \subseteq ScanCalls \cup {PodsCall}
  PROVE  I!Steps <= 3
<1>1. I!Steps = Cardinality(DOMAIN records)
  BY OnceIsCounted
<1>2. Cardinality(DOMAIN records) \in Nat /\ Cardinality(DOMAIN records) <= Cardinality(ScanCalls \cup {PodsCall})
  BY ScriptedCount, Fewer
<1>3. Cardinality(ScanCalls \cup {PodsCall}) \in Nat
  BY ScriptedCount, FS_CardinalityType
<1> QED
  BY <1>1, <1>2, <1>3, ScriptedCount

LEMMA GroupKeeps == ASSUME FindInv, I!CallGroup PROVE FindInv'
<1> DEFINE mine == {I!Group[i] : i \in 1..Len(I!Group)}
           runs == I!Selected \ DOMAIN shown
<1>1. /\ pos \in I!Scripted /\ ~opened /\ opened' = TRUE
      /\ running' = runs /\ stale' = stale \ runs
      /\ UNCHANGED <<records, shown, case, pos, pending, synthesis, verdict, callFailures, crashes>>
  BY DEF I!CallGroup, I!Begin, I!env
<1>2. FindTypes /\ WithinBudget /\ running = {} /\ pending = {}
  BY <1>1, ScriptIs DEF FindInv, FindTypes
<1>3. /\ IsFiniteSet(I!Selected) /\ I!Steps + Cardinality(I!Selected) <= MaxSteps
      /\ I!Selected \subseteq mine
      /\ I!Steps + Len(I!Group) <= MaxSteps => I!Selected = mine
  BY <1>2, SelectedIs
<1>4. I!Steps = Sum(records, DOMAIN records) /\ I!Steps \in Nat /\ MaxSteps \in Nat /\ MaxSteps >= 8
  BY <1>2, StepsIsSum, BudgetMeans, StepsAssumption DEF I!StepsAssumption
<1> HIDE DEF mine
<1>5. IsFiniteSet(runs) /\ Cardinality(runs) \in Nat /\ Cardinality(runs) <= Cardinality(I!Selected)
      /\ Cardinality(I!Selected) \in Nat
  BY <1>3, Fewer, FS_CardinalityType
<1>6. WithinBudget'
  <2>1. IsFiniteSet(DOMAIN records') /\ IsFiniteSet(running')
    BY <1>1, <1>2, <1>5 DEF WithinBudget
  <2>2. Sum(records', DOMAIN records') = I!Steps /\ Cardinality(running') = Cardinality(runs)
    BY <1>1, <1>4
  <2>3. I!Steps + Cardinality(runs) <= MaxSteps
    BY <1>3, <1>4, <1>5
  <2> QED
    BY <2>1, <2>2, <2>3 DEF WithinBudget
<1>7. FindTypes'
  <2>1. running' \cap (stale' \cup DOMAIN shown') = {}
    BY <1>1
  <2>2. pending' = {}
    BY <1>1, <1>2
  <2>3. pos' \notin {"VERIFY", "REPORT", "END"} /\ opened'
    BY <1>1, ScriptIs
  <2> QED
    BY <1>1, <1>2, <2>1, <2>2, <2>3 DEF FindTypes
<1>8. ASSUME case'.known PROVE Observed'
  <2> USE <1>8
  <2>1. case.known /\ Observed
    BY <1>1, <1>8 DEF FindInv
  <2>2. Made' = DOMAIN records \cup runs /\ DOMAIN records \subseteq Made /\ Made = DOMAIN records
    BY <1>1, <1>2 DEF Made
  <2>3. runs \subseteq mine /\ mine \subseteq ScriptedCalls
        /\ (pos \in {"SYSTEM_SCAN", "TRIAGE"} => mine \subseteq ScanCalls)
        /\ (pos = "PODS" => mine = {PodsCall} /\ Len(I!Group) = 1)
        /\ (pos = "BASELINE" => mine = BaseCalls /\ Len(I!Group) = 5)
    <3>1. ASSUME pos = "PODS" PROVE mine = {PodsCall} /\ Len(I!Group) = 1
      <4>1. I!Group = <<PodsCall>>
        BY <2>1, <3>1, GroupIs
      <4>2. Len(I!Group) = 1 /\ 1..Len(I!Group) = {1} /\ I!Group[1] = PodsCall
        BY <4>1
      <4>3. mine = {PodsCall}
        BY <4>1, <4>2 DEF mine
      <4> QED
        BY <4>2, <4>3
    <3> QED
      BY <1>1, <1>3, <2>1, <3>1, GroupIs DEF mine
  <2>4. DOMAIN records \subseteq ScriptedCalls
    BY <1>1, <2>1, <2>2 DEF Observed
  <2>5. Made' \subseteq ScriptedCalls
    BY <2>2, <2>3, <2>4
  <2>6. ASSUME AllOnce', crashes' = 0 \/ MaxSteps >= 12 PROVE
          /\ pos = "PODS" => PodsCall \in Made'
          /\ pos = "BASELINE" => PodsCall \in DOMAIN records /\ BaseCalls \subseteq Made'
    <3>1. AllOnce /\ (crashes = 0 \/ MaxSteps >= 12)
      BY <1>1, <2>6 DEF AllOnce
    <3>2. CASE pos = "PODS"
      <4>1. CASE PodsCall \notin DOMAIN records
        <5>1. I!Steps <= 7
          BY <1>2, <2>4, <3>1, <4>1, MissingCall DEF ScriptedCalls
        <5>2. I!Selected = {PodsCall}
          <6>1. mine = {PodsCall} /\ Len(I!Group) = 1
            BY <2>3, <3>2
          <6>2. I!Steps + 1 <= MaxSteps
            BY <1>4, <5>1
          <6> QED
            BY <1>3, <6>1, <6>2
        <5>3. PodsCall \notin DOMAIN shown
          BY <1>2, <4>1 DEF FindTypes
        <5> QED
          BY <2>2, <3>2, <5>2, <5>3
      <4> QED
        BY <2>2, <3>2, <4>1
    <3>3. CASE pos = "BASELINE"
      <4>1. PodsCall \in DOMAIN records
        BY <2>1, <3>1, <3>3 DEF Observed
      <4>2. CASE \E c \in BaseCalls : c \notin DOMAIN records
        <5>1. PICK c \in BaseCalls : c \notin DOMAIN records
          BY <4>2
        <5>2. I!Steps <= 7
          BY <1>2, <2>4, <3>1, <5>1, MissingCall DEF ScriptedCalls
        <5>3. crashes = 0 => I!Steps <= 3
          BY <1>1, <1>2, <2>1, <2>2, <3>1, <3>3, EarlyCalls DEF Observed
        <5>4. I!Steps + 5 <= MaxSteps
          BY <1>4, <3>1, <5>2, <5>3
        <5>5. I!Selected = BaseCalls
          BY <1>3, <2>3, <3>3, <5>4
        <5>6. DOMAIN shown \subseteq DOMAIN records
          BY <1>2 DEF FindTypes
        <5> QED
          BY <2>2, <3>3, <4>1, <5>5, <5>6
      <4> QED
        BY <2>2, <3>3, <4>1, <4>2
    <3> QED
      BY <3>2, <3>3
  <2>7. ASSUME crashes' = 0 PROVE
          /\ pos \in {"SYSTEM_SCAN", "TRIAGE"} => Made' \subseteq ScanCalls
          /\ pos = "PODS" => Made' \subseteq ScanCalls \cup {PodsCall}
    BY <1>1, <2>1, <2>2, <2>3, <2>7 DEF Observed
  <2> QED
    BY <1>1, <2>5, <2>6, <2>7, ScriptIs DEF Observed
<1>9. Concluded'
  BY <1>1, ScriptIs DEF Concluded
<1> QED
  BY <1>6, <1>7, <1>8, <1>9 DEF FindInv

LEMMA PhaseKeeps == ASSUME FindInv, I!NextScripted PROVE FindInv'
<1>1. /\ pos \in I!Scripted /\ opened /\ running = {} /\ pos' = I!NextPhase[pos] /\ opened' = FALSE
      /\ UNCHANGED <<running, stale, pending, records, shown, case, synthesis, verdict, callFailures, crashes>>
  BY DEF I!NextScripted, I!work, I!env
<1>2. \/ pos = "SYSTEM_SCAN" /\ pos' = "TRIAGE"
      \/ pos = "TRIAGE" /\ pos' = "PODS"
      \/ pos = "PODS" /\ pos' = "BASELINE"
      \/ pos = "BASELINE" /\ pos' = "INVESTIGATE"
  <2>1. /\ I!NextPhase["SYSTEM_SCAN"] = "TRIAGE" /\ I!NextPhase["TRIAGE"] = "PODS"
        /\ I!NextPhase["PODS"] = "BASELINE" /\ I!NextPhase["BASELINE"] = "INVESTIGATE"
    BY DEF I!NextPhase
  <2>2. pos' = I!NextPhase[pos]
    BY <1>1
  <2>3. pos = "SYSTEM_SCAN" \/ pos = "TRIAGE" \/ pos = "PODS" \/ pos = "BASELINE"
    BY <1>1, ScriptIs
  <2> QED
    BY <2>1, <2>2, <2>3, Zenon
<1>3. FindTypes'
  BY <1>1, <1>2, ScriptIs DEF FindInv, FindTypes, Reached
<1>4. WithinBudget'
  BY <1>1 DEF FindInv, WithinBudget
<1>5. ASSUME case'.known PROVE Observed'
  <2>1. Observed /\ Made = DOMAIN records /\ Made' = Made /\ DOMAIN records' = DOMAIN records
        /\ (AllOnce' <=> AllOnce) /\ crashes' = crashes
    BY <1>1, <1>5 DEF FindInv, Made, AllOnce
  <2>2. (pos' \in I!Scripted => Made' \subseteq ScriptedCalls)
    BY <1>1, <2>1 DEF Observed
  <2>3. ASSUME AllOnce, crashes = 0 \/ MaxSteps >= 12
        PROVE  /\ pos' \in {"BASELINE", "INVESTIGATE", "VERIFY", "REPORT"} => PodsCall \in DOMAIN records
               /\ pos' \in {"INVESTIGATE", "VERIFY", "REPORT"} => BaseCalls \subseteq DOMAIN records
    BY <1>1, <1>2, <2>1, <2>3 DEF Observed
  <2>4. ASSUME crashes = 0
        PROVE  /\ pos' \in {"SYSTEM_SCAN", "TRIAGE"} \/ pos' = "PODS" => Made \subseteq ScanCalls
               /\ pos' = "BASELINE" => Made \subseteq ScanCalls \cup {PodsCall}
    BY <1>1, <1>2, <2>1, <2>4 DEF Observed
  <2> QED
    BY <1>1, <1>2, <2>1, <2>2, <2>3, <2>4 DEF Observed
<1>6. Concluded'
  BY <1>2 DEF Concluded
<1> QED
  BY <1>3, <1>4, <1>5, <1>6 DEF FindInv

LEMMA AnswerKeeps ==
  ASSUME FindInv, NEW c, NEW outcome \in I!Outcomes, I!Answer(c, outcome) PROVE FindInv'
<1>1. /\ c \in running /\ running' = running \ {c}
      /\ records' = I!Put(records, c, IF c \in DOMAIN records THEN records[c] + 1 ELSE 1)
      /\ shown' = IF outcome = "error" THEN shown ELSE I!Put(shown, c, outcome)
      /\ UNCHANGED <<case, pos, opened, stale, pending, synthesis, verdict, crashes>>
  BY DEF I!Answer, I!Timeline
<1>2. FindTypes /\ WithinBudget
  BY DEF FindInv
<1>3. records' = [x \in DOMAIN records \cup {c} |->
                    IF x = c THEN (IF c \in DOMAIN records THEN records[c] + 1 ELSE 1) ELSE records[x]]
  BY <1>1 DEF I!Put
<1>4. /\ DOMAIN records' = DOMAIN records \cup {c} /\ IsFiniteSet(DOMAIN records')
      /\ records' \in [DOMAIN records' -> Nat \ {0}]
      /\ Sum(records', DOMAIN records') = Sum(records, DOMAIN records) + 1
      /\ AllOnce' => AllOnce /\ c \notin DOMAIN records
  BY <1>2, <1>3, AnswerCounts
<1>5. WithinBudget'
  <2>1. IsFiniteSet(running') /\ Cardinality(running') = Cardinality(running) - 1
    BY <1>1, <1>2, FS_RemoveElement DEF WithinBudget
  <2>2. Cardinality(running) \in Nat /\ Sum(records, DOMAIN records) \in Nat /\ MaxSteps \in Nat
    BY <1>2, SumIsNat, FS_CardinalityType, StepsAssumption DEF WithinBudget, I!StepsAssumption
  <2>3. Sum(records', DOMAIN records') + Cardinality(running') <= MaxSteps
    BY <1>2, <1>4, <2>1, <2>2 DEF WithinBudget
  <2> QED
    BY <1>4, <2>1, <2>3 DEF WithinBudget
<1>6. DOMAIN shown' \subseteq DOMAIN shown \cup {c} /\ shown' \in [DOMAIN shown' -> {"found", "empty"}]
  <2>1. CASE outcome = "error"
    BY <1>1, <1>2, <2>1 DEF FindTypes
  <2>2. CASE outcome # "error"
    <3>1. shown' = [x \in DOMAIN shown \cup {c} |-> IF x = c THEN outcome ELSE shown[x]]
      BY <1>1, <2>2 DEF I!Put
    <3>2. outcome \in {"found", "empty"}
      BY <2>2 DEF I!Outcomes
    <3>3. shown \in [DOMAIN shown -> {"found", "empty"}]
      BY <1>2 DEF FindTypes
    <3>4. DOMAIN shown' = DOMAIN shown \cup {c}
      BY <3>1
    <3>5. \A x \in DOMAIN shown' : shown'[x] \in {"found", "empty"}
      BY <3>1, <3>2, <3>3
    <3>6. shown' = [x \in DOMAIN shown' |-> shown'[x]]
      BY <3>1
    <3> HIDE DEF I!Outcomes
    <3> QED
      BY <3>4, <3>5, <3>6
  <2> QED
    BY <2>1, <2>2
<1>7. FindTypes'
  <2>1. running' \cap (stale' \cup DOMAIN shown') = {}
    BY <1>1, <1>2, <1>6 DEF FindTypes
  <2>2. DOMAIN shown' \subseteq DOMAIN records'
    BY <1>2, <1>4, <1>6 DEF FindTypes
  <2>3. (pos' \in I!Scripted /\ ~opened' => running' = {}) /\ (pos' \in {"VERIFY", "REPORT", "END"} => running' = {})
    BY <1>1, <1>2 DEF FindTypes
  <2> QED
    BY <1>1, <1>2, <1>4, <1>6, <2>1, <2>2, <2>3 DEF FindTypes
<1>8. ASSUME case'.known PROVE Observed'
  <2>1. Observed /\ DOMAIN records \subseteq DOMAIN records' /\ Made' = Made
    BY <1>1, <1>4, <1>8 DEF FindInv, Made
  <2> QED
    BY <1>1, <1>4, <2>1 DEF Observed
<1>9. Concluded'
  <2>1. pos # "REPORT"
    BY <1>1, <1>2 DEF FindTypes
  <2> QED
    BY <1>1, <2>1 DEF Concluded
<1> QED
  BY <1>5, <1>7, <1>8, <1>9 DEF FindInv

\* A call of the investigation, while there is budget left.
LEMMA CallKeeps ==
  ASSUME FindInv, pos = "INVESTIGATE", running = {}, I!Steps < MaxSteps, NEW c, I!Begin({c}),
         pending' = pending \ {c} \/ (pending' = pending /\ pending = {}),
         UNCHANGED <<case, pos, opened, synthesis, verdict, callFailures, crashes>>
  PROVE  FindInv'
<1>1. /\ running' \subseteq {c} /\ running' = {c} \ DOMAIN shown /\ stale' = stale \ running'
      /\ UNCHANGED <<records, shown>>
  BY DEF I!Begin
<1>2. FindTypes /\ WithinBudget
  BY DEF FindInv
<1>3. WithinBudget'
  <2>1. IsFiniteSet(running') /\ Cardinality(running') \in Nat /\ Cardinality(running') <= 1
    <3>1. IsFiniteSet({c}) /\ Cardinality({c}) = 1
      BY FS_Singleton
    <3> QED
      BY <1>1, <3>1, Fewer
  <2>2. Sum(records, DOMAIN records) \in Nat /\ MaxSteps \in Nat /\ Sum(records, DOMAIN records) < MaxSteps
    BY <1>2, SumIsNat, StepsIsSum, StepsAssumption DEF I!StepsAssumption
  <2>3. Sum(records', DOMAIN records') + Cardinality(running') <= MaxSteps
    BY <1>1, <2>1, <2>2
  <2> QED
    BY <1>1, <1>2, <2>1, <2>3 DEF WithinBudget
<1>4. FindTypes'
  <2>1. pending' \subseteq stale'
    BY <1>1, <1>2 DEF FindTypes
  <2>2. running' \cap (stale' \cup DOMAIN shown') = {}
    BY <1>1
  <2> QED
    BY <1>1, <1>2, <2>1, <2>2, ScriptIs DEF FindTypes
<1>5. case'.known => Observed'
  BY <1>1, ScriptIs DEF FindInv, Observed, AllOnce
<1> QED
  BY <1>3, <1>4, <1>5 DEF FindInv, Concluded

LEMMA StopKeeps == ASSUME FindInv, I!StopInvestigating PROVE FindInv'
<1>1. /\ pos = "INVESTIGATE" /\ running = {} /\ pos' = "VERIFY" /\ pending' = {}
      /\ UNCHANGED <<case, opened, running, stale, records, shown, synthesis, verdict, callFailures, crashes>>
  BY DEF I!StopInvestigating, I!env
<1>2. FindTypes'
  BY <1>1, ScriptIs DEF FindInv, FindTypes, Reached
<1>3. WithinBudget'
  BY <1>1 DEF FindInv, WithinBudget
<1>4. case'.known => Observed'
  BY <1>1, ScriptIs DEF FindInv, Observed, AllOnce
<1> QED
  BY <1>1, <1>2, <1>3, <1>4 DEF FindInv, Concluded

LEMMA SynthesisKeeps == ASSUME FindInv, I!Synthesize PROVE FindInv'
<1>1. /\ pos = "VERIFY" /\ pos' \in {"REPORT", "END"}
      /\ UNCHANGED <<case, opened, running, stale, pending, records, shown, callFailures, crashes>>
      /\ verdict' \in {verdict, "failed"}
  BY DEF I!Synthesize, I!work, I!env
<1>2. FindTypes'
  BY <1>1, ScriptIs DEF FindInv, FindTypes, Reached
<1>3. WithinBudget'
  BY <1>1 DEF FindInv, WithinBudget
<1>4. case'.known => Observed'
  BY <1>1, ScriptIs DEF FindInv, Observed, AllOnce
<1>5. Concluded'
  <2>1. CASE pos' = "END"
    BY <2>1 DEF Concluded
  <2>2. CASE pos' = "REPORT" /\ I!Applying = {}
    <3>1. synthesis' \in I!ModelSyntheses
      BY <1>1, <2>2 DEF I!Synthesize
    <3>2. synthesis'.rule = "model"
      BY <3>1 DEF I!ModelSyntheses, I!Insufficient
    <3> QED
      BY <3>2 DEF Concluded
  <2>3. CASE pos' = "REPORT" /\ I!Applying # {}
    <3>1. PICK i \in I!Applying : \E cited \in I!Cites(I!SynthesisRules[i]) :
            synthesis' = [rule |-> I!SynthesisRules[i], cited |-> cited, contradicted |-> FALSE]
      BY <1>1, <2>3 DEF I!Synthesize
    <3>2. i \in DOMAIN I!SynthesisRules
      BY <3>1 DEF I!Applying
    <3>3. PICK cited \in I!Cites(I!SynthesisRules[i]) :
            synthesis' = [rule |-> I!SynthesisRules[i], cited |-> cited, contradicted |-> FALSE]
      BY <3>1
    <3>4. Holds(cited)
      BY <3>2, <3>3, RulesHold
    <3>5. synthesis'.cited = cited /\ ~synthesis'.contradicted
      BY <3>3
    <3>6. I!Passed(synthesis')
      BY <3>4, <3>5, HoldsPasses
    <3>7. I!Passed(synthesis)'
      BY <1>1, <3>6 DEF I!Passed, I!Supports, I!IsDirect
    <3> QED
      BY <3>7 DEF Concluded
  <2> QED
    BY <1>1, <2>1, <2>2, <2>3
<1> QED
  BY <1>2, <1>3, <1>4, <1>5 DEF FindInv

LEMMA EndKeepsFinding == ASSUME FindInv, I!Report \/ I!Deadline PROVE FindInv'
<1>1. /\ pos' = "END" /\ UNCHANGED <<case, opened, records, shown, crashes>>
      /\ verdict' \in {"confirmed", "insufficient_evidence"}
  BY DEF I!Report, I!Deadline, I!work, I!env
<1>2. running' = {} /\ pending' = {}
  BY ScriptIs DEF I!Report, I!Deadline, I!work, FindInv, FindTypes
<1>3. FindTypes'
  BY <1>1, <1>2, ScriptIs DEF FindInv, FindTypes, Reached
<1>4. WithinBudget'
  <2>1. IsFiniteSet({}) /\ Cardinality({}) = 0
    BY FS_EmptySet
  <2>2. FindTypes /\ WithinBudget /\ Sum(records, DOMAIN records) \in Nat /\ MaxSteps \in Nat
    BY SumIsNat, StepsAssumption DEF FindInv, I!StepsAssumption
  <2>3. Cardinality(running) \in Nat
    BY <2>2, FS_CardinalityType DEF WithinBudget
  <2> QED
    BY <1>1, <1>2, <2>1, <2>2, <2>3 DEF WithinBudget
<1>5. Observed' /\ Concluded'
  <2>1. pos' = "END" /\ pos' \notin I!Scripted
    BY <1>1, ScriptIs
  <2> QED
    BY <2>1 DEF Observed, Concluded
<1> QED
  BY <1>3, <1>4, <1>5 DEF FindInv

LEMMA CrashKeeps == ASSUME FindInv, I!Crash PROVE FindInv'
<1>1. /\ pos # "END" /\ crashes' = crashes + 1 /\ pos' = I!ResumedPhase /\ opened' = FALSE
      /\ running' = {} /\ stale' = stale \cup running
      /\ pending' = IF pos = "INVESTIGATE" THEN stale' ELSE {}
      /\ UNCHANGED <<case, records, shown, synthesis, verdict>>
  BY DEF I!Crash
<1>2. /\ pos = "BASELINE" => pos' = "PODS"
      /\ pos # "BASELINE" => pos' = pos
  BY <1>1 DEF I!ResumedPhase
<1>3. FindTypes /\ WithinBudget /\ crashes' \in Nat /\ crashes' # 0
  BY <1>1 DEF FindInv, FindTypes
<1>4. FindTypes'
  <2>1. pending' \subseteq stale' /\ (pos' # "INVESTIGATE" => pending' = {})
    BY <1>1, <1>2
  <2> QED
    BY <1>1, <1>2, <1>3, <2>1, ScriptIs DEF FindTypes, Reached
<1>5. WithinBudget'
  <2>1. IsFiniteSet({}) /\ Cardinality({}) = 0
    BY FS_EmptySet
  <2>2. Sum(records, DOMAIN records) \in Nat /\ MaxSteps \in Nat
    BY <1>3, SumIsNat, StepsAssumption DEF I!StepsAssumption
  <2>3. Cardinality(running) \in Nat
    BY <1>3, FS_CardinalityType DEF WithinBudget
  <2> QED
    BY <1>1, <1>3, <2>1, <2>2, <2>3 DEF WithinBudget
<1>6. ASSUME case'.known PROVE Observed'
  <2>1. Observed /\ Made' \subseteq Made
    BY <1>1, <1>6 DEF FindInv, Made
  <2>2. pos' \in I!Scripted => pos \in I!Scripted
    BY <1>2, ScriptIs
  <2> QED
    BY <1>1, <1>2, <1>3, <2>1, <2>2, ScriptIs DEF Observed, AllOnce
<1>7. Concluded'
  <2>1. pos' = "REPORT" => pos = "REPORT"
    BY <1>2
  <2>2. I!Passed(synthesis)' <=> I!Passed(synthesis)
    BY <1>1 DEF I!Passed, I!Supports, I!IsDirect
  <2> QED
    BY <1>1, <2>1, <2>2 DEF FindInv, Concluded
<1> QED
  BY <1>4, <1>5, <1>6, <1>7 DEF FindInv

LEMMA FindStutters == FindInv /\ UNCHANGED I!vars => FindInv'
<1> SUFFICES ASSUME FindInv, UNCHANGED I!vars PROVE FindInv'
  OBVIOUS
<1>1. UNCHANGED <<case, pos, opened, running, stale, pending, records, shown, synthesis, verdict, callFailures, crashes>>
  BY DEF I!vars, I!work, I!env
<1>2. I!Passed(synthesis)' <=> I!Passed(synthesis)
  BY <1>1 DEF I!Passed, I!Supports, I!IsDirect
<1> QED
  BY <1>1, <1>2 DEF FindInv, FindTypes, WithinBudget, Observed, Made, AllOnce, Concluded

LEMMA FindStep == FindInv /\ [I!Next]_(I!vars) => FindInv'
<1> SUFFICES ASSUME FindInv, [I!Next]_(I!vars) PROVE FindInv'
  OBVIOUS
<1>1. CASE I!ResumePending
  <2>1. /\ pos = "INVESTIGATE" /\ running = {} /\ I!Steps < MaxSteps
        /\ UNCHANGED <<case, pos, opened, synthesis, verdict, callFailures, crashes>>
    BY <1>1 DEF I!ResumePending, I!env
  <2>2. PICK c \in pending : I!Begin({c}) /\ pending' = pending \ {c}
    BY <1>1 DEF I!ResumePending
  <2>3. pending' = pending \ {c} \/ (pending' = pending /\ pending = {})
    BY <2>2
  <2> QED
    BY <2>1, <2>2, <2>3, CallKeeps
<1>2. CASE I!FollowRule \/ I!FollowModel
  <2>1. PICK c : I!Planning /\ I!CallOne(c)
    BY <1>2 DEF I!FollowRule, I!FollowModel
  <2>2. /\ pos = "INVESTIGATE" /\ running = {} /\ pending = {} /\ I!Steps < MaxSteps
        /\ I!Begin({c}) /\ UNCHANGED <<case, pos, opened, pending, synthesis, verdict, callFailures, crashes>>
    BY <2>1 DEF I!Planning, I!CallOne, I!env
  <2> QED
    BY <2>2, CallKeeps
<1> QED
  BY <1>1, <1>2, GroupKeeps, PhaseKeeps, AnswerKeeps, StopKeeps, SynthesisKeeps, EndKeepsFinding,
     CrashKeeps, FindStutters DEF I!Next, I!Work

LEMMA FindMoves == [AllNext]_all => [I!Next]_(I!vars)
BY DEF AllNext, all, investigation, I!vars, I!work, I!env

LEMMA FindMeans == FindInv => I!TypeOK /\ I!BudgetKept /\ I!BaselineComplete /\ I!RuleConclusionStands
<1> SUFFICES ASSUME FindInv PROVE I!TypeOK /\ I!BudgetKept /\ I!BaselineComplete /\ I!RuleConclusionStands
  OBVIOUS
<1>1. I!TypeOK
  <2>1. I!Range(records) \subseteq Nat \ {0} /\ I!Range(shown) \subseteq {"found", "empty"}
    BY DEF FindInv, FindTypes, I!Range
  <2> QED
    BY <2>1 DEF FindInv, FindTypes, Reached, I!TypeOK, I!Timeline
<1>2. I!BudgetKept
  BY BudgetMeans DEF FindInv
<1>3. I!BaselineComplete
  <2> SUFFICES ASSUME pos \in {"INVESTIGATE", "VERIFY", "REPORT"}, case.known,
                      \A c \in I!Timeline : records[c] = 1, crashes = 0 \/ MaxSteps >= 12
               PROVE  BaseCalls \cup {PodsCall} \subseteq I!Timeline
    BY DEF I!BaselineComplete, BaseCalls, PodsCall
  <2> QED
    BY DEF FindInv, Observed, AllOnce, I!Timeline
<1>4. I!RuleConclusionStands
  BY DEF FindInv, Concluded, I!RuleConclusionStands
<1> QED
  BY <1>1, <1>2, <1>3, <1>4

\* Whatever the incident, the answers, the failed calls and the crashes: the
\* calls of a diagnosis never pass max_steps, a plan starts from the complete
\* observation of the service, and the gate turns down no root cause that a
\* rule of the synthesis confirms.
THEOREM ObservationKept == AllSpec => []ObservationIsSound
<1>1. AllInit => FindInv
  BY FindInit DEF AllInit
<1>2. FindInv /\ [AllNext]_all => FindInv'
  BY FindStep, FindMoves
<1>3. FindInv => ObservationIsSound
  BY FindMeans DEF ObservationIsSound
<1> QED
  BY <1>1, <1>2, <1>3, PTL DEF AllSpec
=============================================================================
