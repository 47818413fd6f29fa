-------------------------- MODULE ContextCompaction --------------------------
(***************************************************************************)
(* The memory of one conversation.  Its messages are merged into a summary *)
(* and a short state by calls of the model; the last compaction names the  *)
(* message it goes through, and the active context is that summary and     *)
(* state together with the messages after it.  Two diagnoses of the same   *)
(* conversation, or the task left behind by an earlier report, compact at  *)
(* the same time: each reads a snapshot, waits for the model, and commits. *)
(*                                                                         *)
(* A message is its rank in (created_at, id).  Reads, appends and commits  *)
(* are synchronous calls of the event loop; when a second process appends  *)
(* to the conversation (~SameLoop), a message may be committed after one   *)
(* with a later created_at was.  Texts are abstracted to what they cover,  *)
(* state items and memory items to their fingerprints.                     *)
(***************************************************************************)
EXTENDS Integers, FiniteSets, FiniteSetsExt

CONSTANTS MaxMessages,
          UserTurn,       \* the messages with role "user"
          Fact,           \* items of the types the short state has
          Reference,      \* items of the types evidence and reference
          Compactor,      \* tasks that call maybe_compact
          SameLoop,       \* TRUE: one process appends to the conversation
          MaxCompactions

BoundAssumption == MaxMessages \in Nat /\ MaxCompactions \in Nat

Message == 1 .. MaxMessages
Item == Fact \cup Reference
Status == {"active", "resolved", "superseded"}

VARIABLES writing,    \* messages with a created_at and no commit yet
          messages,   \* rows of conversation_messages
          latest,     \* the last row of conversation_compactions
          memory,     \* rows of conversation_memory_items
          compactor   \* the snapshot each task had when it called the model

vars == <<writing, messages, latest, memory, compactor>>

\* No compaction yet: an empty summary, the boundary before every message.
NoCompaction == [n |-> 0, through |-> 0, summary |-> {}]
Absent == [status |-> "absent", by |-> 0]
Idle == [busy |-> FALSE, pending |-> {}, summary |-> {}]

TypeOK ==
  /\ writing \subseteq Message /\ messages \subseteq Message
  /\ latest \in [n : 0 .. MaxCompactions, through : 0 .. MaxMessages, summary : SUBSET Message]
  /\ memory \in [Item -> [status : Status \cup {"absent"}, by : 0 .. MaxCompactions]]
  /\ compactor \in [Compactor -> [busy : BOOLEAN, pending : SUBSET Message, summary : SUBSET Message]]

Init ==
  /\ writing = {} /\ messages = {}
  /\ latest = NoCompaction
  /\ memory = [i \in Item |-> Absent]
  /\ compactor = [c \in Compactor |-> Idle]

-----------------------------------------------------------------------------
\* append: created_at is read before the transaction that commits the row.
Stamp ==
  /\ \E m \in Message : writing \cup messages = 1 .. m - 1 /\ writing' = writing \cup {m}
  /\ SameLoop => writing = {}
  /\ UNCHANGED <<messages, latest, memory, compactor>>

AppendMessage(m) ==
  /\ m \in writing
  /\ writing' = writing \ {m} /\ messages' = messages \cup {m}
  /\ UNCHANGED <<latest, memory, compactor>>

\* active_snapshot: the messages after the boundary.
Pending == {m \in messages : m > latest.through}

\* _has_multiple_user_turns, and should_compact: the messages may be of any
\* length, so any snapshot with two questions may be over the threshold.
MayCompact == Pending # {} /\ Cardinality(Pending \cap UserTurn) >= 2

StartCompaction(c) ==
  /\ ~compactor[c].busy /\ MayCompact
  /\ SameLoop => writing = {}
  /\ compactor' = [compactor EXCEPT ![c] =
                     [busy |-> TRUE, pending |-> Pending, summary |-> latest.summary]]
  /\ UNCHANGED <<writing, messages, latest, memory>>

\* No valid output after every retry, a gateway error, an invalid reference,
\* the 30 seconds of _compact_context_before_summary, the end of the process.
CompactionFails(c) ==
  /\ compactor[c].busy
  /\ compactor' = [compactor EXCEPT ![c] = Idle]
  /\ UNCHANGED <<writing, messages, latest, memory>>

\* The rows an output names: its state is expanded into active items, its own
\* memory items come after them and say their status.
StateItems(state) == [i \in state |-> "active"]
Drafts(output) == [i \in output.state \cup DOMAIN output.items |->
                     IF i \in DOMAIN output.items THEN output.items[i] ELSE StateItems(output.state)[i]]

\* The boundary is the last message of the snapshot.
ThroughNow(c) == Max(messages)
Through(c) == Max(compactor[c].pending)

\* A commit that leaves an existing row its status.
WriteItemKeepsStatus(i, drafts, n) ==
  IF i \in DOMAIN drafts
  THEN [status |-> IF memory[i] = Absent THEN drafts[i] ELSE memory[i].status, by |-> n]
  ELSE memory[i]
\* The rows of the state's types leave "active" first, then each draft is
\* inserted, or sets the status of the row with its fingerprint.
WriteItem(i, drafts, n) ==
  IF i \in DOMAIN drafts THEN [status |-> drafts[i], by |-> n]
  ELSE IF i \in Fact /\ memory[i].status = "active" THEN [memory[i] EXCEPT !.status = "superseded"]
  ELSE memory[i]

Commit(c, output) ==
  LET n == latest.n + 1 IN
  /\ compactor[c].busy /\ n <= MaxCompactions
  /\ SameLoop => writing = {}
  /\ latest' = [n |-> n, through |-> Through(c),
                summary |-> compactor[c].summary \cup compactor[c].pending]
  /\ memory' = [i \in Item |-> WriteItem(i, Drafts(output), n)]
  /\ compactor' = [compactor EXCEPT ![c] = Idle]
  /\ UNCHANGED <<writing, messages>>

\* What the model may answer: a state, and at most one memory item.
Output == [state : SUBSET Fact,
           items : UNION {[is -> {"active", "resolved"}] : is \in kSubset(0, Item) \cup kSubset(1, Item)}]

Next ==
  \/ Stamp \/ (\E m \in Message : AppendMessage(m))
  \/ \E c \in Compactor : \/ StartCompaction(c) \/ CompactionFails(c)
                          \/ \E output \in Output : Commit(c, output)

Spec == Init /\ [][Next]_vars

-----------------------------------------------------------------------------
\* Every message is in the active context: in the summary, or after the
\* boundary.  However compactions overlap or fail, also when one that read
\* less commits last and moves the boundary back, none is dropped unseen.
NothingForgotten == \A m \in messages : m \in latest.summary \/ m \in Pending

\* What search_conversation_memory returns as the current goals, constraints
\* and findings is what the last compaction wrote: an item of an earlier state
\* is superseded, and an item that comes back is active again.
ActiveStateIsLatest ==
  \A i \in Fact : memory[i].status = "active" => memory[i].by = latest.n
=============================================================================
