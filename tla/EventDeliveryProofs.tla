-------------------------- MODULE EventDeliveryProofs --------------------------
(* What EventDelivery promises for every value of its constants: the stream *)
(* of a diagnosis and that of a validation, for every number of events,     *)
(* size of a page and number of broken connections.                         *)
EXTENDS EventDelivery, SequenceTheorems, FiniteSetTheorems, TLAPS

\* The terminal event still has its place in the log.
Room == ~terminal => logged < MaxEvents

\* A page continues where the generator stands.
PageInv == /\ \A i \in 1..Len(batch) : batch[i] = cursor + i
           /\ pc = "yield" => batch # <<>>

\* While the connection lasts the client has what the generator yielded, and
\* the generator stops at the end of the log if nothing slips in between.
Progress == /\ pc # "dropped" => Len(received) = cursor
            /\ SameLoop /\ pc \in {"check", "ended"} => cursor = logged
            /\ pc = "ended" => terminal

StreamInv == TypeOK /\ Room /\ PageInv /\ ReceivedIsPrefix /\ Progress

LEMMA StreamInit == Init => StreamInv
<1> SUFFICES ASSUME Init PROVE StreamInv
  OBVIOUS
<1>1. batch \in Seq(cursor + 1..logged) /\ received \in Seq(1..logged) /\ Len(received) = 0 /\ Len(batch) = 0
  BY DEF Init
<1>2. logged \in 1..MaxEvents /\ Room /\ drops \in 0..MaxDrops
  BY StreamAssumption DEF Init, Room
<1>3. PageInv /\ ReceivedIsPrefix /\ Progress
  BY <1>1 DEF Init, PageInv, ReceivedIsPrefix, Progress
<1>4. terminal \in BOOLEAN
  BY DEF Init
<1>5. pc \in {"list", "yield", "check", "sleep", "ended", "dropped"} /\ cursor \in 0..logged /\ idle \in 0..2
  BY DEF Init
<1> QED
  BY <1>1, <1>2, <1>3, <1>4, <1>5 DEF StreamInv, TypeOK

\* A sequence is one over any set that holds its elements.
LEMMA SeqOver ==
  ASSUME NEW E, NEW T, NEW q \in Seq(E), \A i \in 1..Len(q) : q[i] \in T
  PROVE  q \in Seq(T)
<1>1. Len(q) \in Nat /\ DOMAIN q = 1..Len(q) /\ q = [i \in 1..Len(q) |-> q[i]]
  OBVIOUS
<1>2. q \in [1..Len(q) -> T]
  BY <1>1
<1> QED
  BY <1>1, <1>2

LEMMA FunctionIsSeq ==
  ASSUME NEW E, NEW n \in Nat, NEW q \in [1..n -> E]
  PROVE  q \in Seq(E) /\ Len(q) = n
OBVIOUS

\* Losing the last element of a prefix of the log leaves a prefix.
LEMMA Shortened ==
  ASSUME NEW E, NEW q \in Seq(E), q # <<>>
  PROVE  LET p == SubSeq(q, 1, Len(q) - 1)
         IN /\ p \in Seq(E) /\ Len(p) = Len(q) - 1
            /\ \A i \in 1..Len(p) : p[i] = q[i]
<1>1. Len(q) \in Nat /\ Len(q) - 1 \in 0..Len(q)
  BY EmptySeq
<1>2. \A i \in 1..Len(q) - 1 : q[i] \in E
  BY <1>1, LenProperties
<1>3. SubSeq(q, 1, Len(q) - 1) \in Seq(E)
  BY <1>1, <1>2, SubSeqProperties
<1>4. Len(SubSeq(q, 1, Len(q) - 1)) = Len(q) - 1
  <2>1. Len(SubSeq(q, 1, Len(q) - 1)) =
          IF 1 <= Len(q) - 1 THEN Len(q) - 1 - 1 + 1 ELSE 0
    BY <1>1, <1>2, SubSeqProperties
  <2>2. \A n \in Nat \ {0} : (IF 1 <= n - 1 THEN n - 1 - 1 + 1 ELSE 0) = n - 1
    OBVIOUS
  <2>3. Len(q) \in Nat \ {0}
    BY EmptySeq
  <2> QED
    BY <2>1, <2>2, <2>3, Zenon
<1>5. \A i \in 1..Len(q) - 1 : SubSeq(q, 1, Len(q) - 1)[i] = q[i]
  BY <1>1, <1>2, SubSeqProperties
<1> QED
  BY <1>3, <1>4, <1>5

\* Appending the next event to a prefix of the log makes a prefix.
LEMMA Extended ==
  ASSUME NEW q \in Seq(Nat), NEW n \in Nat, Len(q) = n, \A i \in 1..Len(q) : q[i] = i
  PROVE  /\ Append(q, n + 1) \in Seq(Nat) /\ Len(Append(q, n + 1)) = n + 1
         /\ \A i \in 1..n + 1 : Append(q, n + 1)[i] = i
OBVIOUS

LEMMA StreamStep == StreamInv /\ [Next]_vars => StreamInv'
<1> SUFFICES ASSUME StreamInv, [Next]_vars PROVE StreamInv'
  OBVIOUS
<1> USE StreamAssumption DEF StreamInv, TypeOK, Room, PageInv, ReceivedIsPrefix, Progress
<1>a. received \in Seq(Nat) /\ Len(received) \in Nat /\ Len(batch) \in Nat
  BY SeqOver
<1>1. CASE Emit
  BY <1>1, SeqOver DEF Emit, stream, LoopIsFree
<1>2. CASE Finish
  BY <1>2, SeqOver DEF Finish, stream, LoopIsFree
<1>3. CASE List
  <2>1. /\ batch' = After(cursor) /\ Least(Limit, logged - cursor) \in 0..logged - cursor
        /\ logged > cursor => Least(Limit, logged - cursor) > 0
    BY <1>3 DEF List, Page, Least
  <2>2. After(cursor) \in Seq(cursor + 1..logged) /\ Len(After(cursor)) = Least(Limit, logged - cursor)
    <3>1. \A i \in 1..Least(Limit, logged - cursor) : cursor + i \in cursor + 1..logged
      BY <2>1
    <3>2. After(cursor) \in [1..Least(Limit, logged - cursor) -> cursor + 1..logged]
      BY <3>1 DEF After
    <3>3. Least(Limit, logged - cursor) \in Nat
      BY <2>1
    <3> HIDE DEF StreamInv
    <3> QED
      BY <3>2, <3>3, FunctionIsSeq
  <2>3. \A i \in 1..Len(batch') : batch'[i] = cursor + i
    BY <2>1, <2>2 DEF After
  <2>4. Page = <<>> => cursor = logged
    BY <2>1, <2>2 DEF Page
  <2> QED
    BY <1>3, <2>1, <2>2, <2>3, <2>4 DEF List, Least, Page
<1>4. CASE Yield
  <2>1. /\ Len(batch) > 0 /\ Head(batch) = cursor + 1 /\ cursor + 1 \in 1..logged
        /\ cursor' = cursor + 1 /\ received' = Append(received, cursor + 1)
        /\ batch' = Tail(batch) /\ logged' = logged
    BY <1>4 DEF Yield
  <2>2. /\ Tail(batch) \in Seq(cursor + 1..logged) /\ Len(Tail(batch)) = Len(batch) - 1
        /\ \A i \in 1..Len(Tail(batch)) : Tail(batch)[i] = cursor' + i
    BY <2>1
  <2>3. \A i \in 1..Len(Tail(batch)) : Tail(batch)[i] \in cursor' + 1..logged
    BY <2>1, <2>2
  <2>4. batch' \in Seq(cursor' + 1..logged')
    BY <2>1, <2>2, <2>3, SeqOver
  <2>5. /\ received' \in Seq(1..logged) /\ Len(received') = cursor'
        /\ \A i \in 1..Len(received') : received'[i] = i
    BY <1>4, <2>1 DEF Yield
  <2>6. pc' = "yield" => batch' # <<>>
    <3>1. pc' = "yield" => Len(batch') # 0
      BY <1>4, <2>1, <2>2 DEF Yield
    <3> QED
      BY <3>1
  <2> QED
    BY <1>4, <2>1, <2>2, <2>4, <2>5, <2>6 DEF Yield
<1>5. CASE Check
  BY <1>5 DEF Check, Stops
<1>6. CASE Sleep
  BY <1>6 DEF Sleep
<1>7. CASE Drop
  <2>1. /\ received' \in Seq(1..logged)
        /\ \A i \in 1..Len(received') : received'[i] = i
    <3>1. CASE UNCHANGED received
      BY <3>1
    <3>2. CASE received # <<>> /\ received' = SubSeq(received, 1, Len(received) - 1)
      BY <3>2, Shortened, SMTT(30)
    <3> QED
      BY <1>7, <3>1, <3>2 DEF Drop
  <2> QED
    BY <1>7, <2>1 DEF Drop
<1>8. CASE Reconnect
  <2>1. ResumePoint \in 0..logged /\ Len(received) = ResumePoint
    BY DEF ResumePoint
  <2>2. <<>> \in Seq(ResumePoint + 1..logged)
    OBVIOUS
  <2> QED
    BY <1>8, <2>1, <2>2 DEF Reconnect
<1>9. CASE UNCHANGED vars
  BY <1>9 DEF vars, stream
<1> QED
  BY <1>1, <1>2, <1>3, <1>4, <1>5, <1>6, <1>7, <1>8, <1>9 DEF Next, Stream

LEMMA StreamMoves == [AllNext]_all => [Next]_vars
BY DEF AllNext, InStream, InHistory, InCode, InInvestigation, InNotifications, InValidation,
       all, vars

LEMMA Streamed == AllSpec => []StreamInv
<1>1. AllInit => StreamInv
  BY StreamInit DEF AllInit
<1>2. StreamInv /\ [AllNext]_all => StreamInv'
  BY StreamMoves, StreamStep
<1> QED
  BY <1>1, <1>2, PTL DEF AllSpec

\* If the executor of the diagnosis runs on the event loop that serves the
\* stream, a stream that ends has delivered the whole log.
THEOREM Completeness ==
  ASSUME SameLoop PROVE AllSpec => []EndedMeansComplete
<1>1. StreamInv => EndedMeansComplete
  BY DEF StreamInv, Progress, EndedMeansComplete
<1> QED
  BY <1>1, Streamed, PTL
-----------------------------------------------------------------------------
\* The identifiers of open transactions are taken, and each has its own.
OpenInv ==
  /\ \A p \in Process : writing[p] # V!None => writing[p].id \in 1..taken \ readable
  /\ \A p, q \in Process : p # q /\ writing[p] # V!None /\ writing[q] # V!None
       => writing[p].id # writing[q].id

\* A page holds the next committed events but for those that came late.
NextInv ==
  /\ position # 0 => position \in readable
  /\ \A e \in page : e > position
  /\ \A f \in page, e \in readable : position < e /\ e < f => e \in page \cup overtaken
  /\ \A i \in 1..Len(arrived) : arrived[i] <= position

\* The run is read when the stream is over.
DoneInv ==
  /\ place = "done" => ended /\ reread # "working"
  /\ reread # "nothing" => place \in {"done", "gone"}

ValidationInv == V!TypeOK /\ OpenInv /\ NextInv /\ V!NothingSkipped /\ DoneInv

LEMMA ValidationStart == V!Init => ValidationInv
<1> SUFFICES ASSUME V!Init PROVE ValidationInv
  OBVIOUS
<1> USE ValidationAssumption DEF V!Init
<1>1. V!None = [id |-> 0, kind |-> "side"]
  BY DEF V!None
<1>2. writing \in [Process -> [id : 0..MaxIds, kind : V!Kinds]]
  BY <1>1 DEF V!Kinds
<1>3. arrived \in Seq(V!Id) /\ Len(arrived) = 0
  OBVIOUS
<1>4. V!NothingSkipped
  BY <1>3 DEF V!NothingSkipped, V!Elements
<1>5. /\ taken \in 0..MaxIds /\ overtaken \subseteq readable /\ readable \subseteq 1..taken
      /\ position \in 0..taken /\ page \subseteq readable
  OBVIOUS
<1>6. V!TypeOK
  <2>1. /\ ended \in BOOLEAN /\ place \in {"list", "yield", "status", "sleep", "done", "gone"}
        /\ reread \in {"nothing", "working", "ended"}
    OBVIOUS
  <2> HIDE DEF V!Init
  <2> QED
    BY <1>2, <1>3, <1>5, <2>1 DEF V!TypeOK
<1> QED
  BY <1>3, <1>4, <1>6 DEF ValidationInv, OpenInv, NextInv, DoneInv

\* What comes before one of the first k of a set is one of them.
LEMMA FirstOnes ==
  ASSUME NEW T, IsFiniteSet(T), T \subseteq Nat, NEW k \in Nat,
         NEW m \in T, NEW n \in T, m < n, Cardinality({g \in T : g < n}) < k
  PROVE  Cardinality({g \in T : g < m}) < k
<1>1. {g \in T : g < m} \subseteq {g \in T : g < n}
  <2>1. \A g \in T : g < m => g < n
    OBVIOUS
  <2> QED
    BY <2>1, Zenon
<1>2. IsFiniteSet({g \in T : g < n}) /\ IsFiniteSet({g \in T : g < m})
  BY FS_Subset
<1>3. Cardinality({g \in T : g < m}) <= Cardinality({g \in T : g < n})
  BY <1>1, <1>2, FS_Subset
<1>4. Cardinality({g \in T : g < m}) \in Nat /\ Cardinality({g \in T : g < n}) \in Nat
  BY <1>2, FS_CardinalityType
<1> QED
  BY <1>3, <1>4

\* A page is the beginning of what follows the cursor.
LEMMA PageIsFirst ==
  V!TypeOK => /\ V!After(position) \subseteq readable
              /\ \A f \in V!After(position) : f > position
              /\ \A f \in V!After(position), e \in readable :
                   position < e /\ e < f => e \in V!After(position)
<1> SUFFICES ASSUME V!TypeOK
    PROVE  /\ V!After(position) \subseteq readable
           /\ \A f \in V!After(position) : f > position
           /\ \A f \in V!After(position), e \in readable :
                position < e /\ e < f => e \in V!After(position)
  OBVIOUS
<1> DEFINE T == {g \in readable : g > position}
<1>1. V!After(position) = {e \in T : Cardinality({f \in T : f < e}) < PageSize}
  BY DEF V!After, V!Cardinality, Cardinality
<1>2. taken \in Nat /\ readable \subseteq 1..taken
  BY ValidationAssumption DEF V!TypeOK
<1>3. T \subseteq Nat /\ IsFiniteSet(T)
  <2>1. T \subseteq readable
    OBVIOUS
  <2>2. IsFiniteSet(1..taken)
    BY <1>2, FS_Interval
  <2> HIDE DEF T
  <2>3. 1..taken \subseteq Nat
    BY <1>2
  <2>4. T \subseteq 1..taken /\ T \subseteq Nat
    BY <1>2, <2>1, <2>3, Zenon
  <2> QED
    BY <2>2, <2>4, FS_Subset, Zenon
<1>4. ASSUME NEW f \in V!After(position), NEW e \in readable, position < e, e < f
      PROVE  e \in V!After(position)
  <2>1. e \in T /\ f \in T /\ Cardinality({g \in T : g < f}) < PageSize
    BY <1>1, <1>2, <1>4
  <2>2. Cardinality({g \in T : g < e}) < PageSize
    <3> HIDE DEF T
    <3> QED
      BY <1>3, <1>4, <2>1, FirstOnes, ValidationAssumption
  <2> QED
    BY <1>1, <2>1, <2>2
<1> QED
  BY <1>1, <1>4

LEMMA ValidationInsert ==
  ASSUME ValidationInv, NEW p \in Process, NEW kind \in V!Kinds, V!Insert(p, kind)
  PROVE  ValidationInv'
<1> USE ValidationAssumption DEF ValidationInv, V!Insert, V!stream
<1>1. /\ taken \in 0..MaxIds /\ taken < MaxIds /\ taken' = taken + 1
      /\ writing \in [Process -> [id : 0..MaxIds, kind : V!Kinds]]
      /\ writing' = [writing EXCEPT ![p] = [id |-> taken + 1, kind |-> kind]]
      /\ readable \subseteq 1..taken
  BY DEF V!TypeOK
<1>2. V!TypeOK'
  BY <1>1 DEF V!TypeOK
<1>3. OpenInv'
  BY <1>1 DEF OpenInv, V!None
<1>4. NextInv' /\ V!NothingSkipped' /\ DoneInv'
  BY DEF NextInv, V!NothingSkipped, V!Elements, DoneInv
<1> QED
  BY <1>2, <1>3, <1>4

LEMMA ValidationCommit ==
  ASSUME ValidationInv, NEW p \in Process, V!CommitEvent(p)
  PROVE  ValidationInv'
<1> USE ValidationAssumption DEF ValidationInv, V!CommitEvent, V!stream
<1> DEFINE id == writing[p].id
<1>1. /\ taken \in Nat /\ id \in 1..taken \ readable
      /\ writing \in [Process -> [id : 0..MaxIds, kind : V!Kinds]]
      /\ writing' = [writing EXCEPT ![p] = V!None]
      /\ readable' = readable \cup {id} /\ readable \subseteq 1..taken
      /\ V!None \in [id : 0..MaxIds, kind : V!Kinds]
      /\ position \in 0..taken /\ taken' = taken
  BY DEF V!TypeOK, OpenInv, V!None, V!Kinds
<1>2. overtaken' = IF \E e \in readable : e > id THEN overtaken \cup {id} ELSE overtaken
  OBVIOUS
<1>3. V!TypeOK'
  BY <1>1, <1>2 DEF V!TypeOK
<1>4. OpenInv'
  <2>1. \A q \in Process : writing'[q] = IF q = p THEN V!None ELSE writing[q]
    BY <1>1
  <2>2. \A q \in Process : q # p /\ writing[q] # V!None => writing[q].id # id
    BY DEF OpenInv
  <2> QED
    BY <1>1, <2>1, <2>2 DEF OpenInv
<1>5. \A e \in readable' : e > id => e \in readable
  BY <1>1
<1>6. position >= id => id \in overtaken'
  BY <1>1, <1>2 DEF NextInv
<1>7. NextInv'
  <2>1. \A f \in page : f > id => id \in overtaken'
    BY <1>1, <1>2 DEF V!TypeOK
  <2> QED
    BY <1>1, <1>2, <2>1 DEF NextInv, V!TypeOK
<1>8. V!NothingSkipped'
  BY <1>1, <1>2, <1>6 DEF V!NothingSkipped, V!Elements
<1>9. DoneInv'
  BY DEF DoneInv
<1> QED
  BY <1>3, <1>4, <1>7, <1>8, <1>9

LEMMA ValidationYield ==
  ASSUME ValidationInv, NEW e \in V!Id, V!Yield(e)
  PROVE  ValidationInv'
<1> USE ValidationAssumption DEF ValidationInv, V!Yield, V!log
<1>1. /\ e \in page /\ \A f \in page : e <= f
      /\ page \subseteq readable /\ readable \subseteq 1..taken /\ taken \in Nat
      /\ arrived \in Seq(V!Id) /\ arrived' = Append(arrived, e) /\ position' = e
      /\ e > position /\ position \in Nat
      /\ readable' = readable /\ page' = page \ {e} /\ overtaken' = overtaken /\ taken' = taken
  BY DEF V!TypeOK, NextInv
<1>2. /\ arrived' \in Seq(V!Id) /\ Len(arrived') = Len(arrived) + 1 /\ Len(arrived) \in Nat
      /\ \A i \in 1..Len(arrived) : arrived'[i] = arrived[i] /\ arrived[i] \in V!Id
      /\ arrived'[Len(arrived')] = e
  BY <1>1
<1>3. place' \in {"yield", "status"}
  BY DEF V!Behind
<1>4. V!TypeOK'
  BY <1>1, <1>2, <1>3 DEF V!TypeOK
<1>5. OpenInv'
  BY <1>1 DEF OpenInv
<1>6. NextInv'
  <2>1. \A f \in page' : f > position'
    BY <1>1
  <2>2. \A i \in 1..Len(arrived') : arrived'[i] <= position'
    BY <1>1, <1>2 DEF NextInv, V!Id
  <2>3. \A f \in page', g \in readable' : position' < g /\ g < f => g \in page' \cup overtaken'
    BY <1>1 DEF NextInv
  <2> QED
    BY <1>1, <2>1, <2>2, <2>3 DEF NextInv
<1>7. V!NothingSkipped'
  <2>1. V!Elements(arrived') = V!Elements(arrived) \cup {e}
    BY <1>2 DEF V!Elements
  <2>2. \A i, j \in 1..Len(arrived') : i < j => arrived'[i] < arrived'[j]
    <3>1. \A i \in 1..Len(arrived) : arrived[i] < e /\ arrived[i] \in Nat
      BY <1>1, <1>2 DEF NextInv, V!Id
    <3> SUFFICES ASSUME NEW i \in 1..Len(arrived'), NEW j \in 1..Len(arrived'), i < j
        PROVE  arrived'[i] < arrived'[j]
      OBVIOUS
    <3>2. CASE j \in 1..Len(arrived)
      BY <1>2, <3>2 DEF V!NothingSkipped
    <3>3. CASE j = Len(arrived')
      BY <1>2, <3>1, <3>3
    <3> QED
      BY <1>2, <3>2, <3>3
  <2>3. \A g \in readable : g <= e => g \in V!Elements(arrived') \cup overtaken
    <3> SUFFICES ASSUME NEW g \in readable, g < e, position < g PROVE g \in overtaken
      BY <1>1, <2>1 DEF V!NothingSkipped
    <3> QED
      BY <1>1 DEF NextInv
  <2> QED
    BY <1>1, <2>1, <2>2, <2>3 DEF V!NothingSkipped
<1>8. DoneInv'
  BY <1>3 DEF DoneInv
<1> QED
  BY <1>4, <1>5, <1>6, <1>7, <1>8

LEMMA ValidationStep == ValidationInv /\ [V!Next]_(V!vars) => ValidationInv'
<1> SUFFICES ASSUME ValidationInv, [V!Next]_(V!vars) PROVE ValidationInv'
  OBVIOUS
<1> USE ValidationAssumption
<1>1. ASSUME NEW p \in Process, V!RollBack(p) PROVE ValidationInv'
  <2> USE DEF ValidationInv, V!RollBack, V!stream
  <2>1. V!TypeOK'
    BY <1>1 DEF V!TypeOK, V!None, V!Kinds
  <2>2. \A q \in Process : writing'[q] = IF q = p THEN V!None ELSE writing[q]
    BY <1>1 DEF V!TypeOK
  <2>3. OpenInv'
    BY <1>1, <2>2 DEF OpenInv
  <2> QED
    BY <1>1, <2>1, <2>3 DEF NextInv, V!NothingSkipped, V!Elements, DoneInv
<1>2. CASE V!List
  <2> USE DEF ValidationInv, V!List, V!log
  <2>1. page' = V!After(position) /\ place' \in {"yield", "status"}
    BY <1>2 DEF V!Behind
  <2>2. page' \subseteq readable /\ \A e \in page' : e > position
    BY <2>1, PageIsFirst
  <2>3. V!TypeOK'
    BY <1>2, <2>1, <2>2 DEF V!TypeOK
  <2>4. \A f \in page', e \in readable : position < e /\ e < f => e \in page'
    BY <2>1, PageIsFirst
  <2>5. NextInv'
    BY <1>2, <2>2, <2>4 DEF NextInv
  <2> QED
    BY <1>2, <2>1, <2>3, <2>5 DEF OpenInv, V!NothingSkipped, V!Elements, DoneInv
<1>3. CASE V!ReadStatus \/ V!Sleep \/ V!Disconnect \/ V!ReadRun
  BY <1>3 DEF ValidationInv, V!ReadStatus, V!Sleep, V!Disconnect, V!ReadRun, V!log, V!stream,
              V!TypeOK, OpenInv, NextInv, V!NothingSkipped, V!Elements, DoneInv
<1>4. CASE UNCHANGED V!vars
  BY <1>4 DEF ValidationInv, V!vars, V!log, V!stream,
              V!TypeOK, OpenInv, NextInv, V!NothingSkipped, V!Elements, DoneInv
<1> QED
  BY <1>1, <1>2, <1>3, <1>4, ValidationInsert, ValidationCommit, ValidationYield DEF V!Next

LEMMA ValidationMoves == [AllNext]_all => [V!Next]_(V!vars)
BY DEF AllNext, InStream, InHistory, InCode, InInvestigation, InNotifications, InValidation,
       all, validation, V!vars, V!log, V!stream

LEMMA ValidationStreamed == AllSpec => []ValidationInv
<1>1. AllInit => ValidationInv
  BY ValidationStart DEF AllInit
<1>2. ValidationInv /\ [AllNext]_all => ValidationInv'
  BY ValidationMoves, ValidationStep
<1> QED
  BY <1>1, <1>2, PTL DEF AllSpec

\* A browser gets the events of a diagnosis, and those of a validation, in
\* their order and each once: Last-Event-ID resumes without a gap wherever
\* connections break and whatever the size of a page, and of a validation only
\* events are missed that were committed after a later one.
THEOREM InOrder == AllSpec => []EventsInOrder
<1>1. StreamInv /\ ValidationInv => EventsInOrder
  BY DEF StreamInv, ValidationInv, DoneInv, V!DoneIsShown, EventsInOrder
<1> QED
  BY <1>1, Streamed, ValidationStreamed, PTL
-----------------------------------------------------------------------------
Ensured == [at : {"idle", "locked", "read"}, target : Commit \cup {0},
            old : Commit \cup {0}, how : {"none", "scan", "diff"},
            contents : UNION {[F -> S!Version] : F \in SUBSET Navigation}]

\* Who has entered holds the lock of its process, and the commit it has read
\* is still that of the index, unless another process has replaced it.
CallerInv ==
  /\ caller \in [Caller -> Ensured]
  /\ \A k \in Caller : caller[k].at # "idle" => caller[k].target \in Commit
  /\ \A k \in Caller : caller[k].at \in {"locked", "read"} =>
       /\ lock[ProcessOf[k]] = k /\ caller[k].how # "none"
       /\ caller[k].how = "diff" => caller[k].old # 0 /\ head # 0
       /\ k \notin late => caller[k].old = head

\* What was read are selected files of the new commit.
ContentsInv ==
  \A k \in Caller : caller[k].at = "read" =>
    /\ DOMAIN caller[k].contents \subseteq S!Select(k)
    /\ \A p \in DOMAIN caller[k].contents : caller[k].contents[p] = Tree[caller[k].target][p]

CodeInv == S!TypeOK /\ CallerInv /\ ContentsInv /\ S!NavigationIsCurrent

LEMMA Versions == \A c \in Commit, p \in Path : Tree[c][p] \in S!Version /\ Tree[c][p] \in Nat
BY CodeAssumption DEF S!Version

LEMMA IdleIsEnsured == S!Idle \in Ensured
<1>1. << >> \in [{} -> S!Version]
  OBVIOUS
<1> QED
  BY <1>1 DEF S!Idle, S!NoCommit, Ensured

LEMMA CodeStart == S!Init => CodeInv
<1> SUFFICES ASSUME S!Init PROVE CodeInv
  OBVIOUS
<1> USE CodeAssumption DEF S!Init
<1>1. caller \in [Caller -> Ensured] /\ \A k \in Caller : caller[k].at = "idle" /\ caller[k].contents = << >>
  BY IdleIsEnsured DEF S!Idle
<1>2. rows \in [Path -> [version : S!Version \cup {0}, commit : Commit \cup {S!NoCommit}]]
  BY DEF S!NoRow, S!NoCommit
<1>3. S!TypeOK
  BY <1>1, <1>2 DEF S!TypeOK, S!Processes, S!Free
<1> QED
  BY <1>1, <1>3 DEF CodeInv, CallerInv, ContentsInv, S!NavigationIsCurrent, S!NoCommit

\* The callers of one process exclude each other.
LEMMA Alone ==
  ASSUME CodeInv, NEW k \in Caller, NEW l \in Caller, ProcessOf[k] = ProcessOf[l],
         caller[l].at \in {"locked", "read"}, lock[ProcessOf[k]] \in {k, S!Free}
  PROVE  k = l
BY CodeAssumption DEF CodeInv, CallerInv, S!Free

\* Only the state of a caller has changed.
CallerOnly(k) ==
  /\ caller' = [caller EXCEPT ![k] = caller'[k]] /\ caller'[k] \in Ensured
  /\ UNCHANGED <<head, rows, skipped, astray>>
  /\ late' \in {late, late \ {k}}

LEMMA CallerStep ==
  ASSUME CodeInv, NEW k \in Caller, CallerOnly(k),
         lock[ProcessOf[k]] \in {k, S!Free} \/ UNCHANGED lock,
         \A q \in S!Processes : q # ProcessOf[k] => lock'[q] = lock[q],
         lock' \in [S!Processes -> Caller \cup {S!Free}], gitFailures' \in 0..MaxGitFailures,
         caller'[k].at # "idle" => caller'[k].target \in Commit,
         caller'[k].at \in {"locked", "read"} =>
           /\ lock'[ProcessOf[k]] = k /\ caller'[k].how # "none"
           /\ caller'[k].how = "diff" => caller'[k].old # 0 /\ head # 0
           /\ k \notin late' => caller'[k].old = head,
         caller'[k].at = "read" =>
           /\ DOMAIN caller'[k].contents \subseteq S!Select(k)'
           /\ \A p \in DOMAIN caller'[k].contents :
                caller'[k].contents[p] = Tree[caller'[k].target][p]
  PROVE  CodeInv'
<1> USE CodeAssumption DEF CodeInv
<1>1. \A l \in Caller : l # k => caller'[l] = caller[l]
  BY DEF CallerOnly, CallerInv
<1>2. \A l \in Caller :
        l # k /\ caller[l].at \in {"locked", "read"} => lock'[ProcessOf[l]] = lock[ProcessOf[l]]
  <2> SUFFICES ASSUME NEW l \in Caller, l # k, caller[l].at \in {"locked", "read"}
      PROVE  lock'[ProcessOf[l]] = lock[ProcessOf[l]]
    OBVIOUS
  <2>1. CASE ProcessOf[l] = ProcessOf[k]
    BY <2>1, Alone
  <2>2. CASE ProcessOf[l] # ProcessOf[k]
    BY <2>2 DEF S!Processes
  <2> QED
    BY <2>1, <2>2
<1>3. CallerInv'
  <2>1. caller' \in [Caller -> Ensured]
    BY DEF CallerOnly, CallerInv
  <2>2. \A l \in Caller : caller'[l].at # "idle" => caller'[l].target \in Commit
    BY <1>1 DEF CallerInv
  <2>3. ASSUME NEW l \in Caller, caller'[l].at \in {"locked", "read"}
        PROVE  /\ lock'[ProcessOf[l]] = l /\ caller'[l].how # "none"
               /\ caller'[l].how = "diff" => caller'[l].old # 0 /\ head' # 0
               /\ l \notin late' => caller'[l].old = head'
    <3>1. CASE l = k
      BY <2>3, <3>1 DEF CallerOnly
    <3>2. CASE l # k
      BY <1>1, <1>2, <2>3, <3>2 DEF CallerOnly, CallerInv
    <3> QED
      BY <3>1, <3>2
  <2> QED
    BY <2>1, <2>2, <2>3 DEF CallerInv
<1>4. ContentsInv'
  <2> SUFFICES ASSUME NEW l \in Caller, caller'[l].at = "read"
      PROVE  /\ DOMAIN caller'[l].contents \subseteq S!Select(l)'
             /\ \A p \in DOMAIN caller'[l].contents :
                  caller'[l].contents[p] = Tree[caller'[l].target][p]
    BY DEF ContentsInv
  <2>1. CASE l # k
    BY <1>1, <2>1 DEF ContentsInv, S!Select
  <2> QED
    BY <2>1
<1>5. S!TypeOK'
  <2>1. \A l \in Caller : /\ caller'[l].at \in {"idle", "locked", "read"}
                          /\ DOMAIN caller'[l].contents \subseteq Navigation
    BY <1>3 DEF CallerInv, Ensured
  <2> QED
    BY <2>1 DEF S!TypeOK, CallerOnly
<1>6. S!NavigationIsCurrent'
  BY DEF S!NavigationIsCurrent, CallerOnly
<1> QED
  BY <1>3, <1>4, <1>5, <1>6

HasEntered(c, old, how) ==
  [S!Idle EXCEPT !.at = "locked", !.target = c, !.old = old, !.how = how]

LEMMA EnteredIsEnsured ==
  ASSUME NEW c \in Commit, NEW old \in Commit \cup {0}, NEW how \in {"scan", "diff"}
  PROVE  LET r == HasEntered(c, old, how)
         IN /\ r \in Ensured /\ r.at = "locked" /\ r.target = c /\ r.old = old /\ r.how = how
<1> DEFINE anything == UNION {[F -> S!Version] : F \in SUBSET Navigation}
           first == [S!Idle EXCEPT !.at = "locked"]
           second == [first EXCEPT !.target = c]
           third == [second EXCEPT !.old = old]
           r == HasEntered(c, old, how)
<1>1. Ensured = [at : {"idle", "locked", "read"}, target : Commit \cup {0},
                 old : Commit \cup {0}, how : {"none", "scan", "diff"}, contents : anything]
  BY DEF Ensured
<1>2. r = [third EXCEPT !.how = how]
  BY DEF HasEntered
<1> HIDE DEF anything, r, third
<1>3. third \in Ensured /\ third.at = "locked" /\ third.target = c /\ third.old = old
  <2> USE DEF third
  <2> HIDE DEF second
  <2>1. second \in Ensured /\ second.at = "locked" /\ second.target = c
    <3> USE DEF second
    <3> HIDE DEF first
    <3>1. first \in Ensured /\ first.at = "locked"
      <4>1. S!Idle \in Ensured
        BY IdleIsEnsured
      <4> QED
        BY <1>1, <4>1 DEF first
    <3> QED
      BY <1>1, <3>1
  <2> QED
    BY <1>1, <2>1
<1>4. r \in Ensured /\ r.at = "locked" /\ r.target = c /\ r.old = old /\ r.how = how
  BY <1>1, <1>2, <1>3
<1> QED
  BY <1>4 DEF r

LEMMA EnterStep ==
  ASSUME CodeInv, NEW k \in Caller, NEW c \in Commit, S!Enter(k, c)
  PROVE  CodeInv'
<1> USE DEF S!MayEnter, S!NoCommit, S!Enter
<1>1. caller'[k] = [S!Idle EXCEPT !.at = "locked", !.target = c, !.old = head,
                      !.how = IF head = 0 THEN "scan" ELSE "diff"]
  BY DEF CodeInv, CallerInv
<1>2. /\ caller'[k] \in Ensured /\ caller'[k].at = "locked" /\ caller'[k].old = head
      /\ caller'[k].target = c /\ caller'[k].how = IF head = 0 THEN "scan" ELSE "diff"
  <2> DEFINE how == IF head = 0 THEN "scan" ELSE "diff"
  <2>1. head \in Commit \cup {0} /\ how \in {"scan", "diff"}
    BY DEF CodeInv, S!TypeOK
  <2>2. caller'[k] = HasEntered(c, head, how)
    BY <1>1, Zenon DEF HasEntered
  <2> HIDE DEF how, S!Enter
  <2>3. /\ caller'[k] \in Ensured /\ caller'[k].at = "locked" /\ caller'[k].old = head
        /\ caller'[k].target = c /\ caller'[k].how = how
    BY <2>1, <2>2, EnteredIsEnsured
  <2> QED
    BY <2>3 DEF how
<1>3. CallerOnly(k)
  BY <1>2 DEF CallerOnly, CodeInv, CallerInv
<1>4. /\ lock' \in [S!Processes -> Caller \cup {S!Free}] /\ lock'[ProcessOf[k]] = k
      /\ \A q \in S!Processes : q # ProcessOf[k] => lock'[q] = lock[q]
  BY DEF CodeInv, S!TypeOK, S!Processes
<1>5. lock[ProcessOf[k]] = S!Free /\ gitFailures' \in 0..MaxGitFailures
  BY DEF CodeInv, S!TypeOK
<1> QED
  BY <1>2, <1>3, <1>4, <1>5, CallerStep

HasRead(e, contents) == [e EXCEPT !.at = "read", !.contents = contents]

LEMMA ReadIsEnsured ==
  ASSUME NEW e \in Ensured, NEW F \in SUBSET Navigation, NEW contents \in [F -> S!Version]
  PROVE  LET r == HasRead(e, contents)
         IN /\ r \in Ensured /\ r.at = "read" /\ r.target = e.target /\ r.old = e.old
            /\ r.how = e.how /\ r.contents = contents
<1> DEFINE anything == UNION {[G -> S!Version] : G \in SUBSET Navigation}
           half == [e EXCEPT !.at = "read"]
           r == HasRead(e, contents)
<1>1. contents \in anything
  OBVIOUS
<1>2. Ensured = [at : {"idle", "locked", "read"}, target : Commit \cup {0},
                 old : Commit \cup {0}, how : {"none", "scan", "diff"}, contents : anything]
  BY DEF Ensured
<1> HIDE DEF anything
<1>3. half \in Ensured /\ half.at = "read" /\ half.target = e.target /\ half.old = e.old /\ half.how = e.how
  BY <1>2
<1>4. r = [half EXCEPT !.contents = contents]
  BY DEF HasRead
<1> HIDE DEF half, r
<1>5. /\ r \in Ensured /\ r.at = "read" /\ r.target = e.target /\ r.old = e.old
      /\ r.how = e.how /\ r.contents = contents
  BY <1>1, <1>2, <1>3, <1>4
<1> QED
  BY <1>5 DEF r

LEMMA ReadStep ==
  ASSUME CodeInv, NEW k \in Caller, S!ReadFiles(k)
  PROVE  CodeInv'
<1> USE CodeAssumption DEF S!ReadFiles
<1>a. PICK F \in S!Readable(S!Select(k)) :
           /\ S!AllRead(S!Select(k), F) \/ gitFailures < MaxGitFailures
           /\ gitFailures' = IF S!AllRead(S!Select(k), F) THEN gitFailures ELSE gitFailures + 1
           /\ caller' = [caller EXCEPT ![k] = [@ EXCEPT !.at = "read",
                                                 !.contents = S!Contents(caller[k].target, F)]]
  BY Zenon
<1>1. /\ caller[k] \in Ensured /\ caller[k].at = "locked" /\ caller[k].target \in Commit
      /\ lock[ProcessOf[k]] = k /\ caller[k].how # "none"
      /\ caller[k].how = "diff" => caller[k].old # 0 /\ head # 0
      /\ k \notin late => caller[k].old = head
  BY DEF CodeInv, CallerInv
<1>2. F \subseteq S!Select(k) /\ S!Select(k) \subseteq Navigation
  BY <1>a DEF S!Readable, S!Select
<1>3. S!Contents(caller[k].target, F) \in [F -> S!Version]
  BY <1>1, <1>2, Versions DEF S!Contents
<1>4. caller'[k] = [caller[k] EXCEPT !.at = "read", !.contents = S!Contents(caller[k].target, F)]
  BY <1>a DEF CodeInv, CallerInv
<1>5. /\ caller'[k] \in Ensured /\ caller'[k].at = "read" /\ caller'[k].target = caller[k].target
      /\ caller'[k].old = caller[k].old /\ caller'[k].how = caller[k].how
      /\ caller'[k].contents = S!Contents(caller[k].target, F)
  <2>1. F \in SUBSET Navigation
    BY <1>2
  <2> DEFINE e == caller[k]
             g == S!Contents(caller[k].target, F)
             r == caller'[k]
  <2>2. e \in Ensured /\ g \in [F -> S!Version]
    BY <1>1, <1>3, Zenon
  <2>3. r = HasRead(e, g)
    BY <1>4, Zenon DEF HasRead
  <2> HIDE DEF e, g, r, S!ReadFiles
  <2>4. /\ r \in Ensured /\ r.at = "read" /\ r.target = e.target /\ r.old = e.old
        /\ r.how = e.how /\ r.contents = g
    BY <2>1, <2>2, <2>3, ReadIsEnsured
  <2> QED
    BY <2>4 DEF e, g, r
<1>6. CallerOnly(k)
  BY <1>a, <1>5 DEF CallerOnly, CodeInv, CallerInv
<1>7. S!Select(k)' = S!Select(k)
  BY <1>5 DEF S!Select
<1>8. /\ DOMAIN caller'[k].contents \subseteq S!Select(k)'
      /\ \A p \in DOMAIN caller'[k].contents : caller'[k].contents[p] = Tree[caller'[k].target][p]
  BY <1>2, <1>5, <1>7 DEF S!Contents
<1>9. /\ gitFailures' \in 0..MaxGitFailures /\ lock' \in [S!Processes -> Caller \cup {S!Free}]
      /\ late' = late
  BY <1>a DEF CodeInv, S!TypeOK
<1> QED
  BY <1>1, <1>5, <1>6, <1>8, <1>9, CallerStep

LEMMA FallBackStep ==
  ASSUME CodeInv, NEW k \in Caller, S!FallBack(k)
  PROVE  CodeInv'
<1> USE CodeAssumption DEF S!FallBack
<1>1. /\ caller[k] \in Ensured /\ caller[k].at = "locked" /\ caller[k].target \in Commit
      /\ lock[ProcessOf[k]] = k /\ (k \notin late => caller[k].old = head)
  BY DEF CodeInv, CallerInv
<1>2. caller'[k] = [caller[k] EXCEPT !.how = "scan"]
  BY DEF CodeInv, CallerInv
<1>3. /\ caller'[k] \in Ensured /\ caller'[k].at = "locked" /\ caller'[k].target \in Commit
      /\ caller'[k].old = caller[k].old /\ caller'[k].how = "scan"
  BY <1>1, <1>2 DEF Ensured
<1>4. CallerOnly(k)
  BY <1>3 DEF CallerOnly, CodeInv, CallerInv
<1>5. gitFailures' \in 0..MaxGitFailures /\ lock' \in [S!Processes -> Caller \cup {S!Free}]
  BY DEF CodeInv, S!TypeOK
<1> QED
  BY <1>1, <1>3, <1>4, <1>5, CallerStep

LEMMA FailStep ==
  ASSUME CodeInv, NEW k \in Caller, S!Fail(k)
  PROVE  CodeInv'
<1> USE CodeAssumption DEF S!Fail, S!Release
<1>1. lock[ProcessOf[k]] = k
  BY DEF CodeInv, CallerInv
<1>2. caller'[k] = S!Idle
  BY DEF CodeInv, CallerInv
<1>3. caller'[k] \in Ensured /\ caller'[k].at = "idle"
  BY <1>2, IdleIsEnsured DEF S!Idle
<1>4. CallerOnly(k)
  BY <1>2, <1>3 DEF CallerOnly, CodeInv, CallerInv
<1>5. gitFailures' \in 0..MaxGitFailures
  BY DEF CodeInv, S!TypeOK
<1>6. lock' \in [S!Processes -> Caller \cup {S!Free}]
  BY DEF CodeInv, S!TypeOK
<1> QED
  BY <1>1, <1>3, <1>4, <1>5, <1>6, CallerStep

\* The two that write: the lock is released, and whoever has entered elsewhere
\* is late from now on.
LEMMA WriteStep ==
  ASSUME CodeInv, NEW k \in Caller, caller[k].at = "read", S!Release(k), UNCHANGED gitFailures,
         head' = caller[k].target, late' = (late \cup S!Overtakes(k)) \ {k},
         rows' \in [Path -> [version : S!Version \cup {0}, commit : Commit \cup {0}]],
         skipped' \subseteq Navigation, astray' \subseteq Path,
         \A p \in Navigation \ (skipped' \cup astray') :
           rows'[p].version = Tree[caller[k].target][p],
         \A p \in Path : rows'[p] # S!NoRow =>
           rows'[p].commit = caller[k].target /\ p \in S!Files(caller[k].target) \cup astray'
  PROVE  CodeInv'
<1> USE CodeAssumption DEF S!Release
<1>1. /\ lock[ProcessOf[k]] = k /\ caller[k].target \in Commit
      /\ caller \in [Caller -> Ensured] /\ caller' = [caller EXCEPT ![k] = S!Idle]
      /\ lock' = [lock EXCEPT ![ProcessOf[k]] = S!Free]
      /\ lock \in [S!Processes -> Caller \cup {S!Free}]
  BY DEF CodeInv, CallerInv, S!TypeOK
<1>2. caller'[k] = S!Idle /\ S!Idle.at = "idle" /\ S!Idle.contents = << >>
  BY <1>1 DEF S!Idle
<1>3. caller' \in [Caller -> Ensured] /\ lock' \in [S!Processes -> Caller \cup {S!Free}]
  BY <1>1, IdleIsEnsured
<1>4. ASSUME NEW l \in Caller, caller'[l].at # "idle"
      PROVE  /\ l # k /\ caller'[l] = caller[l] /\ lock'[ProcessOf[l]] = lock[ProcessOf[l]]
             /\ l \in late' /\ caller[l].at \in {"locked", "read"}
  <2>1. l # k /\ caller'[l] = caller[l]
    BY <1>1, <1>2, <1>4
  <2>2. caller[l].at \in {"locked", "read"}
    BY <1>1, <1>4, <2>1 DEF Ensured
  <2>3. ProcessOf[l] # ProcessOf[k]
    BY <1>1, <2>1, <2>2, Alone
  <2> QED
    BY <1>1, <2>1, <2>2, <2>3 DEF S!Overtakes, S!Processes
<1>5. CallerInv'
  BY <1>1, <1>3, <1>4 DEF CallerInv, CodeInv
<1>6. ContentsInv'
  BY <1>4 DEF ContentsInv, CodeInv, S!Select
<1>7. \A l \in Caller : /\ caller'[l].at \in {"idle", "locked", "read"}
                        /\ DOMAIN caller'[l].contents \subseteq Navigation
  BY <1>3 DEF Ensured
<1>8. S!TypeOK'
  BY <1>1, <1>3, <1>7 DEF CodeInv, S!TypeOK, S!NoCommit, S!Overtakes
<1>9. S!NavigationIsCurrent'
  BY DEF S!NavigationIsCurrent, S!Files
<1> QED
  BY <1>5, <1>6, <1>8, <1>9 DEF CodeInv

LEMMA ReplaceStep ==
  ASSUME CodeInv, NEW k \in Caller, S!ReplaceRepository(k)
  PROVE  CodeInv'
<1> DEFINE contents == caller[k].contents
           c == caller[k].target
<1>1. /\ caller[k].at = "read" /\ caller[k].how = "scan" /\ head' = c
      /\ rows' = [p \in Path |-> IF p \in DOMAIN contents
                                 THEN [version |-> contents[p], commit |-> c] ELSE S!NoRow]
      /\ skipped' = S!Select(k) \ DOMAIN contents /\ astray' = {}
      /\ late' = (late \cup S!Overtakes(k)) \ {k}
      /\ S!Release(k) /\ UNCHANGED gitFailures
  BY DEF S!ReplaceRepository
<1>2. S!Select(k) = Navigation \cap S!Files(c)
  BY <1>1 DEF S!Select
<1>3. /\ c \in Commit /\ DOMAIN contents \subseteq S!Select(k)
      /\ \A p \in DOMAIN contents : contents[p] = Tree[c][p]
  BY <1>1 DEF CodeInv, CallerInv, ContentsInv
<1> HIDE DEF contents, c
<1>4. \A p \in Path : Tree[c][p] \in S!Version
  BY <1>3, Versions
<1>5. rows' \in [Path -> [version : S!Version \cup {0}, commit : Commit \cup {0}]]
  BY <1>1, <1>3, <1>4 DEF S!NoRow, S!NoCommit
<1>6. \A p \in Navigation \ skipped' : rows'[p].version = Tree[c][p]
  BY <1>1, <1>2, <1>3, CodeAssumption DEF S!NoRow, S!Files
<1>7. \A p \in Path : rows'[p] # S!NoRow => rows'[p].commit = c /\ p \in S!Files(c)
  BY <1>1, <1>2, <1>3
<1>8. skipped' \subseteq Navigation
  BY <1>1, <1>2
<1> QED
  BY <1>1, <1>5, <1>6, <1>7, <1>8, WriteStep DEF c

LEMMA ApplyStep ==
  ASSUME CodeInv, NEW k \in Caller, S!ApplyIncremental(k)
  PROVE  CodeInv'
<1> DEFINE contents == caller[k].contents
           c == caller[k].target
           old == caller[k].old
           removed == S!Removed(old, c)
<1>1. /\ caller[k].at = "read" /\ caller[k].how = "diff" /\ head' = c
      /\ rows' = [p \in Path |->
           IF p \in DOMAIN contents THEN [version |-> contents[p], commit |-> c]
           ELSE IF p \in Path \ (removed \cup DOMAIN contents) /\ rows[p] # S!NoRow
                THEN [rows[p] EXCEPT !.commit = c]
           ELSE S!NoRow]
      /\ skipped' = (skipped \cup S!Select(k)) \ (removed \cup DOMAIN contents)
      /\ astray' = (astray \cup IF k \in late THEN S!Unknown(k) ELSE {})
                     \ (removed \cup DOMAIN contents)
      /\ late' = (late \cup S!Overtakes(k)) \ {k}
      /\ S!Release(k) /\ UNCHANGED gitFailures
  BY DEF S!ApplyIncremental, S!KeptFiles
<1>2. S!Select(k) = Navigation \cap S!Changed(old, c)
  BY <1>1 DEF S!Select
<1>3. /\ c \in Commit /\ old # 0 /\ head # 0 /\ DOMAIN contents \subseteq S!Select(k)
      /\ \A p \in DOMAIN contents : contents[p] = Tree[c][p]
      /\ k \notin late => old = head
      /\ caller[k] \in Ensured
  BY <1>1 DEF CodeInv, CallerInv, ContentsInv
<1>4. /\ rows \in [Path -> [version : S!Version \cup {0}, commit : Commit \cup {0}]]
      /\ skipped \subseteq Navigation /\ astray \subseteq Path /\ old \in Commit /\ head \in Commit
      /\ \A p \in Navigation \ (skipped \cup astray) : rows[p].version = Tree[head][p]
      /\ \A p \in Path : rows[p] # S!NoRow => p \in S!Files(head) \cup astray
  BY <1>3 DEF CodeInv, S!TypeOK, S!NoCommit, S!NavigationIsCurrent, Ensured
<1>a. \A p \in Path : p \notin astray' /\ p \notin removed /\ p \notin DOMAIN contents =>
                      p \notin astray /\ Tree[head][p] = Tree[old][p]
  BY <1>1, <1>3 DEF S!Unknown
<1>5. \A p \in Path : p \notin S!Changed(old, c) /\ p \notin removed => Tree[c][p] = Tree[old][p]
  BY DEF S!Changed, S!Removed, S!Files
<1>6. S!Changed(old, c) \subseteq S!Files(c) /\ S!Files(c) \cap removed = {}
  BY DEF S!Changed, S!Removed, S!Files
<1>7. \A p \in removed : Tree[c][p] = 0
  BY DEF S!Removed, S!Files
<1> HIDE DEF contents, c, old, removed
<1>8. \A p \in Path : Tree[c][p] \in S!Version
  BY <1>3, Versions
<1>9. \A p \in Path :
        /\ p \in DOMAIN contents => rows'[p] = [version |-> contents[p], commit |-> c]
        /\ p \notin DOMAIN contents /\ p \notin removed /\ rows[p] # S!NoRow =>
             rows'[p].version = rows[p].version /\ rows'[p].commit = c
        /\ p \notin DOMAIN contents /\ (p \in removed \/ rows[p] = S!NoRow) => rows'[p] = S!NoRow
  BY <1>1, <1>4
<1>10. rows' \in [Path -> [version : S!Version \cup {0}, commit : Commit \cup {0}]]
  BY <1>1, <1>3, <1>4, <1>8 DEF S!NoRow, S!NoCommit
<1>11. \A p \in Navigation \ (skipped' \cup astray') : rows'[p].version = Tree[c][p]
  <2> SUFFICES ASSUME NEW p \in Navigation \ (skipped' \cup astray')
      PROVE  rows'[p].version = Tree[c][p]
    OBVIOUS
  <2>1. p \in Path /\ S!NoRow.version = 0
    BY CodeAssumption DEF S!NoRow
  <2>2. CASE p \in DOMAIN contents
    <3>1. rows'[p] = [version |-> contents[p], commit |-> c]
      BY <1>9, <2>1, <2>2
    <3>2. contents[p] = Tree[c][p]
      BY <1>3, <2>2
    <3> QED
      BY <3>1, <3>2
  <2>3. CASE p \in removed
    BY <1>2, <1>3, <1>6, <1>7, <1>9, <2>1, <2>3
  <2>4. CASE p \notin DOMAIN contents /\ p \notin removed
    <3>1. p \notin skipped /\ p \notin S!Changed(old, c)
      BY <1>1, <1>2, <2>4
    <3>2. rows[p].version = Tree[old][p] /\ Tree[c][p] = Tree[old][p]
      BY <1>4, <1>a, <1>5, <2>1, <2>4, <3>1
    <3> QED
      BY <1>9, <2>1, <2>4, <3>2
  <2> QED
    BY <2>2, <2>3, <2>4
<1>12. \A p \in Path : rows'[p] # S!NoRow => rows'[p].commit = c /\ p \in S!Files(c) \cup astray'
  <2> SUFFICES ASSUME NEW p \in Path, rows'[p] # S!NoRow
      PROVE  rows'[p].commit = c /\ p \in S!Files(c) \cup astray'
    OBVIOUS
  <2>1. CASE p \in DOMAIN contents
    <3>1. rows'[p] = [version |-> contents[p], commit |-> c]
      BY <1>9, <2>1
    <3>2. p \in S!Files(c)
      BY <1>2, <1>3, <1>6, <2>1
    <3> QED
      BY <3>1, <3>2
  <2>2. CASE p \notin DOMAIN contents
    <3>1. p \notin removed /\ rows[p] # S!NoRow /\ rows'[p].commit = c
      BY <1>9, <2>2
    <3>2. p \notin astray' => Tree[old][p] # 0
      BY <1>4, <1>a, <2>2, <3>1 DEF S!Files
    <3> QED
      BY <3>1, <3>2 DEF removed, S!Removed, S!Files
  <2> QED
    BY <2>1, <2>2
<1>13. skipped' \subseteq Navigation /\ astray' \subseteq Path
  BY <1>1, <1>2, <1>4 DEF S!Unknown
<1> QED
  BY <1>1, <1>10, <1>11, <1>12, <1>13, WriteStep DEF c

LEMMA CodeMoves == [AllNext]_all => [S!Next]_(S!vars)
BY DEF AllNext, InStream, InHistory, InCode, InInvestigation, InNotifications, InValidation,
       all, code, S!vars

\* Whatever way through older and newer commits led there, and whichever git
\* commands failed, the navigation index is that of the commit it names, for
\* every history of the repository and any number of callers in any number of
\* processes.  What is excepted for several processes (astray) is part of the
\* property: an update that was computed from a commit another process has
\* replaced since is wrong in the files that differ between the two, unless it
\* rewrites them.  Callers of one process are never excepted.
THEOREM IndexIsCurrent == AllSpec => []NavigationIsCurrent
<1>1. AllInit => CodeInv
  BY CodeStart DEF AllInit
<1>2. CodeInv /\ [AllNext]_all => CodeInv'
  <2> SUFFICES ASSUME CodeInv, [S!Next]_(S!vars) PROVE CodeInv'
    BY CodeMoves
  <2>1. ASSUME NEW k \in Caller, S!Ensure(k) PROVE CodeInv'
    BY <2>1, EnterStep, ReadStep, FallBackStep, FailStep, ReplaceStep, ApplyStep
       DEF S!Ensure
  <2>2. CASE UNCHANGED S!vars
    BY <2>2 DEF S!vars, CodeInv, S!TypeOK, CallerInv, ContentsInv, S!Select, S!NavigationIsCurrent
  <2> QED
    BY <2>1, <2>2 DEF S!Next
<1>3. CodeInv => NavigationIsCurrent
  BY DEF CodeInv, NavigationIsCurrent
<1> QED
  BY <1>1, <1>2, <1>3, PTL DEF AllSpec
-----------------------------------------------------------------------------
Queued(n) == \E i \in 1..Len(queued) : queued[i] = n
Holds(w, n) == holds[w] # N!Nothing /\ holds[w][1] = n
Held(n) == \E w \in Courier : Holds(w, n)
Timed(n) == \E t \in timers : t[1] = n
OnItsWay(n) == Queued(n) \/ Held(n) \/ Timed(n)

\* Nothing is in two places.
PlaceInv ==
  \A n \in Notification :
    /\ \A i, j \in 1..Len(queued) : queued[i] = n /\ queued[j] = n => i = j
    /\ \A v, w \in Courier : Holds(v, n) /\ Holds(w, n) => v = w
    /\ \A t, u \in timers : t[1] = n /\ u[1] = n => t = u
    /\ Queued(n) => ~Held(n) /\ ~Timed(n)
    /\ Held(n) => ~Timed(n)
    /\ OnItsWay(n) => sent[n] = 0 /\ n \notin dropped
    /\ n \in dropped => sent[n] = 0
    /\ sent[n] \in {0, 1}
    /\ reply[n] = "202" <=> OnItsWay(n) \/ sent[n] = 1 \/ n \in dropped

\* The row of a job tells how far it is.
RowInv ==
  /\ \A t \in timers : t[2] <= 2
  /\ \A n \in Notification :
       /\ reply[n] = "202" /\ sent[n] = 0 => n \in DOMAIN jobs
       /\ reply[n] # "202" => n \notin DOMAIN jobs
       /\ n \in DOMAIN jobs => (jobs[n].status = "DELIVERED" <=> sent[n] = 1)
       /\ Queued(n) => jobs[n].attempts <= 2
       /\ Timed(n) \/ n \in dropped => jobs[n].status = "RETRYING"

NotificationInv == N!TypeOK /\ PlaceInv /\ RowInv

LEMMA AttemptIsSomething == \A t \in N!Attempted : t # N!Nothing /\ t[1] \in Notification /\ t[2] \in 1..3
BY DEF N!Attempted, N!Nothing

LEMMA NotificationStart == N!Init => NotificationInv
<1> SUFFICES ASSUME N!Init PROVE NotificationInv
  OBVIOUS
<1> USE NotificationAssumption DEF N!Init
<1>1. queued \in Seq(Notification) /\ Len(queued) = 0 /\ DOMAIN jobs = {}
  OBVIOUS
<1>2. \A w \in Courier : holds[w] = N!Nothing
  OBVIOUS
<1>3. N!TypeOK
  <2>1. holds \in [Courier -> N!Attempted \cup {N!Nothing}]
    OBVIOUS
  <2>2. mode \in N!Modes /\ faults \in 0..MaxFaults /\ leaked \in Nat /\ timers \subseteq N!Attempted
    BY DEF N!Modes
  <2>3. /\ reply \in [Notification -> {"none", "202", "503"}]
        /\ sent \in [Notification -> Nat] /\ dropped \subseteq Notification
    OBVIOUS
  <2> HIDE DEF N!Init
  <2> QED
    BY <1>1, <2>1, <2>2, <2>3 DEF N!TypeOK
<1>4. \A n \in Notification : ~Queued(n) /\ ~Held(n) /\ ~Timed(n) /\ sent[n] = 0 /\ reply[n] = "none"
  BY <1>1, <1>2 DEF Queued, Held, Holds, Timed
<1>5. PlaceInv /\ RowInv
  BY <1>1, <1>2, <1>4 DEF PlaceInv, RowInv, OnItsWay, Holds
<1> QED
  BY <1>3, <1>5 DEF NotificationInv

\* What an enqueue does to the jobs: only delivered ones make room.
LEMMA EvictionIsDelivered ==
  ASSUME NEW n, NEW kept \in N!Evictions(n)
  PROVE  /\ DOMAIN kept \subseteq DOMAIN jobs
         /\ \A m \in DOMAIN kept : kept[m] = jobs[m]
         /\ \A m \in DOMAIN jobs \ DOMAIN kept : jobs[m].status = "DELIVERED" /\ n \notin DOMAIN jobs
<1>1. CASE kept = jobs
  BY <1>1
<1>2. ASSUME NEW m \in DOMAIN jobs, jobs[m].status = "DELIVERED", n \notin DOMAIN jobs,
             kept = [l \in DOMAIN jobs \ {m} |-> jobs[l]]
      PROVE  /\ DOMAIN kept \subseteq DOMAIN jobs
             /\ \A l \in DOMAIN kept : kept[l] = jobs[l]
             /\ \A l \in DOMAIN jobs \ DOMAIN kept : jobs[l].status = "DELIVERED" /\ n \notin DOMAIN jobs
  BY <1>2
<1>3. kept = jobs \/ (n \notin DOMAIN jobs /\ \E m \in DOMAIN jobs :
                       jobs[m].status = "DELIVERED" /\ kept = [l \in DOMAIN jobs \ {m} |-> jobs[l]])
  BY Zenon DEF N!Evictions, N!Without, N!Restrict
<1> QED
  BY <1>1, <1>2, <1>3

LEMMA EnqueueDoes ==
  ASSUME NEW n, NEW job, NEW ok \in BOOLEAN, N!Enqueue(n, job, ok)
  PROVE  /\ ok => queued' = Append(queued, n) /\ n \in DOMAIN jobs' /\ jobs'[n] = job
         /\ ~ok => queued' = queued /\ (n \in DOMAIN jobs' <=> n \in DOMAIN jobs)
                   /\ (n \in DOMAIN jobs => jobs'[n] = jobs[n])
         /\ \A m \in DOMAIN jobs' : m # n => m \in DOMAIN jobs /\ jobs'[m] = jobs[m]
         /\ \A m \in DOMAIN jobs \ DOMAIN jobs' : jobs[m].status = "DELIVERED"
<1>1. PICK kept \in N!Evictions(n) :
        \/ /\ ok /\ queued' = Append(queued, n)
           /\ jobs' = [m \in DOMAIN kept \cup {n} |-> IF m = n THEN job ELSE kept[m]]
        \/ ~ok /\ jobs' = kept /\ queued' = queued
  BY DEF N!Enqueue, N!Refused
<1>2. /\ DOMAIN kept \subseteq DOMAIN jobs
      /\ \A m \in DOMAIN kept : kept[m] = jobs[m]
      /\ \A m \in DOMAIN jobs \ DOMAIN kept : jobs[m].status = "DELIVERED" /\ n \notin DOMAIN jobs
  BY EvictionIsDelivered
<1> QED
  BY <1>1, <1>2

LEMMA Appended ==
  ASSUME queued \in Seq(Notification), NEW n \in Notification, queued' = Append(queued, n)
  PROVE  /\ queued' \in Seq(Notification) /\ \A m : (Queued(m)' <=> Queued(m) \/ m = n)
         /\ \A m : /\ Queued(m) => m # n
                   /\ \A i, j \in 1..Len(queued) : queued[i] = m /\ queued[j] = m => i = j
                => \A i, j \in 1..Len(queued') : queued'[i] = m /\ queued'[j] = m => i = j
<1>1. /\ queued' \in Seq(Notification) /\ Len(queued) \in Nat /\ Len(queued') = Len(queued) + 1
      /\ \A i \in 1..Len(queued) : queued'[i] = queued[i]
      /\ queued'[Len(queued) + 1] = n
  OBVIOUS
<1>2. 1..Len(queued') = 1..Len(queued) \cup {Len(queued) + 1} /\ Len(queued) + 1 \notin 1..Len(queued)
  BY <1>1
<1>3. \A m : (Queued(m)' <=> Queued(m) \/ m = n)
  BY <1>1, <1>2, Zenon DEF Queued
<1>4. ASSUME NEW m, Queued(m) => m # n,
             \A i, j \in 1..Len(queued) : queued[i] = m /\ queued[j] = m => i = j
      PROVE  \A i, j \in 1..Len(queued') : queued'[i] = m /\ queued'[j] = m => i = j
  <2> SUFFICES ASSUME NEW i \in 1..Len(queued'), NEW j \in 1..Len(queued'),
                      queued'[i] = m, queued'[j] = m
      PROVE  i = j
    OBVIOUS
  <2>1. CASE m = n
    <3>1. \A l \in 1..Len(queued) : queued'[l] # m
      BY <1>1, <1>4, <2>1 DEF Queued
    <3> QED
      BY <1>2, <3>1
  <2>2. CASE m # n
    <3>1. i \in 1..Len(queued) /\ j \in 1..Len(queued)
      BY <1>1, <1>2, <2>2
    <3> QED
      BY <1>1, <1>4, <3>1
  <2> QED
    BY <2>1, <2>2
<1> QED
  BY <1>1, <1>3, <1>4, Zenon

LEMMA Taken ==
  ASSUME queued \in Seq(Notification), queued # << >>, queued' = Tail(queued),
         \A n \in Notification :
           \A i, j \in 1..Len(queued) : queued[i] = n /\ queued[j] = n => i = j
  PROVE  /\ queued' \in Seq(Notification) /\ Head(queued) \in Notification /\ Queued(Head(queued))
         /\ \A n \in Notification : (Queued(n)' <=> Queued(n) /\ n # Head(queued))
         /\ \A n \in Notification :
              \A i, j \in 1..Len(queued') : queued'[i] = n /\ queued'[j] = n => i = j
<1>1. /\ queued' \in Seq(Notification) /\ Len(queued) \in Nat \ {0} /\ Len(queued') = Len(queued) - 1
      /\ \A i \in 1..Len(queued') : i + 1 \in 1..Len(queued) /\ queued'[i] = queued[i + 1]
      /\ Head(queued) = queued[1] /\ Head(queued) \in Notification
  OBVIOUS
<1>2. Queued(Head(queued))
  BY <1>1 DEF Queued
<1>3. \A n \in Notification : Queued(n)' => Queued(n) /\ n # Head(queued)
  BY <1>1 DEF Queued
<1>4. \A i \in 2..Len(queued) : i - 1 \in 1..Len(queued') /\ queued'[i - 1] = queued[i]
  BY <1>1
<1>5. \A n \in Notification : Queued(n) /\ n # Head(queued) => Queued(n)'
  BY <1>1, <1>4 DEF Queued
<1>6. \A n \in Notification :
        \A i, j \in 1..Len(queued') : queued'[i] = n /\ queued'[j] = n => i = j
  BY <1>1
<1> QED
  BY <1>1, <1>2, <1>3, <1>5, <1>6

Row == [status : {"QUEUED", "RETRYING", "DELIVERED"}, attempts : 0..3]

LEMMA SubmitStep ==
  ASSUME NotificationInv, NEW n \in Notification, N!Submit(n)
  PROVE  NotificationInv'
<1> USE DEF NotificationInv, N!Submit
<1>1. /\ queued \in Seq(Notification) /\ reply \in [Notification -> {"none", "202", "503"}]
      /\ reply[n] = "none" /\ \A m \in DOMAIN jobs : jobs[m] \in Row
  BY DEF N!TypeOK, Row
<1>2. /\ ~OnItsWay(n) /\ sent[n] = 0 /\ n \notin dropped /\ n \notin DOMAIN jobs
  BY <1>1 DEF PlaceInv, RowInv
<1>3. \A m : (Held(m)' <=> Held(m)) /\ (Timed(m)' <=> Timed(m)) /\ (\A w : (Holds(w, m)' <=> Holds(w, m)))
  BY DEF Held, Holds, Timed
<1>4. CASE reply' = [reply EXCEPT ![n] = "503"] /\ jobs' = jobs /\ queued' = queued
  <2>1. \A m : (Queued(m)' <=> Queued(m))
    BY <1>4 DEF Queued
  <2>2. PlaceInv' /\ RowInv'
    BY <1>1, <1>2, <1>3, <1>4, <2>1 DEF PlaceInv, RowInv, OnItsWay
  <2> QED
    BY <1>1, <1>4, <2>2 DEF N!TypeOK
<1>5. ASSUME N!Enqueue(n, N!Job("QUEUED", 0), FALSE), reply' = [reply EXCEPT ![n] = "503"]
      PROVE  NotificationInv'
  <2>1. /\ queued' = queued /\ n \notin DOMAIN jobs'
        /\ \A m \in DOMAIN jobs' : m \in DOMAIN jobs /\ jobs'[m] = jobs[m]
        /\ \A m \in DOMAIN jobs \ DOMAIN jobs' : jobs[m].status = "DELIVERED"
    BY <1>2, <1>5, EnqueueDoes
  <2>2. \A m : (Queued(m)' <=> Queued(m))
    BY <2>1 DEF Queued
  <2>3. PlaceInv'
    BY <1>1, <1>2, <1>3, <1>5, <2>1, <2>2 DEF PlaceInv, OnItsWay
  <2>4. RowInv'
    BY <1>1, <1>2, <1>3, <1>5, <2>1, <2>2 DEF PlaceInv, RowInv, OnItsWay
  <2>5. N!TypeOK'
    BY <1>1, <1>5, <2>1 DEF N!TypeOK
  <2> QED
    BY <2>3, <2>4, <2>5
<1>6. ASSUME N!Enqueue(n, N!Job("QUEUED", 0), TRUE), reply' = [reply EXCEPT ![n] = "202"]
      PROVE  NotificationInv'
  <2>1. /\ queued' = Append(queued, n) /\ n \in DOMAIN jobs'
        /\ jobs'[n] = [status |-> "QUEUED", attempts |-> 0]
        /\ \A m \in DOMAIN jobs' : m # n => m \in DOMAIN jobs /\ jobs'[m] = jobs[m]
        /\ \A m \in DOMAIN jobs \ DOMAIN jobs' : jobs[m].status = "DELIVERED"
    BY <1>6, EnqueueDoes DEF N!Job
  <2>2. /\ queued' \in Seq(Notification) /\ \A m : (Queued(m)' <=> Queued(m) \/ m = n)
        /\ \A m \in Notification :
             \A i, j \in 1..Len(queued') : queued'[i] = m /\ queued'[j] = m => i = j
    BY <1>1, <1>2, <2>1, Appended DEF PlaceInv, OnItsWay
  <2>3. PlaceInv'
    BY <1>1, <1>2, <1>3, <1>6, <2>1, <2>2 DEF PlaceInv, OnItsWay
  <2>4. RowInv'
    BY <1>1, <1>2, <1>3, <1>6, <2>1, <2>2 DEF PlaceInv, RowInv, OnItsWay
  <2>5. N!TypeOK'
    <3>1. DOMAIN jobs' \subseteq Notification /\ \A m \in DOMAIN jobs' : jobs'[m] \in Row
      BY <1>1, <2>1 DEF N!TypeOK, Row
    <3> QED
      BY <1>1, <1>6, <2>2, <3>1 DEF N!TypeOK, Row
  <2> QED
    BY <2>3, <2>4, <2>5
<1> QED
  BY <1>4, <1>5, <1>6

LEMMA TakeStep ==
  ASSUME NotificationInv, NEW w \in Courier, N!Take(w)
  PROVE  NotificationInv'
<1> USE DEF NotificationInv, N!Take
<1> DEFINE n == Head(queued)
<1>1. /\ queued \in Seq(Notification) /\ queued # << >> /\ queued' = Tail(queued)
      /\ holds \in [Courier -> N!Attempted \cup {N!Nothing}] /\ holds[w] = N!Nothing
      /\ holds' = [holds EXCEPT ![w] = <<n, jobs[n].attempts + 1>>]
      /\ \A m \in DOMAIN jobs : jobs[m] \in Row
  BY DEF N!TypeOK, Row
<1>2. /\ queued' \in Seq(Notification) /\ n \in Notification /\ Queued(n)
      /\ \A m \in Notification : (Queued(m)' <=> Queued(m) /\ m # n)
      /\ \A m \in Notification :
           \A i, j \in 1..Len(queued') : queued'[i] = m /\ queued'[j] = m => i = j
  BY <1>1, Taken DEF PlaceInv
<1> HIDE DEF n
<1>3. n \in DOMAIN jobs /\ jobs[n].attempts + 1 \in 1..3
  BY <1>1, <1>2 DEF PlaceInv, RowInv, OnItsWay, Row
<1>4. <<n, jobs[n].attempts + 1>> \in N!Attempted
  BY <1>2, <1>3 DEF N!Attempted
<1>5. /\ holds' \in [Courier -> N!Attempted \cup {N!Nothing}]
      /\ \A v \in Courier : v # w => holds'[v] = holds[v]
      /\ holds'[w] = <<n, jobs[n].attempts + 1>> /\ holds'[w] # N!Nothing /\ holds'[w][1] = n
  BY <1>1, <1>4, AttemptIsSomething
<1>6. /\ \A m \in Notification, v \in Courier :
           Holds(v, m)' <=> IF v = w THEN m = n ELSE Holds(v, m)
      /\ \A m : ~Holds(w, m)
  BY <1>1, <1>5 DEF Holds
<1>7. \A m \in Notification : /\ (Held(m)' <=> Held(m) \/ m = n) /\ (Timed(m)' <=> Timed(m))
  BY <1>6 DEF Held, Timed
<1>8. ~Held(n) /\ ~Timed(n) /\ sent[n] = 0 /\ n \notin dropped
  BY <1>2 DEF PlaceInv, OnItsWay
<1>9. \A m \in Notification : \A u, v \in Courier : Holds(u, m)' /\ Holds(v, m)' => u = v
  BY <1>6, <1>8 DEF PlaceInv, Held
<1>10. \A m \in Notification : OnItsWay(m)' <=> OnItsWay(m)
  BY <1>2, <1>7 DEF OnItsWay
<1>11. PlaceInv'
  BY <1>2, <1>7, <1>8, <1>9, <1>10 DEF PlaceInv
<1>12. RowInv'
  BY <1>2, <1>7 DEF RowInv
<1>13. N!TypeOK'
  BY <1>2, <1>5 DEF N!TypeOK
<1> QED
  BY <1>11, <1>12, <1>13

\* A courier that is done with its job.
LEMMA Released ==
  ASSUME NotificationInv, NEW w \in Courier, holds[w] # N!Nothing,
         holds' = [holds EXCEPT ![w] = N!Nothing]
  PROVE  /\ holds[w] \in N!Attempted /\ holds[w][1] \in Notification /\ holds[w][2] \in 1..3
         /\ holds' \in [Courier -> N!Attempted \cup {N!Nothing}]
         /\ Held(holds[w][1]) /\ holds[w][1] \in DOMAIN jobs
         /\ \A m \in Notification : (Held(m)' <=> Held(m) /\ m # holds[w][1])
         /\ \A m \in Notification : \A u, v \in Courier : Holds(u, m)' /\ Holds(v, m)' => u = v
<1> USE DEF NotificationInv
<1>1. /\ holds \in [Courier -> N!Attempted \cup {N!Nothing}]
      /\ holds[w] \in N!Attempted /\ holds[w][1] \in Notification /\ holds[w][2] \in 1..3
  BY AttemptIsSomething DEF N!TypeOK
<1>2. \A m \in Notification, v \in Courier : Holds(v, m)' <=> v # w /\ Holds(v, m)
  BY <1>1 DEF Holds
<1>3. Held(holds[w][1]) /\ Holds(w, holds[w][1])
  BY <1>1 DEF Held, Holds
<1>4. \A m \in Notification : (Held(m)' <=> Held(m) /\ m # holds[w][1])
  BY <1>1, <1>2, <1>3 DEF PlaceInv, Held, Holds
<1>5. holds[w][1] \in DOMAIN jobs
  BY <1>1, <1>3 DEF PlaceInv, RowInv, OnItsWay
<1>6. holds' \in [Courier -> N!Attempted \cup {N!Nothing}]
  BY <1>1
<1> QED
  BY <1>1, <1>2, <1>3, <1>4, <1>5, <1>6 DEF PlaceInv

LEMMA RetryStep ==
  ASSUME NotificationInv, NEW w \in Courier, N!Retry(w)
  PROVE  NotificationInv'
<1> DEFINE t == holds[w]
           n == t[1]
<1>1. /\ t \in N!Attempted /\ n \in Notification /\ t[2] \in 1..2
      /\ holds' \in [Courier -> N!Attempted \cup {N!Nothing}]
      /\ Held(n) /\ n \in DOMAIN jobs
      /\ \A m \in Notification : (Held(m)' <=> Held(m) /\ m # n)
      /\ \A m \in Notification : \A u, v \in Courier : Holds(u, m)' /\ Holds(v, m)' => u = v
  <2>1. t[2] < 3 /\ holds[w] # N!Nothing /\ holds' = [holds EXCEPT ![w] = N!Nothing]
    BY DEF N!Retry
  <2>2. /\ t \in N!Attempted /\ n \in Notification /\ t[2] \in 1..3
        /\ holds' \in [Courier -> N!Attempted \cup {N!Nothing}]
        /\ Held(n) /\ n \in DOMAIN jobs
        /\ \A m \in Notification : (Held(m)' <=> Held(m) /\ m # n)
        /\ \A m \in Notification : \A u, v \in Courier : Holds(u, m)' /\ Holds(v, m)' => u = v
    BY <2>1, Released
  <2> HIDE DEF t
  <2>3. t[2] \in 1..2
    BY <2>1, <2>2
  <2> QED
    BY <2>2, <2>3
<1>2. /\ jobs' = [jobs EXCEPT ![n] = [status |-> "RETRYING", attempts |-> t[2]]]
      /\ timers' = timers \cup {t}
      /\ UNCHANGED <<queued, mode, faults, leaked, reply, sent, dropped>>
  BY DEF N!Retry, N!Job
<1> HIDE DEF t
<1>3. /\ ~Queued(n) /\ ~Timed(n) /\ sent[n] = 0 /\ n \notin dropped
  BY <1>1 DEF NotificationInv, PlaceInv, OnItsWay
<1>4. \A m : (Queued(m)' <=> Queued(m)) /\ (Timed(m)' <=> Timed(m) \/ m = n)
  BY <1>2 DEF Queued, Timed
<1>5. \A m \in Notification : OnItsWay(m)' <=> OnItsWay(m)
  BY <1>1, <1>4 DEF OnItsWay
<1>6. \A m \in Notification : \A a, b \in timers' : a[1] = m /\ b[1] = m => a = b
  BY <1>2, <1>3 DEF NotificationInv, PlaceInv, Timed
<1>7. PlaceInv'
  BY <1>1, <1>2, <1>3, <1>4, <1>5, <1>6 DEF NotificationInv, PlaceInv
<1>8. /\ DOMAIN jobs' = DOMAIN jobs /\ jobs'[n] = [status |-> "RETRYING", attempts |-> t[2]]
      /\ \A m \in DOMAIN jobs : m # n => jobs'[m] = jobs[m]
  BY <1>1, <1>2
<1>9. RowInv'
  BY <1>1, <1>2, <1>3, <1>4, <1>8 DEF NotificationInv, RowInv
<1>10. N!TypeOK'
  <2>1. \A m \in DOMAIN jobs' : jobs'[m] \in Row
    <3>1. jobs'[n] \in Row
      BY <1>1, <1>8 DEF Row
    <3>2. \A m \in DOMAIN jobs : jobs[m] \in Row
      BY DEF NotificationInv, N!TypeOK, Row
    <3> QED
      BY <1>8, <3>1, <3>2, Zenon
  <2> QED
    BY <1>1, <1>2, <1>8, <2>1 DEF NotificationInv, N!TypeOK, Row
<1> QED
  BY <1>7, <1>9, <1>10 DEF NotificationInv

LEMMA DeliverStep ==
  ASSUME NotificationInv, NEW w \in Courier, N!Deliver(w)
  PROVE  NotificationInv'
<1> DEFINE t == holds[w]
           n == t[1]
<1>1. /\ t \in N!Attempted /\ n \in Notification /\ t[2] \in 1..3
      /\ holds' \in [Courier -> N!Attempted \cup {N!Nothing}]
      /\ Held(n) /\ n \in DOMAIN jobs
      /\ \A m \in Notification : (Held(m)' <=> Held(m) /\ m # n)
      /\ \A m \in Notification : \A u, v \in Courier : Holds(u, m)' /\ Holds(v, m)' => u = v
  BY Released DEF N!Deliver
<1>2. /\ jobs' = [jobs EXCEPT ![n] = [status |-> "DELIVERED", attempts |-> t[2]]]
      /\ sent' = [sent EXCEPT ![n] = @ + 1]
      /\ leaked' \in {leaked, leaked + 1}
      /\ UNCHANGED <<queued, timers, mode, faults, reply, dropped>>
  BY DEF N!Deliver, N!Job
<1> HIDE DEF t
<1>3. ~Queued(n) /\ ~Timed(n) /\ sent[n] = 0 /\ n \notin dropped
  BY <1>1 DEF NotificationInv, PlaceInv, OnItsWay
<1>4. \A m : (Queued(m)' <=> Queued(m)) /\ (Timed(m)' <=> Timed(m))
  BY <1>2 DEF Queued, Timed
<1>5. \A m \in Notification : OnItsWay(m)' <=> OnItsWay(m) /\ m # n
  BY <1>1, <1>3, <1>4 DEF OnItsWay
<1>6. /\ sent' \in [Notification -> Nat] /\ sent'[n] = 1
      /\ \A m \in Notification : m # n => sent'[m] = sent[m]
  BY <1>1, <1>2, <1>3 DEF NotificationInv, N!TypeOK
<1>7. PlaceInv'
  BY <1>1, <1>2, <1>3, <1>4, <1>5, <1>6 DEF NotificationInv, PlaceInv, OnItsWay
<1>8. /\ DOMAIN jobs' = DOMAIN jobs /\ jobs'[n] = [status |-> "DELIVERED", attempts |-> t[2]]
      /\ \A m \in DOMAIN jobs : m # n => jobs'[m] = jobs[m]
  BY <1>1, <1>2
<1>9. RowInv'
  BY <1>1, <1>2, <1>3, <1>4, <1>6, <1>8 DEF NotificationInv, N!TypeOK, RowInv
<1>10. N!TypeOK'
  <2>1. \A m \in DOMAIN jobs' : jobs'[m] \in Row
    <3>1. jobs'[n] \in Row
      BY <1>1, <1>8 DEF Row
    <3>2. \A m \in DOMAIN jobs : jobs[m] \in Row
      BY DEF NotificationInv, N!TypeOK, Row
    <3> QED
      BY <1>8, <3>1, <3>2, Zenon
  <2> QED
    BY <1>1, <1>2, <1>6, <1>8, <2>1 DEF NotificationInv, N!TypeOK, Row
<1> QED
  BY <1>7, <1>9, <1>10 DEF NotificationInv

LEMMA TimerStep ==
  ASSUME NotificationInv, NEW t \in timers, N!TimerFires(t)
  PROVE  NotificationInv'
<1> DEFINE n == t[1]
<1>1. /\ t \in N!Attempted /\ n \in Notification /\ t[2] \in 1..2 /\ Timed(n)
      /\ timers' = timers \ {t}
      /\ UNCHANGED <<holds, mode, faults, leaked, reply, sent>>
  BY AttemptIsSomething DEF NotificationInv, N!TypeOK, RowInv, Timed, N!TimerFires
<1>2. /\ ~Queued(n) /\ ~Held(n) /\ sent[n] = 0 /\ n \notin dropped
      /\ n \in DOMAIN jobs /\ jobs[n].status = "RETRYING"
  BY <1>1 DEF NotificationInv, PlaceInv, RowInv, OnItsWay
<1>3. PICK ok \in BOOLEAN : /\ N!Enqueue(n, [status |-> "RETRYING", attempts |-> t[2]], ok)
                            /\ dropped' = IF ok THEN dropped ELSE dropped \cup {n}
  BY DEF N!TimerFires, N!Job
<1>4. /\ \A m \in Notification : (Timed(m)' <=> Timed(m) /\ m # n)
      /\ \A m : (Held(m)' <=> Held(m)) /\ (\A w : (Holds(w, m)' <=> Holds(w, m)))
  BY <1>1 DEF NotificationInv, PlaceInv, Timed, Held, Holds
<1>5. /\ ok => queued' = Append(queued, n) /\ n \in DOMAIN jobs'
               /\ jobs'[n] = [status |-> "RETRYING", attempts |-> t[2]]
      /\ ~ok => queued' = queued /\ n \in DOMAIN jobs' /\ jobs'[n] = jobs[n]
      /\ \A m \in DOMAIN jobs' : m # n => m \in DOMAIN jobs /\ jobs'[m] = jobs[m]
      /\ \A m \in DOMAIN jobs \ DOMAIN jobs' : jobs[m].status = "DELIVERED"
  BY <1>2, <1>3, EnqueueDoes
<1>6. /\ queued' \in Seq(Notification) /\ \A m : (Queued(m)' <=> Queued(m) \/ (ok /\ m = n))
      /\ \A m \in Notification :
           \A i, j \in 1..Len(queued') : queued'[i] = m /\ queued'[j] = m => i = j
  <2>1. CASE ok
    <3>1. queued \in Seq(Notification) /\ queued' = Append(queued, n)
      BY <1>5, <2>1 DEF NotificationInv, N!TypeOK
    <3> QED
      BY <1>1, <1>2, <2>1, <3>1, Appended DEF NotificationInv, PlaceInv
  <2>2. CASE ~ok
    <3>1. queued' = queued
      BY <1>5, <2>2
    <3> QED
      BY <2>2, <3>1 DEF NotificationInv, N!TypeOK, PlaceInv, Queued
  <2> QED
    BY <2>1, <2>2
<1> HIDE DEF n
<1>7. \A m \in Notification : OnItsWay(m)' <=> OnItsWay(m) /\ (m = n => ok)
  BY <1>1, <1>2, <1>4, <1>6 DEF OnItsWay
<1>8. PlaceInv'
  BY <1>1, <1>2, <1>3, <1>4, <1>6, <1>7 DEF NotificationInv, PlaceInv, OnItsWay
<1>9. jobs'[n].status = "RETRYING" /\ (ok => jobs'[n].attempts <= 2)
  BY <1>1, <1>2, <1>5
<1>10. RowInv'
  <2>1. \A m \in Notification : m # n =>
          /\ reply'[m] = "202" /\ sent'[m] = 0 => m \in DOMAIN jobs'
          /\ reply'[m] # "202" => m \notin DOMAIN jobs'
          /\ m \in DOMAIN jobs' => (jobs'[m].status = "DELIVERED" <=> sent'[m] = 1)
    BY <1>1, <1>5 DEF NotificationInv, RowInv
  <2>2. \A m \in Notification : m # n =>
          /\ Queued(m)' => jobs'[m].attempts <= 2
          /\ Timed(m)' \/ m \in dropped' => jobs'[m].status = "RETRYING"
    <3> SUFFICES ASSUME NEW m \in Notification, m # n, Queued(m)' \/ Timed(m)' \/ m \in dropped'
        PROVE  jobs'[m] = jobs[m] /\ (Queued(m) \/ Timed(m) \/ m \in dropped)
               /\ (Queued(m)' => Queued(m)) /\ (Timed(m)' => Timed(m))
               /\ (m \in dropped' => m \in dropped)
      BY DEF NotificationInv, RowInv
    <3>1. /\ Queued(m) \/ Timed(m) \/ m \in dropped
          /\ (Queued(m)' => Queued(m)) /\ (Timed(m)' => Timed(m)) /\ (m \in dropped' => m \in dropped)
      BY <1>3, <1>4, <1>6
    <3>2. reply[m] = "202" /\ sent[m] = 0
      BY <3>1 DEF NotificationInv, PlaceInv, OnItsWay
    <3>3. m \in DOMAIN jobs /\ jobs[m].status # "DELIVERED"
      BY <3>2 DEF NotificationInv, RowInv
    <3>4. m \in DOMAIN jobs'
      BY <1>5, <3>3
    <3> QED
      BY <1>5, <3>1, <3>4
  <2>3. /\ n \in DOMAIN jobs' /\ reply'[n] = "202" /\ sent'[n] = 0 /\ (Queued(n)' => ok)
    BY <1>1, <1>2, <1>5, <1>6 DEF NotificationInv, PlaceInv, OnItsWay
  <2> QED
    BY <1>1, <1>9, <2>1, <2>2, <2>3 DEF NotificationInv, RowInv
<1>11. N!TypeOK'
  <2>1. DOMAIN jobs' \subseteq Notification /\ \A m \in DOMAIN jobs' : jobs'[m] \in Row
    BY <1>1, <1>2, <1>5 DEF NotificationInv, N!TypeOK, Row
  <2>2. dropped' \subseteq Notification
    BY <1>1, <1>3 DEF NotificationInv, N!TypeOK
  <2> QED
    BY <1>1, <1>6, <2>1, <2>2 DEF NotificationInv, N!TypeOK, Row
<1> QED
  BY <1>8, <1>10, <1>11 DEF NotificationInv

LEMMA NotificationMoves == [AllNext]_all => [N!Next]_(N!vars)
BY DEF AllNext, InStream, InHistory, InCode, InInvestigation, InNotifications, InValidation,
       all, notifications, N!vars

LEMMA NotificationStep == NotificationInv /\ [N!Next]_(N!vars) => NotificationInv'
<1> SUFFICES ASSUME NotificationInv, [N!Next]_(N!vars) PROVE NotificationInv'
  OBVIOUS
<1>1. ASSUME UNCHANGED <<jobs, queued, holds, timers, reply, sent, dropped>>,
             mode' \in N!Modes, faults' \in 0..MaxFaults, leaked' \in Nat
      PROVE  NotificationInv'
  BY <1>1 DEF NotificationInv, N!TypeOK, PlaceInv, RowInv, OnItsWay, Queued, Held, Holds, Timed
<1>2. CASE N!SetFault
  BY <1>1, <1>2, NotificationAssumption DEF N!SetFault, NotificationInv, N!TypeOK
<1>3. CASE N!FaultEnds
  BY <1>1, <1>3 DEF N!FaultEnds, NotificationInv, N!TypeOK, N!Modes
<1>4. CASE UNCHANGED N!vars
  BY <1>1, <1>4 DEF N!vars, NotificationInv, N!TypeOK
<1> QED
  BY <1>2, <1>3, <1>4, SubmitStep, TakeStep, RetryStep, DeliverStep, TimerStep DEF N!Next

\* The places of a notification are those the invariant tells apart.
LEMMA PlacesOf ==
  ASSUME NotificationInv, NEW n \in Notification
  PROVE  /\ OnItsWay(n) => \E x : N!Places(n) = {x}
         /\ ~OnItsWay(n) => N!Places(n) = {}
<1> DEFINE Q == {<<"pending", i>> : i \in {j \in DOMAIN queued : queued[j] = n}}
           W == {<<"worker", w>> : w \in {v \in Courier : holds[v] # N!Nothing /\ holds[v][1] = n}}
           T == {<<"timer", t>> : t \in {u \in timers : u[1] = n}}
<1>1. N!Places(n) = Q \cup W \cup T
  BY DEF N!Places
<1>2. DOMAIN queued = 1..Len(queued)
  BY DEF NotificationInv, N!TypeOK
<1>3. /\ ~Queued(n) => Q = {}
      /\ Queued(n) => \E x : Q = {x}
  <2>1. ASSUME NEW i \in 1..Len(queued), queued[i] = n PROVE Q = {<<"pending", i>>}
    <3>1. {j \in DOMAIN queued : queued[j] = n} = {i}
      BY <1>2, <2>1 DEF NotificationInv, PlaceInv
    <3> QED
      BY <3>1, Zenon
  <2> QED
    BY <1>2, <2>1 DEF Queued
<1>4. /\ ~Held(n) => W = {}
      /\ Held(n) => \E x : W = {x}
  <2>1. ASSUME NEW w \in Courier, Holds(w, n) PROVE W = {<<"worker", w>>}
    <3>1. {v \in Courier : holds[v] # N!Nothing /\ holds[v][1] = n} = {w}
      BY <2>1 DEF NotificationInv, PlaceInv, Holds
    <3> QED
      BY <3>1, Zenon
  <2>2. ~Held(n) => W = {}
    BY DEF Held, Holds
  <2> QED
    BY <2>1, <2>2 DEF Held
<1>5. /\ ~Timed(n) => T = {}
      /\ Timed(n) => \E x : T = {x}
  <2>1. ASSUME NEW t \in timers, t[1] = n PROVE T = {<<"timer", t>>}
    <3>1. {u \in timers : u[1] = n} = {t}
      BY <2>1 DEF NotificationInv, PlaceInv
    <3> QED
      BY <3>1, Zenon
  <2> QED
    BY <2>1 DEF Timed
<1>6. (Queued(n) => ~Held(n) /\ ~Timed(n)) /\ (Held(n) => ~Timed(n))
  BY DEF NotificationInv, PlaceInv
<1> HIDE DEF Q, W, T
<1> QED
  BY <1>1, <1>3, <1>4, <1>5, <1>6 DEF OnItsWay

LEMMA KeptNow == NotificationInv => N!NotificationKept
<1> SUFFICES ASSUME NotificationInv, NEW n \in Notification
    PROVE  /\ reply[n] = "202" =>
                /\ N!Cardinality(N!Places(n)) + sent[n] + N!Cardinality({n} \cap dropped) = 1
                /\ sent[n] = 0 => n \in DOMAIN jobs
                /\ n \in dropped => jobs[n].status = "RETRYING"
           /\ reply[n] # "202" => N!Places(n) = {} /\ n \notin DOMAIN jobs
           /\ n \in DOMAIN jobs => (jobs[n].status = "DELIVERED" <=> sent[n] = 1)
  BY DEF N!NotificationKept
<1>1. \A x : N!Cardinality({x}) = 1 /\ N!Cardinality({}) = 0
  <2>1. \A x : Cardinality({x}) = 1 /\ Cardinality({}) = 0
    BY FS_Singleton, FS_EmptySet
  <2> QED
    BY <2>1 DEF Cardinality, N!Cardinality
<1>2. /\ OnItsWay(n) => N!Cardinality(N!Places(n)) = 1
      /\ ~OnItsWay(n) => N!Places(n) = {} /\ N!Cardinality(N!Places(n)) = 0
  BY <1>1, PlacesOf
<1>3. N!Cardinality({n} \cap dropped) = IF n \in dropped THEN 1 ELSE 0
  <2>1. CASE n \in dropped
    <3>1. {n} \cap dropped = {n}
      BY <2>1
    <3> QED
      BY <1>1, <2>1, <3>1
  <2>2. CASE n \notin dropped
    <3>1. {n} \cap dropped = {}
      BY <2>2
    <3> QED
      BY <1>1, <2>2, <3>1
  <2> QED
    BY <2>1, <2>2
<1>4. reply[n] = "202" =>
        N!Cardinality(N!Places(n)) + sent[n] + N!Cardinality({n} \cap dropped) = 1
  BY <1>2, <1>3 DEF NotificationInv, PlaceInv
<1> QED
  BY <1>2, <1>4 DEF NotificationInv, PlaceInv, RowInv

-----------------------------------------------------------------------------
\* Where a worker of the history outbox is, and what is in its batch: rows that
\* exist or events that are committed.  Between its call and the mark, what it
\* is about to mark is there.
HasRow == {t \in Task : row[t] # "none"}
Shaped(w) ==
  /\ worker[w].at \in {"write", "written"} => worker[w].todo \in Seq(HasRow) /\ worker[w].todo # <<>>
  /\ worker[w].at \in {"post", "posted"} => worker[w].todo \in Seq(committed) /\ worker[w].todo # <<>>
  /\ worker[w].at \in {"idle", "pending", "events"} => worker[w].todo = <<>>
  /\ worker[w].at = "written" /\ losses = 0 => Head(worker[w].todo) \in doc
  /\ worker[w].at = "posted" => Head(worker[w].todo) \in posted

HistoryInv == /\ H!TypeOK /\ H!MarkedIsThere /\ \A w \in Worker : Shaped(w)
              /\ due \subseteq HasRow /\ IsFiniteSet(completed)

\* What a worker holds.
Batches == [at : {"idle", "pending", "write", "written", "events", "post", "posted"},
            todo : Seq(Task \cup H!Event)]

LEMMA HistoryStart == H!Init => HistoryInv
<1> SUFFICES ASSUME H!Init PROVE HistoryInv
  OBVIOUS
<1>1. \A w \in Worker : worker[w] = [at |-> "idle", todo |-> <<>>]
  BY DEF H!Init, H!Idle
<1>2. worker \in [Worker -> Batches]
  <2>1. H!Idle \in Batches
    BY DEF H!Idle, Batches
  <2> QED
    BY <2>1 DEF H!Init
<1>3. \A w \in Worker : Shaped(w)
  BY <1>1 DEF Shaped
<1>4. H!TypeOK
  BY <1>2, HistoryAssumption DEF H!Init, H!TypeOK, Batches
<1>5. H!MarkedIsThere /\ due \subseteq HasRow
  BY DEF H!Init, H!MarkedIsThere, HasRow
<1> QED
  BY <1>3, <1>4, <1>5, FS_EmptySet DEF HistoryInv, H!Init

\* The parts of a sequence over a set, and over a larger one.
LEMMA SeqParts ==
  ASSUME NEW E, NEW T, E \subseteq T, NEW q \in Seq(E)
  PROVE  /\ q \in Seq(T)
         /\ q # <<>> => Head(q) \in E /\ Tail(q) \in Seq(E)
<1>1. \A i \in 1..Len(q) : q[i] \in T
  BY ElementOfSeq
<1> QED
  BY <1>1, SeqOver, HeadTailProperties

\* An enumeration of a finite set is a sequence over it.
LEMMA Enumerated ==
  ASSUME NEW E, IsFiniteSet(E), NEW q \in H!SetToSeqs(E)
  PROVE  q \in Seq(E)
<1>1. Cardinality(E) \in Nat
  BY FS_CardinalityType
<1>2. q \in [1..Cardinality(E) -> E]
  BY DEF H!SetToSeqs, H!Cardinality, Cardinality
<1> QED
  BY <1>1, <1>2, FunctionIsSeq

\* What is known of a batch stays true while rows, commits, documents and
\* receipts are added, and whatever becomes of a lost index.
LEMMA ShapeKept ==
  ASSUME NEW w \in Worker, Shaped(w), worker'[w] = worker[w],
         HasRow \subseteq HasRow', committed \subseteq committed', posted \subseteq posted',
         losses' = 0 => losses = 0 /\ doc \subseteq doc'
  PROVE  Shaped(w)'
<1>1. worker[w].todo \in Seq(HasRow) => worker[w].todo \in Seq(HasRow')
  BY SeqParts
<1>2. worker[w].todo \in Seq(committed) => worker[w].todo \in Seq(committed')
  BY SeqParts
<1> QED
  BY <1>1, <1>2 DEF Shaped

\* A step of one worker leaves the batches of the others as they are.
LEMMA OthersKept ==
  ASSUME HistoryInv, NEW w \in Worker, NEW r \in Batches, worker' = [worker EXCEPT ![w] = r],
         HasRow \subseteq HasRow', committed \subseteq committed', posted \subseteq posted',
         losses' = 0 => losses = 0 /\ doc \subseteq doc',
         Shaped(w)'
  PROVE  worker' \in [Worker -> Batches] /\ \A v \in Worker : Shaped(v)'
<1>1. worker \in [Worker -> Batches]
  BY DEF HistoryInv, H!TypeOK, Batches
<1>2. \A v \in Worker : v # w => worker'[v] = worker[v]
  BY <1>1
<1>3. ASSUME NEW v \in Worker, v # w PROVE Shaped(v)'
  BY <1>2, <1>3, ShapeKept DEF HistoryInv
<1> QED
  BY <1>1, <1>3

LEMMA HistoryMoves == [AllNext]_all => [H!Next]_(H!vars)
BY DEF AllNext, InStream, InHistory, InCode, InInvestigation, InNotifications, InValidation,
       all, history, H!vars, H!rows, H!events

\* The platform completes a diagnosis, inserts or commits an event; a back-off
\* ends; the index is lost or its rows are queued again.
LEMMA PlatformStep ==
  ASSUME HistoryInv,
         \/ \E t \in Task : H!Complete(t) \/ H!BackoffEnds(t)
         \/ H!InsertEvent \/ \E e \in H!Event : H!CommitEvent(e)
         \/ H!LoseIndex \/ H!Rebuild
  PROVE  HistoryInv'
<1> USE DEF HistoryInv, H!rows, H!events
<1>1. ASSUME worker' = worker, HasRow \subseteq HasRow', committed \subseteq committed',
             posted' = posted, losses' = 0 => losses = 0 /\ doc \subseteq doc'
      PROVE  \A w \in Worker : Shaped(w)'
  BY <1>1, ShapeKept
<1>2. ASSUME NEW t \in Task, H!Complete(t) PROVE HistoryInv'
  <2>1. /\ completed' = completed \cup {t} /\ HasRow' = HasRow
        /\ UNCHANGED <<row, due, doc, open, committed, delivered, posted, worker, failures, losses>>
    BY <1>2 DEF H!Complete, HasRow
  <2>2. IsFiniteSet(completed')
    BY <2>1, FS_AddElement
  <2>3. H!TypeOK' /\ H!MarkedIsThere'
    BY <2>1 DEF H!TypeOK, H!MarkedIsThere
  <2> QED
    BY <1>1, <2>1, <2>2, <2>3
<1>3. ASSUME NEW t \in Task, H!BackoffEnds(t) PROVE HistoryInv'
  <2>1. /\ due' = due \cup {t} /\ t \in HasRow /\ HasRow' = HasRow
        /\ UNCHANGED <<completed, row, doc, open, committed, delivered, posted, worker, failures, losses>>
    BY <1>3 DEF H!BackoffEnds, HasRow
  <2>2. H!TypeOK' /\ H!MarkedIsThere'
    BY <2>1 DEF H!TypeOK, H!MarkedIsThere
  <2> QED
    BY <1>1, <2>1, <2>2
<1>4. CASE H!InsertEvent
  <2>1. /\ open' \subseteq open \cup H!Event /\ HasRow' = HasRow
        /\ UNCHANGED <<completed, row, due, doc, committed, delivered, posted, worker, failures, losses>>
    BY <1>4 DEF H!InsertEvent, HasRow
  <2>2. H!TypeOK' /\ H!MarkedIsThere'
    BY <2>1 DEF H!TypeOK, H!MarkedIsThere
  <2> QED
    BY <1>1, <2>1, <2>2
<1>5. ASSUME NEW e \in H!Event, H!CommitEvent(e) PROVE HistoryInv'
  <2>1. /\ open' = open \ {e} /\ committed' = committed \cup {e} /\ HasRow' = HasRow
        /\ UNCHANGED <<completed, row, due, doc, delivered, posted, worker, failures, losses>>
    BY <1>5 DEF H!CommitEvent, HasRow
  <2>2. H!TypeOK' /\ H!MarkedIsThere'
    BY <2>1 DEF H!TypeOK, H!MarkedIsThere
  <2> QED
    BY <1>1, <2>1, <2>2
<1>6. CASE H!LoseIndex
  <2>1. /\ doc' = {} /\ losses' = losses + 1 /\ losses' \in 1..MaxLosses /\ HasRow' = HasRow
        /\ UNCHANGED <<completed, row, due, open, committed, delivered, posted, worker, failures>>
    BY <1>6, HistoryAssumption DEF H!LoseIndex, H!TypeOK, HasRow
  <2>2. H!TypeOK' /\ H!MarkedIsThere'
    BY <2>1 DEF H!TypeOK, H!MarkedIsThere
  <2> QED
    BY <1>1, <2>1, <2>2
<1>7. CASE H!Rebuild
  <2>1. /\ row' = [t \in Task |-> IF row[t] = "none" THEN "none" ELSE "pending"]
        /\ due' = HasRow /\ losses > 0 /\ losses' = losses
        /\ UNCHANGED <<completed, doc, open, committed, delivered, posted, worker, failures>>
    BY <1>7 DEF H!Rebuild, HasRow
  <2>2. HasRow' = HasRow
    BY <2>1 DEF HasRow
  <2>3. H!TypeOK' /\ H!MarkedIsThere'
    BY <2>1, <2>2 DEF H!TypeOK, H!MarkedIsThere, HasRow
  <2> QED
    BY <1>1, <2>1, <2>2, <2>3
<1> QED
  BY <1>2, <1>3, <1>4, <1>5, <1>6, <1>7

\* What is left of a batch of rows, and of one of events.
LEMMA ContinuesRows ==
  ASSUME NEW q, HistoryInv, q \in Seq(HasRow)
  PROVE  /\ H!Continue(q) \in Batches /\ H!Continue(q).at \in {"write", "events"}
         /\ H!Continue(q).at = "write" => H!Continue(q).todo = q /\ q # <<>>
         /\ H!Continue(q).at = "events" => H!Continue(q).todo = <<>>
<1>1. HasRow \subseteq Task \cup H!Event
  BY DEF HasRow
<1>2. q \in Seq(Task \cup H!Event)
  BY <1>1, SeqParts
<1> QED
  BY <1>2 DEF H!Continue, Batches

LEMMA ContinuesEvents ==
  ASSUME NEW q, HistoryInv, q \in Seq(committed)
  PROVE  /\ H!ContinueEvents(q) \in Batches /\ H!ContinueEvents(q).at \in {"post", "idle"}
         /\ H!ContinueEvents(q).at = "post" => H!ContinueEvents(q).todo = q /\ q # <<>>
         /\ H!ContinueEvents(q).at = "idle" => H!ContinueEvents(q).todo = <<>>
<1>1. committed \subseteq Task \cup H!Event
  BY DEF HistoryInv, H!TypeOK
<1>2. q \in Seq(Task \cup H!Event)
  BY <1>1, SeqParts
<1> QED
  BY <1>2 DEF H!ContinueEvents, H!Idle, Batches

\* A worker captures what completed, and reads the rows that are due.
LEMMA ReadRowsStep ==
  ASSUME HistoryInv, NEW w \in Worker, H!CaptureCompleted(w) \/ H!ReadPending(w)
  PROVE  HistoryInv'
<1> USE DEF HistoryInv, H!rows, H!events
<1>1. worker[w] \in Batches
  BY DEF H!TypeOK, Batches
<1>2. CASE H!CaptureCompleted(w)
  <2> DEFINE new == {t \in completed : row[t] = "none"}
  <2>1. /\ worker[w].at = "idle" /\ due' = due \cup new
        /\ row' = [t \in Task |-> IF t \in new THEN "pending" ELSE row[t]]
        /\ worker' = [worker EXCEPT ![w].at = "pending"]
        /\ UNCHANGED <<completed, doc, open, committed, delivered, posted, failures, losses>>
    BY <1>2 DEF H!CaptureCompleted
  <2>2. HasRow' = HasRow \cup new /\ new \subseteq completed /\ completed \subseteq Task
    BY <2>1 DEF HasRow, H!TypeOK
  <2> DEFINE r == [worker[w] EXCEPT !.at = "pending"]
  <2>3. r \in Batches /\ r.at = "pending" /\ r.todo = <<>> /\ worker' = [worker EXCEPT ![w] = r]
    BY <1>1, <2>1 DEF Batches, Shaped
  <2>4. worker'[w] = r
    BY <2>3 DEF H!TypeOK
  <2> HIDE DEF r, new
  <2>5. Shaped(w)'
    BY <2>3, <2>4 DEF Shaped
  <2>6. worker' \in [Worker -> Batches] /\ \A v \in Worker : Shaped(v)'
    BY <2>1, <2>2, <2>3, <2>5, OthersKept
  <2>7. \A t \in Task : row'[t] = "indexed" => row[t] = "indexed"
    BY <2>1
  <2>8. row' \in [Task -> {"none", "pending", "indexed"}]
    BY <2>1 DEF H!TypeOK
  <2>9. H!TypeOK'
    BY <2>1, <2>2, <2>6, <2>8 DEF H!TypeOK, Batches
  <2>10. H!MarkedIsThere'
    BY <2>1, <2>2, <2>7 DEF H!MarkedIsThere, HasRow
  <2> QED
    BY <2>1, <2>2, <2>6, <2>9, <2>10
<1>3. CASE H!ReadPending(w)
  <2>1. PICK q \in H!SetToSeqs(H!PendingRows) : worker' = [worker EXCEPT ![w] = H!Continue(q)]
    BY <1>3 DEF H!ReadPending
  <2>2. /\ HasRow' = HasRow
        /\ UNCHANGED <<completed, row, due, doc, open, committed, delivered, posted, failures, losses>>
    BY <1>3 DEF H!ReadPending, HasRow
  <2>3. H!PendingRows \subseteq HasRow /\ HasRow \subseteq completed
    BY DEF H!PendingRows, HasRow, H!MarkedIsThere
  <2>4. IsFiniteSet(H!PendingRows)
    BY <2>3, FS_Subset
  <2>5. q \in Seq(HasRow)
    BY <2>3, <2>4, Enumerated, SeqParts
  <2>6. worker'[w] = H!Continue(q)
    BY <2>1 DEF H!TypeOK
  <2>7. Shaped(w)'
    BY <2>2, <2>5, <2>6, ContinuesRows DEF Shaped
  <2>8. worker' \in [Worker -> Batches] /\ \A v \in Worker : Shaped(v)'
    BY <2>1, <2>2, <2>5, <2>7, ContinuesRows, OthersKept
  <2>9. H!TypeOK' /\ H!MarkedIsThere'
    BY <2>2, <2>8 DEF H!TypeOK, H!MarkedIsThere, Batches
  <2> QED
    BY <2>2, <2>8, <2>9
<1> QED
  BY <1>2, <1>3

\* A worker writes the document of a row and marks it, or the index refuses.
LEMMA RowStep ==
  ASSUME HistoryInv, NEW w \in Worker, H!Write(w) \/ H!AcknowledgeRow(w) \/ H!WriteFails(w)
  PROVE  HistoryInv'
<1> USE DEF HistoryInv, H!rows, H!events
<1> DEFINE t == Head(worker[w].todo)
<1>1. worker[w] \in Batches /\ worker[w].at \in {"write", "written"}
  BY DEF H!TypeOK, Batches, H!Write, H!AcknowledgeRow, H!WriteFails
<1>2. /\ t \in HasRow /\ t \in Task /\ row[t] # "none" /\ t \in completed
      /\ Tail(worker[w].todo) \in Seq(HasRow)
  <2>1. worker[w].todo \in Seq(HasRow) /\ worker[w].todo # <<>>
    BY <1>1 DEF Shaped
  <2>2. t \in HasRow /\ Tail(worker[w].todo) \in Seq(HasRow)
    BY <2>1, SeqParts
  <2> QED
    BY <2>2 DEF HasRow, H!MarkedIsThere
<1>3. CASE H!Write(w)
  <2>1. /\ worker[w].at = "write" /\ doc' = doc \cup {t}
        /\ worker' = [worker EXCEPT ![w].at = "written"] /\ HasRow' = HasRow
        /\ UNCHANGED <<completed, row, due, open, committed, delivered, posted, failures, losses>>
    BY <1>3 DEF H!Write, HasRow
  <2> DEFINE r == [worker[w] EXCEPT !.at = "written"]
  <2>2. /\ r \in Batches /\ r.at = "written" /\ r.todo = worker[w].todo
        /\ worker' = [worker EXCEPT ![w] = r]
    BY <1>1, <2>1 DEF Batches
  <2>3. worker'[w] = r
    BY <2>2 DEF H!TypeOK
  <2>4. worker[w].todo \in Seq(HasRow) /\ worker[w].todo # <<>>
    BY <1>1 DEF Shaped
  <2> HIDE DEF r
  <2>5. Shaped(w)'
    BY <2>1, <2>2, <2>3, <2>4 DEF Shaped
  <2>6. worker' \in [Worker -> Batches] /\ \A v \in Worker : Shaped(v)'
    BY <2>1, <2>2, <2>5, OthersKept
  <2> HIDE DEF t
  <2>7. H!TypeOK' /\ H!MarkedIsThere'
    BY <1>2, <2>1, <2>6 DEF H!TypeOK, H!MarkedIsThere, Batches
  <2> QED
    BY <2>1, <2>6, <2>7
<1>4. CASE H!AcknowledgeRow(w)
  <2>1. /\ worker[w].at = "written" /\ row' = [row EXCEPT ![t] = "indexed"]
        /\ worker' = [worker EXCEPT ![w] = H!Continue(Tail(worker[w].todo))]
        /\ UNCHANGED <<completed, due, doc, open, committed, delivered, posted, failures, losses>>
    BY <1>4 DEF H!AcknowledgeRow
  <2>2. losses = 0 => t \in doc
    BY <2>1 DEF Shaped
  <2> DEFINE q == Tail(worker[w].todo)
  <2>3. worker'[w] = H!Continue(q) /\ worker' = [worker EXCEPT ![w] = H!Continue(q)]
    BY <2>1 DEF H!TypeOK
  <2>4. q \in Seq(HasRow)
    BY <1>2
  <2> HIDE DEF t, q
  <2>5. /\ row' \in [Task -> {"none", "pending", "indexed"}] /\ row'[t] = "indexed"
        /\ \A u \in Task : u # t => row'[u] = row[u]
    BY <1>2, <2>1 DEF H!TypeOK
  <2>6. HasRow' = HasRow
    BY <1>2, <2>5 DEF HasRow
  <2>7. Shaped(w)'
    BY <2>3, <2>4, <2>6, ContinuesRows DEF Shaped
  <2>8. worker' \in [Worker -> Batches] /\ \A v \in Worker : Shaped(v)'
    BY <2>1, <2>3, <2>4, <2>6, <2>7, ContinuesRows, OthersKept
  <2>9. H!TypeOK'
    BY <2>1, <2>5, <2>8 DEF H!TypeOK, Batches
  <2>10. H!MarkedIsThere'
    BY <2>1, <2>2, <2>5, <2>6 DEF H!MarkedIsThere, HasRow
  <2> QED
    BY <2>1, <2>6, <2>8, <2>9, <2>10
<1>5. CASE H!WriteFails(w)
  <2>1. /\ failures < MaxFailures /\ failures' = failures + 1 /\ doc' \in {doc, doc \cup {t}}
        /\ due' \in {due, due \ {t}} /\ HasRow' = HasRow
        /\ worker' = [worker EXCEPT ![w] = H!Continue(Tail(worker[w].todo))]
        /\ UNCHANGED <<completed, row, open, committed, delivered, posted, losses>>
    BY <1>5 DEF H!WriteFails, H!Retry, HasRow
  <2> DEFINE q == Tail(worker[w].todo)
  <2>2. worker'[w] = H!Continue(q) /\ worker' = [worker EXCEPT ![w] = H!Continue(q)]
    BY <2>1 DEF H!TypeOK
  <2>3. q \in Seq(HasRow)
    BY <1>2
  <2> HIDE DEF t, q
  <2>4. Shaped(w)'
    BY <2>1, <2>2, <2>3, ContinuesRows DEF Shaped
  <2>5. worker' \in [Worker -> Batches] /\ \A v \in Worker : Shaped(v)'
    BY <2>1, <2>2, <2>3, <2>4, ContinuesRows, OthersKept
  <2>6. failures' \in 0..MaxFailures
    BY <2>1, HistoryAssumption DEF H!TypeOK
  <2>7. H!TypeOK' /\ H!MarkedIsThere'
    BY <1>2, <2>1, <2>5, <2>6 DEF H!TypeOK, H!MarkedIsThere, Batches
  <2> QED
    BY <2>1, <2>5, <2>7
<1> QED
  BY <1>3, <1>4, <1>5

\* A worker reads events, posts one and marks it, or Logstash refuses.
LEMMA EventStep ==
  ASSUME HistoryInv, NEW w \in Worker,
         H!ReadEvents(w) \/ H!Post(w) \/ H!AcknowledgeEvent(w) \/ H!PostFails(w)
  PROVE  HistoryInv'
<1> USE DEF HistoryInv, H!rows, H!events
<1> DEFINE e == Head(worker[w].todo)
           q == Tail(worker[w].todo)
<1>1. worker[w] \in Batches
  BY DEF H!TypeOK, Batches
<1>2. worker[w].at \in {"post", "posted"} =>
        /\ worker[w].todo \in Seq(committed) /\ worker[w].todo # <<>>
        /\ e \in committed /\ q \in Seq(committed)
  BY SeqParts DEF Shaped
<1>3. committed \subseteq H!Event
  BY DEF H!TypeOK
<1>4. CASE H!ReadEvents(w)
  <2>1. PICK ids \in H!SetToSeqs(H!PendingEvents) :
          worker' = [worker EXCEPT ![w] = H!ContinueEvents(ids)]
    BY <1>4 DEF H!ReadEvents
  <2>2. /\ HasRow' = HasRow
        /\ UNCHANGED <<completed, row, due, doc, open, committed, delivered, posted, failures, losses>>
    BY <1>4 DEF H!ReadEvents, HasRow
  <2>3. H!PendingEvents \subseteq committed /\ H!PendingEvents \subseteq 1..MaxEvent
    BY <1>3 DEF H!PendingEvents, H!Undelivered, H!Event
  <2>4. IsFiniteSet(H!PendingEvents)
    <3>1. IsFiniteSet(1..MaxEvent)
      BY HistoryAssumption, FS_Interval
    <3> QED
      BY <2>3, <3>1, FS_Subset, Zenon
  <2>5. ids \in Seq(committed)
    BY <2>3, <2>4, Enumerated, SeqParts
  <2>6. worker'[w] = H!ContinueEvents(ids)
    BY <2>1 DEF H!TypeOK
  <2>7. Shaped(w)'
    BY <2>2, <2>5, <2>6, ContinuesEvents DEF Shaped
  <2>8. worker' \in [Worker -> Batches] /\ \A v \in Worker : Shaped(v)'
    BY <2>1, <2>2, <2>5, <2>7, ContinuesEvents, OthersKept
  <2>9. H!TypeOK' /\ H!MarkedIsThere'
    BY <2>2, <2>8 DEF H!TypeOK, H!MarkedIsThere, Batches
  <2> QED
    BY <2>2, <2>8, <2>9
<1>5. CASE H!Post(w)
  <2>1. /\ worker[w].at = "post" /\ posted' = posted \cup {e}
        /\ worker' = [worker EXCEPT ![w].at = "posted"] /\ HasRow' = HasRow
        /\ UNCHANGED <<completed, row, due, doc, open, committed, delivered, failures, losses>>
    BY <1>5 DEF H!Post, HasRow
  <2> DEFINE r == [worker[w] EXCEPT !.at = "posted"]
  <2>2. /\ r \in Batches /\ r.at = "posted" /\ r.todo = worker[w].todo
        /\ worker' = [worker EXCEPT ![w] = r]
    BY <1>1, <2>1 DEF Batches
  <2>3. worker'[w] = r
    BY <2>2 DEF H!TypeOK
  <2> HIDE DEF r
  <2>4. Shaped(w)'
    BY <1>2, <2>1, <2>2, <2>3 DEF Shaped
  <2>5. worker' \in [Worker -> Batches] /\ \A v \in Worker : Shaped(v)'
    BY <2>1, <2>2, <2>4, OthersKept
  <2>6. e \in committed
    BY <1>2, <2>1
  <2> HIDE DEF e, q
  <2>7. H!TypeOK' /\ H!MarkedIsThere'
    BY <1>3, <2>1, <2>5, <2>6 DEF H!TypeOK, H!MarkedIsThere, Batches
  <2> QED
    BY <2>1, <2>5, <2>7
<1>6. CASE H!AcknowledgeEvent(w)
  <2>1. /\ worker[w].at = "posted" /\ delivered' = delivered \cup {e}
        /\ worker' = [worker EXCEPT ![w] = H!ContinueEvents(q)] /\ HasRow' = HasRow
        /\ UNCHANGED <<completed, row, due, doc, open, committed, posted, failures, losses>>
    BY <1>6 DEF H!AcknowledgeEvent, HasRow
  <2>2. e \in posted /\ e \in committed /\ q \in Seq(committed)
    BY <1>2, <2>1 DEF Shaped
  <2> HIDE DEF e, q
  <2>3. worker'[w] = H!ContinueEvents(q)
    BY <2>1 DEF H!TypeOK
  <2>4. Shaped(w)'
    BY <2>1, <2>2, <2>3, ContinuesEvents DEF Shaped
  <2>5. worker' \in [Worker -> Batches] /\ \A v \in Worker : Shaped(v)'
    BY <2>1, <2>2, <2>4, ContinuesEvents, OthersKept
  <2>6. H!TypeOK' /\ H!MarkedIsThere'
    BY <2>1, <2>2, <2>5 DEF H!TypeOK, H!MarkedIsThere, Batches
  <2> QED
    BY <2>1, <2>5, <2>6
<1>7. CASE H!PostFails(w)
  <2>1. /\ failures < MaxFailures /\ failures' = failures + 1 /\ posted' \in {posted, posted \cup {e}}
        /\ worker' = [worker EXCEPT ![w] = H!Idle] /\ HasRow' = HasRow
        /\ UNCHANGED <<completed, row, due, doc, open, committed, delivered, losses>>
        /\ e \in committed
    BY <1>2, <1>7 DEF H!PostFails, HasRow
  <2> HIDE DEF e, q
  <2>2. H!Idle \in Batches /\ H!Idle.at = "idle" /\ H!Idle.todo = <<>>
    BY DEF H!Idle, Batches
  <2>3. worker'[w] = H!Idle
    BY <2>1 DEF H!TypeOK
  <2>4. Shaped(w)'
    BY <2>2, <2>3 DEF Shaped
  <2>5. worker' \in [Worker -> Batches] /\ \A v \in Worker : Shaped(v)'
    BY <2>1, <2>2, <2>4, OthersKept
  <2>6. failures' \in 0..MaxFailures
    BY <2>1, HistoryAssumption DEF H!TypeOK
  <2>7. H!TypeOK' /\ H!MarkedIsThere'
    BY <1>3, <2>1, <2>5, <2>6 DEF H!TypeOK, H!MarkedIsThere, Batches
  <2> QED
    BY <2>1, <2>5, <2>7
<1> QED
  BY <1>4, <1>5, <1>6, <1>7

LEMMA HistoryStep == HistoryInv /\ [H!Next]_(H!vars) => HistoryInv'
<1> SUFFICES ASSUME HistoryInv, [H!Next]_(H!vars) PROVE HistoryInv'
  OBVIOUS
<1>1. ASSUME NEW w \in Worker, H!Abandon(w) PROVE HistoryInv'
  <2>1. /\ failures < MaxFailures /\ failures' = failures + 1
        /\ worker' = [worker EXCEPT ![w] = H!Idle] /\ HasRow' = HasRow
        /\ UNCHANGED <<completed, row, due, doc, open, committed, delivered, posted, losses>>
    BY <1>1 DEF H!Abandon, H!rows, H!events, HasRow
  <2>2. H!Idle \in Batches /\ H!Idle.at = "idle" /\ H!Idle.todo = <<>>
    BY DEF H!Idle, Batches
  <2>3. worker'[w] = H!Idle
    BY <2>1 DEF HistoryInv, H!TypeOK
  <2>4. Shaped(w)'
    BY <2>2, <2>3 DEF Shaped
  <2>5. worker' \in [Worker -> Batches] /\ \A v \in Worker : Shaped(v)'
    BY <2>1, <2>2, <2>4, OthersKept
  <2>6. failures' \in 0..MaxFailures
    BY <2>1, HistoryAssumption DEF HistoryInv, H!TypeOK
  <2>7. H!TypeOK' /\ H!MarkedIsThere'
    BY <2>1, <2>5, <2>6 DEF HistoryInv, H!TypeOK, H!MarkedIsThere, Batches
  <2> QED
    BY <2>1, <2>5, <2>7 DEF HistoryInv
<1>2. CASE UNCHANGED H!vars
  <2>1. UNCHANGED <<completed, row, due, doc, open, committed, delivered, posted, worker, failures, losses>>
    BY <1>2 DEF H!vars, H!rows, H!events
  <2>2. \A w \in Worker : Shaped(w)' /\ HasRow' = HasRow
    BY <2>1 DEF HistoryInv, Shaped, HasRow
  <2> QED
    BY <2>1, <2>2 DEF HistoryInv, H!TypeOK, H!MarkedIsThere, HasRow
<1> QED
  BY <1>1, <1>2, PlatformStep, ReadRowsStep, RowStep, EventStep DEF H!Next, H!RunOnce

\* What the history outbox marks as delivered was delivered.  An accepted
\* notification is on its way in one place, or was delivered once, or its retry
\* met a full queue; a refused one has left nothing.  Whatever the number of
\* workers, the sizes of the batches, the capacity, the limit of the history and
\* the faults.
THEOREM Accounted == AllSpec => []OutboxesAreTrue
<1>1. AllInit => NotificationInv /\ HistoryInv
  BY NotificationStart, HistoryStart DEF AllInit
<1>2. NotificationInv /\ [AllNext]_all => NotificationInv'
  BY NotificationMoves, NotificationStep
<1>3. HistoryInv /\ [AllNext]_all => HistoryInv'
  BY HistoryMoves, HistoryStep
<1>4. NotificationInv /\ HistoryInv => OutboxesAreTrue
  BY KeptNow DEF NotificationInv, HistoryInv, OutboxesAreTrue
<1> QED
  BY <1>1, <1>2, <1>3, <1>4, PTL DEF AllSpec
=============================================================================
