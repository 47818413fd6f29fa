----------------------- MODULE RepeatedRequestsProofs -----------------------
(***************************************************************************)
(* Proofs about RepeatedRequests for any processes, requests, orders and   *)
(* stops: each part behaves as its own module says, whatever the others'   *)
(* constants are, and so keeps what is proved of that module.              *)
(***************************************************************************)
EXTENDS RepeatedRequests, ValidationRunRefinement, TLAPS

OP == INSTANCE OrderSagaProofs WITH status <- orders, task <- threads

USE RunAssumption

-----------------------------------------------------------------------------
(* What the proofs need of the types.                                       *)

Statuses == Working \union Terminal \union {"NONE", "PENDING"}
Handlers == {Idle} \union [at : {"fingerprint", "store"}, request : Requests, seen : Statuses]
Places   == {"none", "queued", "prepare", "frozen", "sides", "classify", "final",
             "evidence", "error", "interrupted", "abort"}
Works    == [Sides -> {"idle", "begin", "running", "done", "raised"}]
Shapes == /\ status \in Statuses
          /\ handler \in [Procs -> Handlers]
          /\ task \in [Procs -> Places]
          /\ work \in [Procs -> Works]
          /\ ran \in [Sides -> Nat]
          /\ DOMAIN files = Procs

LEMMA HandlerShape ==
  ASSUME NEW h \in Handlers, h.at \in {"fingerprint", "store"}
  PROVE  h \in [at : {"fingerprint", "store"}, request : Requests, seen : Statuses]
BY DEF Handlers, Idle

\* Cancelling a task leaves the types and starts nothing.
LEMMA InterruptShape ==
  ASSUME Shapes, NEW p \in Procs, Interrupt(p)
  PROVE  /\ task' \in [Procs -> Places] /\ work' \in [Procs -> Works]
         /\ \A q \in Procs \ {p} : UNCHANGED <<task[q], work[q]>>
         /\ task'[p] \in {"none", "interrupted"}
         /\ \A s \in Sides : work'[p][s] \in {work[p][s], "idle"}
<1> DEFINE w == IF task[p] # "sides" THEN work[p] ELSE
                  [s \in Sides |-> IF work[p][s] \in {"begin", "running"} THEN "idle" ELSE work[p][s]]
           t == CASE task[p] = "queued" -> "none"
                  [] task[p] = "none"   -> "none"
                  [] OTHER              -> "interrupted"
<1>1. task' = [task EXCEPT ![p] = t] /\ work' = [work EXCEPT ![p] = w]
  BY DEF Interrupt
<1>2. t \in {"none", "interrupted"}
  OBVIOUS
<1>3. w \in Works /\ \A s \in Sides : w[s] \in {work[p][s], "idle"}
  BY DEF Shapes, Works
<1> HIDE DEF w, t
<1> QED
  BY <1>1, <1>2, <1>3 DEF Shapes, Places

-----------------------------------------------------------------------------
(* RunsOnce: begin is the only way in, and it needs PENDING.                *)

\* p is on its way to starting side s: before the sides, or at the first of it.
Prepares(p) == task[p] \in {"prepare", "frozen"}
Pre(p, s) == Prepares(p) \/ work[p][s] = "begin"

OnceInv ==
  \A s \in Sides :
    /\ status \in {"NONE", "PENDING"} => ran[s] = 0 /\ \A p \in Procs : ~Pre(p, s)
    /\ \A p \in Procs : Pre(p, s) => ran[s] = 0 /\ \A q \in Procs \ {p} : ~Pre(q, s)
    /\ \A p \in Procs : work[p][s] = "begin" => ~Prepares(p)
    /\ ran[s] <= 1

\* Steps after which nobody else is on the way in.
NoneJoins == /\ UNCHANGED ran
             /\ \A p \in Procs : Prepares(p)' => Prepares(p)
             /\ \A p \in Procs, s \in Sides : work'[p][s] = "begin" => work[p][s] = "begin"
             /\ status' \in {"NONE", "PENDING"} => status \in {"NONE", "PENDING"}

LEMMA NoneJoinsStep == OnceInv /\ NoneJoins => OnceInv'
BY DEF OnceInv, NoneJoins, Pre

LEMMA ShapesStep == Shapes /\ [Next]_vars => Shapes'
<1> SUFFICES ASSUME Shapes, [Next]_vars PROVE Shapes'
  OBVIOUS
<1> USE DEF Statuses, Working, Terminal, Places, db, local, answers, counts, made, GoTo
<1>1. ASSUME NEW p \in Procs, NEW r \in Requests, Post(p, r) PROVE Shapes'
  <2>1. status' \in Statuses
    BY <1>1 DEF Post, Shapes
  <2>2. [at |-> "fingerprint", request |-> r, seen |-> status'] \in Handlers
    BY <2>1 DEF Handlers
  <2>3. /\ handler' = [handler EXCEPT ![p] = [at |-> "fingerprint", request |-> r, seen |-> status']]
        /\ UNCHANGED <<task, work, ran, files>>
    BY <1>1 DEF Post
  <2> QED
    BY <2>1, <2>2, <2>3 DEF Shapes
<1>2. ASSUME NEW p \in Procs, CheckRequest(p) PROVE Shapes'
  <2>1. handler[p] \in [at : {"fingerprint", "store"}, request : Requests, seen : Statuses]
    BY <1>2, HandlerShape DEF CheckRequest, Shapes
  <2>2. [handler[p] EXCEPT !.at = "store"] \in Handlers /\ Idle \in Handlers
    BY <2>1 DEF Handlers
  <2>3. /\ \E h \in Handlers : handler' = [handler EXCEPT ![p] = h]
        /\ task' = task \/ \E t \in {"queued", task[p]} : task' = [task EXCEPT ![p] = t]
        /\ UNCHANGED <<status, work, ran, files>>
    BY <1>2, <2>2 DEF CheckRequest, Accept
  <2> QED
    BY <2>3 DEF Shapes
<1>3. ASSUME NEW p \in Procs, Store(p) PROVE Shapes'
  <2>1. Idle \in Handlers
    BY DEF Handlers
  <2>2. /\ handler' = [handler EXCEPT ![p] = Idle]
        /\ task' = task \/ \E t \in {"queued", task[p]} : task' = [task EXCEPT ![p] = t]
        /\ UNCHANGED <<status, work, ran, files>>
    BY <1>3 DEF Store, Accept
  <2> QED
    BY <2>1, <2>2 DEF Shapes
<1>4. ASSUME NEW p \in Procs,
             \/ Begin(p) \/ Load(p) \/ Compare(p) \/ Classify(p) \/ Conclude(p) \/ Evidence(p)
             \/ SideRaises(p) \/ RecordError(p) \/ ReadInterrupted(p) \/ Abort(p)
             \/ Start(p) \/ MarkLeftOver(p)
      PROVE  Shapes'
  <2>1. /\ status' \in Statuses /\ UNCHANGED <<handler, work, ran>>
        /\ task' = task \/ \E t \in Places : task' = [task EXCEPT ![p] = t]
        /\ files' = files \/ files' = [files EXCEPT ![p] = uploads]
    BY <1>4 DEF Begin, Load, Compare, Classify, Conclude, Evidence, SideRaises, RecordError,
                ReadInterrupted, Abort, Start, MarkLeftOver, Shapes
  <2> QED
    BY <2>1 DEF Shapes
<1>5. ASSUME NEW p \in Procs, StartSides(p) PROVE Shapes'
  <2>1. [s \in Sides |-> "begin"] \in Works
    BY DEF Works
  <2> QED
    BY <1>5, <2>1 DEF StartSides, Shapes
<1>6. ASSUME NEW p \in Procs, NEW s \in Sides, BeginSide(p, s) \/ EndSide(p, s) PROVE Shapes'
  <2>1. \A v \in {"running", "done"} : [work[p] EXCEPT ![s] = v] \in Works
    BY DEF Works, Shapes
  <2>2. [ran EXCEPT ![s] = @ + 1] \in [Sides -> Nat]
    BY DEF Shapes
  <2>3. /\ \E v \in {"running", "done"} : work' = [work EXCEPT ![p] = [work[p] EXCEPT ![s] = v]]
        /\ ran' \in {ran, [ran EXCEPT ![s] = @ + 1]}
        /\ UNCHANGED <<status, handler, task, files>>
    BY <1>6 DEF BeginSide, EndSide
  <2> QED
    BY <2>1, <2>2, <2>3 DEF Shapes
<1>7. ASSUME NEW p \in Procs, Cancel(p) \/ Shutdown(p) PROVE Shapes'
  <2>1. Interrupt(p) /\ status' \in Statuses /\ UNCHANGED <<handler, ran, files>>
    BY <1>7 DEF Cancel, Shutdown, Shapes
  <2> QED
    BY <2>1, InterruptShape DEF Shapes
<1>8. ASSUME NEW p \in Procs, Fault(p) PROVE Shapes'
  <2>1. \A s \in Sides : [work[p] EXCEPT ![s] = "raised"] \in Works
    BY DEF Works, Shapes
  <2>2. Idle \in Handlers
    BY DEF Handlers
  <2>3. /\ handler' = handler \/ handler' = [handler EXCEPT ![p] = Idle]
        /\ task' = task \/ \E t \in Places : task' = [task EXCEPT ![p] = t]
        /\ work' = work \/ \E s \in Sides : work' = [work EXCEPT ![p] = [work[p] EXCEPT ![s] = "raised"]]
        /\ UNCHANGED <<status, ran, files>>
    BY <1>8 DEF Fault
  <2>4. handler' \in [Procs -> Handlers]
    BY <2>2, <2>3 DEF Shapes
  <2>5. task' \in [Procs -> Places]
    BY <2>3 DEF Shapes
  <2>6. work' \in [Procs -> Works]
    BY <2>1, <2>3 DEF Shapes
  <2> QED
    BY <2>3, <2>4, <2>5, <2>6 DEF Shapes
<1>9. ASSUME NEW p \in Procs, Crash(p) \/ Exit(p) PROVE Shapes'
  <2>1. AllIdle \in Works /\ Idle \in Handlers
    BY DEF AllIdle, Works, Handlers
  <2>2. /\ handler' = [handler EXCEPT ![p] = Idle] /\ work' = [work EXCEPT ![p] = AllIdle]
        /\ task' = task \/ task' = [task EXCEPT ![p] = "none"]
        /\ UNCHANGED <<status, ran, files>>
    BY <1>9 DEF Crash, Exit, Down
  <2> QED
    BY <2>1, <2>2 DEF Shapes
<1>10. ASSUME UNCHANGED vars PROVE Shapes'
  BY <1>10 DEF vars, Shapes
<1> HIDE DEF Statuses, Working, Terminal, Places, db, local, answers, counts, made, GoTo
<1> QED
  BY <1>1, <1>2, <1>3, <1>4, <1>5, <1>6, <1>7, <1>8, <1>9, <1>10
     DEF Next, Serve, Work, Disturb

LEMMA OnceStep == Shapes /\ OnceInv /\ [Next]_vars => OnceInv'
<1> SUFFICES ASSUME Shapes, OnceInv, [Next]_vars PROVE OnceInv'
  OBVIOUS
<1> USE DEF Shapes, Working, Terminal, db, local, answers, counts, made, GoTo
<1>1. ASSUME NEW p \in Procs, NEW r \in Requests, Post(p, r) PROVE OnceInv'
  <2>1. NoneJoins
    BY <1>1 DEF NoneJoins, Prepares, Post
  <2> QED
    BY <2>1, NoneJoinsStep
<1>2. ASSUME NEW p \in Procs, CheckRequest(p) \/ Store(p) PROVE OnceInv'
  <2>1. /\ task' = task \/ (task[p] = "none" /\ task' = [task EXCEPT ![p] = "queued"])
                        \/ (task[p] # "none" /\ task' = [task EXCEPT ![p] = task[p]])
        /\ UNCHANGED <<status, work, ran>>
    BY <1>2 DEF CheckRequest, Store, Accept
  <2>2. NoneJoins
    BY <2>1 DEF NoneJoins, Prepares
  <2> QED
    BY <2>2, NoneJoinsStep
<1>3. ASSUME NEW p \in Procs, Begin(p) PROVE OnceInv'
  <2>1. CASE MayBegin
    <3>1. /\ status = "PENDING" /\ status' = "PREPARING" /\ UNCHANGED <<work, ran>>
          /\ task' = [task EXCEPT ![p] = "prepare"]
      BY <1>3, <2>1 DEF Begin, MayBegin
    <3>2. \A q \in Procs, s \in Sides : ran[s] = 0 /\ ~Pre(q, s)
      BY <3>1 DEF OnceInv
    <3>3. \A q \in Procs \ {p}, s \in Sides : ~Pre(q, s)'
      BY <3>1, <3>2 DEF Pre, Prepares
    <3>4. \A q \in Procs, s \in Sides : work'[q][s] # "begin"
      BY <3>1, <3>2 DEF Pre
    <3> QED
      BY <3>1, <3>2, <3>3, <3>4 DEF OnceInv
  <2>2. CASE ~MayBegin
    <3>1. NoneJoins
      BY <1>3, <2>2 DEF NoneJoins, Prepares, Begin, MayBegin
    <3> QED
      BY <3>1, NoneJoinsStep
  <2> QED
    BY <2>1, <2>2
<1>4. ASSUME NEW p \in Procs,
             \/ Load(p) \/ Compare(p) \/ Classify(p) \/ Conclude(p) \/ Evidence(p)
             \/ SideRaises(p) \/ RecordError(p) \/ ReadInterrupted(p) \/ Abort(p)
             \/ Start(p) \/ MarkLeftOver(p)
      PROVE  OnceInv'
  <2>1. NoneJoins
    BY <1>4 DEF NoneJoins, Prepares, Load, Runs, Compare, Classify, Conclude, Evidence, SideRaises,
                RecordError, ReadInterrupted, Abort, Start, MarkLeftOver
  <2> QED
    BY <2>1, NoneJoinsStep
<1>5. ASSUME NEW p \in Procs, StartSides(p) PROVE OnceInv'
  <2>1. /\ \A s \in Sides : Pre(p, s)
        /\ status' = "RUNNING" /\ ran' = ran /\ task' = [task EXCEPT ![p] = "sides"]
        /\ \A q \in Procs \ {p} : work'[q] = work[q]
    BY <1>5 DEF StartSides, Runs, Pre, Prepares
  <2>2. /\ \A s \in Sides : ran'[s] = 0 /\ \A q \in Procs \ {p} : ~Pre(q, s)
        /\ ~Prepares(p)'
    BY <2>1 DEF OnceInv, Prepares
  <2>3. \A q \in Procs \ {p}, s \in Sides : ~Pre(q, s)' /\ work'[q][s] # "begin"
    BY <2>1, <2>2 DEF Pre, Prepares
  <2> QED
    BY <2>1, <2>2, <2>3 DEF OnceInv
<1>6. ASSUME NEW p \in Procs, NEW s \in Sides, BeginSide(p, s) PROVE OnceInv'
  <2>1. /\ work[p][s] = "begin" /\ Pre(p, s) /\ ran' = [ran EXCEPT ![s] = @ + 1] /\ UNCHANGED <<status, task>>
        /\ work' = [work EXCEPT ![p] = [work[p] EXCEPT ![s] = "running"]]
    BY <1>6 DEF BeginSide, Pre
  <2>2. /\ status \notin {"NONE", "PENDING"} /\ ran[s] = 0 /\ ran'[s] = 1
        /\ \A q \in Procs \ {p} : ~Pre(q, s)
    BY <2>1 DEF OnceInv
  <2>3. \A q \in Procs, v \in Sides :
          /\ Prepares(q)' = Prepares(q)
          /\ work'[q][v] = "begin" => work[q][v] = "begin"
    BY <2>1 DEF Prepares, Works
  <2>4. ~Prepares(p) /\ work'[p][s] # "begin"
    BY <2>1 DEF OnceInv, Works
  <2>5. \A q \in Procs, v \in Sides : Pre(q, v)' => Pre(q, v) /\ ~(v = s)
    BY <2>2, <2>3, <2>4 DEF Pre
  <2>6. \A v \in Sides \ {s} : ran'[v] = ran[v]
    BY <2>1
  <2> QED
    BY <2>1, <2>2, <2>3, <2>5, <2>6 DEF OnceInv
<1>7. ASSUME NEW p \in Procs, NEW s \in Sides, EndSide(p, s) PROVE OnceInv'
  <2>1. NoneJoins
    BY <1>7 DEF NoneJoins, Prepares, EndSide, Works
  <2> QED
    BY <2>1, NoneJoinsStep
<1>8. ASSUME NEW p \in Procs, Cancel(p) \/ Shutdown(p) PROVE OnceInv'
  <2>1. /\ Interrupt(p) /\ UNCHANGED ran
        /\ status' \in {"NONE", "PENDING"} => status \in {"NONE", "PENDING"}
    BY <1>8 DEF Cancel, Shutdown
  <2>2. NoneJoins
    BY <2>1, InterruptShape DEF NoneJoins, Prepares
  <2> QED
    BY <2>2, NoneJoinsStep
<1>9. ASSUME NEW p \in Procs, Fault(p) PROVE OnceInv'
  <2>1. /\ UNCHANGED <<status, ran>>
        /\ task' = task \/ \E t \in {"error", "none"} : task' = [task EXCEPT ![p] = t]
        /\ work' = work \/ \E s \in Sides : work' = [work EXCEPT ![p] = [work[p] EXCEPT ![s] = "raised"]]
    BY <1>9 DEF Fault
  <2>2. \A q \in Procs, v \in Sides : work'[q][v] \in {work[q][v], "raised"}
    BY <2>1 DEF Works
  <2>3. NoneJoins
    BY <2>1, <2>2 DEF NoneJoins, Prepares
  <2> QED
    BY <2>3, NoneJoinsStep
<1>10. ASSUME NEW p \in Procs, Crash(p) \/ Exit(p) PROVE OnceInv'
  <2>1. /\ UNCHANGED <<status, ran>> /\ work' = [work EXCEPT ![p] = AllIdle]
        /\ task' = task \/ task' = [task EXCEPT ![p] = "none"]
    BY <1>10 DEF Crash, Exit, Down
  <2>2. NoneJoins
    BY <2>1 DEF NoneJoins, Prepares, AllIdle
  <2> QED
    BY <2>2, NoneJoinsStep
<1>11. ASSUME UNCHANGED vars PROVE OnceInv'
  <2>1. NoneJoins
    BY <1>11 DEF NoneJoins, Prepares, vars
  <2> QED
    BY <2>1, NoneJoinsStep
<1> HIDE DEF Shapes, Working, Terminal, db, local, answers, counts, made, GoTo
<1> QED
  BY <1>1, <1>2, <1>3, <1>4, <1>5, <1>6, <1>7, <1>8, <1>9, <1>10, <1>11
     DEF Next, Serve, Work, Disturb

LEMMA ShapesInit == Init => Shapes
BY DEF Init, Shapes, Statuses, Handlers, Idle, Places, Works, AllIdle

\* Whatever is retried, on whatever process, before or after a restart: the
\* containers of a side are started once.
THEOREM StartedOnce == Spec => []RunsOnce
<1>1. Init => OnceInv
  BY DEF Init, OnceInv, Pre, Prepares, AllIdle
<1>2. OnceInv => RunsOnce
  BY DEF OnceInv, RunsOnce
<1> QED
  BY <1>1, <1>2, ShapesInit, ShapesStep, OnceStep, PTL DEF Spec

-----------------------------------------------------------------------------
(* AcceptedIsExecuted: the fingerprint is written once and before any file  *)
(* is stored; what was compared with it is what the files are of.           *)

Agrees(r) == r.suite = fingerprint /\ r.target = Target

AcceptInv ==
  /\ status = "NONE" => accepted = {} /\ fingerprint = NoSuite /\ \A p \in Procs : handler[p] = Idle
  /\ fingerprint = NoSuite => uploads = {}
  /\ accepted # {} => fingerprint # NoSuite
  /\ \A r \in accepted : Agrees(r)
  /\ \A p \in Procs : handler[p].at = "store" => fingerprint # NoSuite /\ Agrees(handler[p].request)
  /\ uploads \subseteq {fingerprint} /\ executed \subseteq uploads
  /\ \A p \in Procs : files[p] \subseteq uploads

\* Steps that leave the request alone; they may drop a POST or load files.
AcceptKept ==
  /\ UNCHANGED <<creator, fingerprint, uploads, accepted>>
  /\ \A p \in Procs : handler'[p] \in {handler[p], Idle} /\ files'[p] \in {files[p], uploads}
  /\ executed' = executed \/ \E p \in Procs : executed' = executed \union files[p]
  /\ status' = "NONE" => status = "NONE"

LEMMA AcceptKeptStep == AcceptInv /\ AcceptKept => AcceptInv'
<1> SUFFICES ASSUME AcceptInv, AcceptKept PROVE AcceptInv'
  OBVIOUS
<1>1. Target' = Target
  BY DEF AcceptKept, Target
<1>2. Idle.at # "store"
  BY DEF Idle
<1> QED
  BY <1>1, <1>2 DEF AcceptInv, AcceptKept, Agrees

LEMMA AcceptStep == Shapes /\ AcceptInv /\ [Next]_vars => AcceptInv'
<1> SUFFICES ASSUME Shapes, AcceptInv, [Next]_vars PROVE AcceptInv'
  OBVIOUS
<1> USE DEF db, local, answers, counts, made
<1>1. ASSUME NEW p \in Procs, NEW r \in Requests, Post(p, r) PROVE AcceptInv'
  <2> DEFINE h == [at |-> "fingerprint", request |-> r, seen |-> status']
  <2>1. /\ handler' = [handler EXCEPT ![p] = h] /\ status' # "NONE"
        /\ status = "NONE" \/ creator' = creator
        /\ UNCHANGED <<fingerprint, uploads, accepted, executed, files>>
    BY <1>1 DEF Post, Insert
  <2>2. h.at # "store" /\ Idle.at # "store"
    BY DEF Idle
  <2> HIDE DEF h
  <2>3. \A q \in Procs : handler'[q] \in {handler[q], h}
    BY <2>1 DEF Shapes
  <2>4. CASE status = "NONE"
    BY <2>1, <2>2, <2>3, <2>4 DEF AcceptInv
  <2>5. CASE creator' = creator
    <3>1. Target' = Target
      BY <2>5 DEF Target
    <3> QED
      BY <2>1, <2>2, <2>3, <3>1 DEF AcceptInv, Agrees
  <2> QED
    BY <2>1, <2>4, <2>5
<1>2. ASSUME NEW p \in Procs, CheckRequest(p) PROVE AcceptInv'
  <2>1. handler[p].at = "fingerprint"
    BY <1>2 DEF CheckRequest
  <2>2. handler[p] \in [at : {"fingerprint", "store"}, request : Requests, seen : Statuses]
    BY <2>1, HandlerShape DEF Shapes
  <2>3. PICK r, h : r \in Requests /\ r = handler[p].request /\ h = [handler[p] EXCEPT !.at = "store"]
    BY <2>2
  <2>4. /\ r.suite # NoSuite /\ h.request = r /\ handler[p] # Idle
        /\ fingerprint' = Keep(r) /\ UNCHANGED <<status, creator, uploads, files, executed>>
    BY <1>2, <2>1, <2>2, <2>3, RunAssumption DEF CheckRequest, Idle
  <2>5. status # "NONE" /\ fingerprint' # NoSuite /\ (fingerprint # NoSuite => fingerprint' = fingerprint)
    BY <2>4 DEF AcceptInv, Keep
  <2>6. /\ \A q \in Procs : \/ handler'[q] \in {handler[q], Idle}
                            \/ handler'[q] = h /\ Keep(r) = r.suite /\ Target = r.target
        /\ \/ accepted' = accepted
           \/ accepted' = accepted \union {r} /\ Keep(r) = r.suite /\ Target = r.target
    BY <1>2, <2>3 DEF CheckRequest, Accept, Shapes
  <2>7. Target' = Target /\ Idle.at # "store"
    BY <2>4 DEF Target, Idle
  <2>8. ASSUME NEW x, Agrees(x), fingerprint # NoSuite
        PROVE x.suite = fingerprint' /\ x.target = Target'
    BY <2>5, <2>7, <2>8 DEF Agrees
  <2>9. Keep(r) = r.suite /\ Target = r.target => r.suite = fingerprint' /\ r.target = Target'
    BY <2>4, <2>7
  <2>10. \A x \in accepted' : x.suite = fingerprint' /\ x.target = Target'
    BY <2>6, <2>8, <2>9 DEF AcceptInv
  <2>11. ASSUME NEW q \in Procs, handler'[q].at = "store"
         PROVE handler'[q].request.suite = fingerprint' /\ handler'[q].request.target = Target'
    <3>1. CASE handler'[q] = handler[q]
      BY <2>8, <2>11, <3>1 DEF AcceptInv
    <3>2. CASE handler'[q] = h /\ Keep(r) = r.suite /\ Target = r.target
      BY <2>4, <2>9, <3>2
    <3> QED
      BY <2>6, <2>7, <2>11, <3>1, <3>2
  <2>12. uploads' \subseteq {fingerprint'}
    BY <2>4, <2>5 DEF AcceptInv
  <2> QED
    BY <2>4, <2>5, <2>10, <2>11, <2>12 DEF AcceptInv, Agrees
<1>3. ASSUME NEW p \in Procs, Store(p) PROVE AcceptInv'
  <2> DEFINE r == handler[p].request
  <2>1. /\ handler[p].at = "store" /\ UNCHANGED <<status, creator, fingerprint, files, executed>>
        /\ handler' = [handler EXCEPT ![p] = Idle]
        /\ uploads' \in {uploads, uploads \union {r.suite}}
        /\ accepted' \in {accepted, accepted \union {r}}
    BY <1>3 DEF Store, Accept
  <2>2. fingerprint # NoSuite /\ Agrees(r)
    BY <2>1 DEF AcceptInv
  <2>3. Target' = Target /\ Idle.at # "store" /\ \A q \in Procs : handler'[q] \in {handler[q], Idle}
    BY <2>1 DEF Target, Idle, Shapes
  <2> HIDE DEF r
  <2> QED
    BY <2>1, <2>2, <2>3 DEF AcceptInv, Agrees
<1>4. ASSUME NEW p \in Procs, Work(p) PROVE AcceptInv'
  <2>1. /\ UNCHANGED <<creator, fingerprint, uploads, accepted>>
        /\ handler' \in {handler, [handler EXCEPT ![p] = Idle]}
        /\ files' \in {files, [files EXCEPT ![p] = uploads]}
        /\ executed' \in {executed, executed \union files[p]}
        /\ status' = "NONE" => status = "NONE"
    BY <1>4 DEF Work, Begin, Load, StartSides, BeginSide, EndSide, Compare, Classify, Conclude,
       Evidence, SideRaises, RecordError, ReadInterrupted, Abort, Start, MarkLeftOver, Exit,
       Down, MayBegin
  <2>2. AcceptKept
    BY <2>1 DEF AcceptKept, Shapes
  <2> QED
    BY <2>2, AcceptKeptStep
<1>5. ASSUME NEW p \in Procs, Disturb(p) PROVE AcceptInv'
  <2>1. /\ UNCHANGED <<creator, fingerprint, uploads, accepted, files, executed>>
        /\ handler' \in {handler, [handler EXCEPT ![p] = Idle]}
        /\ status' = "NONE" => status = "NONE"
    BY <1>5 DEF Disturb, Cancel, Fault, Crash, Shutdown, Down
  <2>2. AcceptKept
    BY <2>1 DEF AcceptKept, Shapes
  <2> QED
    BY <2>2, AcceptKeptStep
<1>6. ASSUME UNCHANGED vars PROVE AcceptInv'
  <2>1. AcceptKept
    BY <1>6 DEF AcceptKept, vars
  <2> QED
    BY <2>1, AcceptKeptStep
<1> QED
  BY <1>1, <1>2, <1>3, <1>4, <1>5, <1>6 DEF Next, Serve

\* Two requests that were both told the run's identifier asked for the same
\* thing, and nothing else is ever given to a container, for any processes.
THEOREM RunsWhatWasAccepted == Spec => []AcceptedIsExecuted
<1>1. Init => AcceptInv
  BY DEF Init, AcceptInv, Idle
<1>2. AcceptInv => AcceptedIsExecuted
  BY DEF AcceptInv, AcceptedIsExecuted, Agrees
<1> QED
  BY <1>1, <1>2, ShapesInit, ShapesStep, AcceptStep, PTL DEF Spec

-----------------------------------------------------------------------------
(* ComparedSidesAreDone: one process takes the run, and what it compares is *)
(* no longer written.                                                       *)

\* The rows a side may end with, and the two it has before.
LEMMA ResultRow ==
  ASSUME NEW r \in Results
  PROVE  /\ r.status \in {"COMPLETED", "TIMEOUT", "FAILED"} /\ r.build \in Stage /\ r.test \in Stage
         /\ r.cases \in [Test -> {"absent", "pass", "fail"}] /\ RunnerResult(r)
<1>1. r \in ExecutionRow /\ RunnerResult(r)
  BY ResultAssumption
<1> QED
  BY <1>1 DEF ExecutionRow

LEMMA RowsDiffer == Untouched # Running /\ Untouched \notin Results /\ Running \notin Results
<1>1. Untouched.status = "NONE" /\ Running.status = "RUNNING"
  BY DEF Untouched, Running
<1> QED
  BY <1>1, ResultRow

\* What the comparator calls clean: both sides ended, and the candidate is no
\* worse than base in its build and in what can be compared of the tests.
NoWorseThan(b, c) ==
  /\ b.status = "COMPLETED" /\ c.status = "COMPLETED" /\ c.build = "PASSED"
  /\ b.build = "PASSED" =>
       IF CaseByCase(b, c) THEN ~\E t \in Test : b.cases[t] = "pass" /\ c.cases[t] = "fail"
                           ELSE c.test = "PASSED"

LEMMA CleanIsNoWorse ==
  ASSUME NEW b \in Results, NEW c \in Results
  PROVE  /\ Verdict(b, c) \in {"clean", "regression", "inconclusive"}
         /\ Verdict(b, c) = "clean" <=> NoWorseThan(b, c)
         /\ Verdict(b, c) = "regression" => Ended(b, c) /\ b.build = "PASSED"
<1> DEFINE worse == \E t \in Test : b.cases[t] = "pass" /\ c.cases[t] = "fail"
           each == CaseByCase(b, c)
<1>1. /\ b.status = "COMPLETED" =>
           (b.build = "PASSED" /\ b.test \in {"PASSED", "FAILED"}) \/ b.build = "FAILED"
      /\ c.status = "COMPLETED" =>
           (c.build = "PASSED" /\ c.test \in {"PASSED", "FAILED"}) \/ c.build = "FAILED"
  BY ResultRow DEF RunnerResult
<1>2. Inconclusive(b, c) <=> \/ ~Ended(b, c)
                             \/ b.build = "FAILED" /\ c.build = "FAILED"
                             \/ BothBuilt(b, c) /\ ~each /\ b.test = "FAILED" /\ c.test = "FAILED"
  BY DEF Inconclusive
<1>3. Regression(b, c) <=> /\ Ended(b, c)
                           /\ \/ b.build = "PASSED" /\ c.build = "FAILED"
                              \/ BothBuilt(b, c) /\ each /\ worse
                              \/ BothBuilt(b, c) /\ ~each /\ b.test = "PASSED" /\ c.test = "FAILED"
  BY DEF Regression
<1>4. NoWorseThan(b, c) <=> /\ Ended(b, c) /\ c.build = "PASSED"
                            /\ b.build = "PASSED" => (each /\ ~worse) \/ (~each /\ c.test = "PASSED")
  BY DEF NoWorseThan, Ended
<1> HIDE DEF worse, each
<1> QED
  BY <1>1, <1>2, <1>3, <1>4 DEF Verdict, Ended, BothBuilt

\* p has got past begin: its task, or a side that outlived it, shows it.
Taken(p) == task[p] \notin {"none", "queued"} \/ \E s \in Sides : work[p][s] # "idle"
Comparing(p) == task[p] \in {"classify", "final"}
BeforeComparison(p) == task[p] \in {"prepare", "frozen", "sides"}
Busy(p, s) == work[p][s] \in {"begin", "running"}

OneHolder ==
  /\ status \in {"NONE", "PENDING"} => \A p \in Procs : ~Taken(p)
  /\ \A p, q \in Procs : Taken(p) /\ Taken(q) => p = q

Clean == Verdict(sides["BASE"], sides["CANDIDATE"]) = "clean"

SidesWritten ==
  /\ DOMAIN sides = Sides
  /\ \A p \in Procs, s \in Sides : work[p][s] = "done" => sides[s] \in Results
  /\ \A p \in Procs : Comparing(p) => BothDone(p)
  /\ status \in {"COMPARING", "COMPLETED"} =>
       /\ \A s \in Sides : sides[s] \in Results
       /\ \A p \in Procs : ~BeforeComparison(p) /\ \A s \in Sides : ~Busy(p, s)

VerdictHolds ==
  /\ \A p \in Procs : task[p] = "final" /\ verdict = "clean" => Clean
  /\ status = "COMPLETED" => /\ verdict = "clean" /\ Clean
                             /\ \A p \in Procs : ~Comparing(p)

HolderInv == OneHolder /\ SidesWritten /\ VerdictHolds

\* Steps that take nothing, compare nothing, and let no side go on.
Quiet ==
  /\ UNCHANGED <<sides, verdict>>
  /\ status' \in {"NONE", "PENDING"} => status \in {"NONE", "PENDING"}
  /\ status' \in {"COMPARING", "COMPLETED"} => status' = status
  /\ \A p \in Procs :
       /\ Taken(p)' => Taken(p)
       /\ Comparing(p)' \/ BeforeComparison(p)' => task'[p] = task[p]
       /\ \A s \in Sides :
            /\ work'[p][s] \in {"begin", "running", "done"} => work'[p][s] = work[p][s]
            /\ Comparing(p)' /\ work[p][s] = "done" => work'[p][s] = "done"

LEMMA QuietStep == HolderInv /\ Quiet => HolderInv'
<1> SUFFICES ASSUME HolderInv, Quiet PROVE HolderInv'
  OBVIOUS
<1>1. OneHolder'
  BY DEF HolderInv, OneHolder, Quiet
<1>2. SidesWritten'
  <2>1. \A p \in Procs : Comparing(p)' => BothDone(p)'
    BY DEF HolderInv, SidesWritten, Quiet, Comparing, BothDone
  <2>2. \A p \in Procs, s \in Sides : work'[p][s] = "done" => sides'[s] \in Results
    BY DEF HolderInv, SidesWritten, Quiet
  <2>3. ASSUME status' \in {"COMPARING", "COMPLETED"}
        PROVE  /\ \A s \in Sides : sides'[s] \in Results
               /\ \A p \in Procs : ~BeforeComparison(p)' /\ \A s \in Sides : ~Busy(p, s)'
    BY <2>3 DEF HolderInv, SidesWritten, Quiet, BeforeComparison, Busy
  <2>4. DOMAIN sides' = Sides
    BY DEF HolderInv, SidesWritten, Quiet
  <2> QED
    BY <2>1, <2>2, <2>3, <2>4 DEF SidesWritten
<1>3. VerdictHolds'
  BY DEF HolderInv, VerdictHolds, Quiet, Comparing, Clean
<1> QED
  BY <1>1, <1>2, <1>3 DEF HolderInv

\* Where the holder is, the others have nothing to do with the run.
LEMMA OthersIdle ==
  ASSUME Shapes, HolderInv, NEW p \in Procs, Taken(p)
  PROVE  /\ status \notin {"NONE", "PENDING"}
         /\ \A q \in Procs \ {p} : /\ ~Taken(q) /\ ~Comparing(q) /\ ~BeforeComparison(q)
                                   /\ \A s \in Sides : work[q][s] = "idle"
BY DEF HolderInv, OneHolder, Taken, Comparing, BeforeComparison

LEMMA HolderStep == Shapes /\ HolderInv /\ [Next]_vars => HolderInv'
<1> SUFFICES ASSUME Shapes, HolderInv, [Next]_vars PROVE HolderInv'
  OBVIOUS
<1> USE DEF db, local, answers, counts, made, GoTo
<1>1. ASSUME NEW p \in Procs, NEW r \in Requests, Post(p, r) PROVE HolderInv'
  <2>1. Quiet
    BY <1>1 DEF Post, Quiet, Taken, Comparing, BeforeComparison
  <2> QED
    BY <2>1, QuietStep
<1>2. ASSUME NEW p \in Procs, CheckRequest(p) \/ Store(p) PROVE HolderInv'
  <2>1. /\ task' = task \/ (task[p] = "none" /\ task' = [task EXCEPT ![p] = "queued"])
                        \/ (task[p] # "none" /\ task' = [task EXCEPT ![p] = task[p]])
        /\ UNCHANGED <<status, work, sides, verdict>>
    BY <1>2 DEF CheckRequest, Store, Accept
  <2>2. Quiet
    BY <2>1 DEF Quiet, Taken, Comparing, BeforeComparison, Shapes
  <2> QED
    BY <2>2, QuietStep
<1>3. ASSUME NEW p \in Procs,
             \/ Evidence(p) \/ SideRaises(p) \/ RecordError(p) \/ ReadInterrupted(p)
             \/ Abort(p) \/ Start(p) \/ MarkLeftOver(p) \/ (Begin(p) /\ ~MayBegin)
      PROVE  HolderInv'
  <2>1. /\ UNCHANGED <<work, sides, verdict>> /\ status' \in {status, "FAILED"}
        /\ \/ UNCHANGED task
           \/ task' = [task EXCEPT ![p] = "none"]
           \/ task[p] \in {"sides", "interrupted"}
                /\ \E t \in {"none", "error", "abort"} : task' = [task EXCEPT ![p] = t]
    BY <1>3 DEF Evidence, SideRaises, RecordError, ReadInterrupted, Abort, Start, MarkLeftOver,
                Begin, Runs
  <2>2. Quiet
    BY <2>1 DEF Quiet, Taken, Comparing, BeforeComparison, Shapes
  <2> QED
    BY <2>2, QuietStep
<1>4. ASSUME NEW p \in Procs, Begin(p), MayBegin PROVE HolderInv'
  <2>1. /\ status = "PENDING" /\ status' = "PREPARING" /\ task' = [task EXCEPT ![p] = "prepare"]
        /\ UNCHANGED <<work, sides, verdict>>
    BY <1>4 DEF Begin, MayBegin
  <2>2. \A q \in Procs : ~Taken(q)
    BY <2>1 DEF HolderInv, OneHolder
  <2>3. \A q \in Procs \ {p} : ~Taken(q)' /\ ~Comparing(q)' /\ ~BeforeComparison(q)'
    BY <2>1, <2>2 DEF Taken, Comparing, BeforeComparison, Shapes
  <2>4. ~Comparing(p)' /\ \A q \in Procs, s \in Sides : work'[q][s] = "idle"
    BY <2>1, <2>2 DEF Taken, Comparing, Shapes
  <2> QED
    BY <2>1, <2>3, <2>4 DEF HolderInv, OneHolder, SidesWritten, VerdictHolds, Comparing
<1>5. ASSUME NEW p \in Procs, Load(p) PROVE HolderInv'
  <2>1. /\ task[p] = "prepare" /\ task' = [task EXCEPT ![p] = "frozen"]
        /\ UNCHANGED <<status, work, sides, verdict>>
    BY <1>5 DEF Load, Runs
  <2>2. \A q \in Procs : /\ (Taken(q)' <=> Taken(q)) /\ (Comparing(q)' <=> Comparing(q))
                         /\ (BeforeComparison(q)' <=> BeforeComparison(q))
                         /\ (task'[q] = "final" <=> task[q] = "final")
    BY <2>1 DEF Taken, Comparing, BeforeComparison, Shapes
  <2> QED
    BY <2>1, <2>2 DEF HolderInv, OneHolder, SidesWritten, VerdictHolds, Busy, BothDone, Clean
<1>6. ASSUME NEW p \in Procs, StartSides(p) PROVE HolderInv'
  <2>1. /\ task[p] = "frozen" /\ task' = [task EXCEPT ![p] = "sides"] /\ status' = "RUNNING"
        /\ work' = [work EXCEPT ![p] = [s \in Sides |-> "begin"]] /\ UNCHANGED <<sides, verdict>>
    BY <1>6 DEF StartSides, Runs
  <2>2. Taken(p) /\ ~Comparing(p)'
    BY <2>1 DEF Taken, Comparing, Shapes
  <2>3. \A q \in Procs \ {p} : /\ ~Taken(q)' /\ ~Comparing(q)'
                               /\ \A s \in Sides : work'[q][s] = "idle"
    BY <2>1, <2>2, OthersIdle DEF Taken, Comparing, Shapes
  <2>4. \A s \in Sides : work'[p][s] = "begin"
    BY <2>1 DEF Shapes
  <2> QED
    BY <2>1, <2>2, <2>3, <2>4 DEF HolderInv, OneHolder, SidesWritten, VerdictHolds, Comparing
<1>7. ASSUME NEW p \in Procs, NEW s \in Sides, BeginSide(p, s) \/ EndSide(p, s)
      PROVE  HolderInv'
  <2>1. /\ Busy(p, s) /\ UNCHANGED <<status, task, verdict>>
        /\ \E v \in {"running", "done"} : work' = [work EXCEPT ![p][s] = v]
    BY <1>7 DEF BeginSide, EndSide, Busy
  <2>2. Taken(p)
    BY <2>1 DEF Taken, Busy
  <2>3. ~Comparing(p) /\ status \notin {"COMPARING", "COMPLETED"}
    BY <2>1 DEF HolderInv, SidesWritten, Busy, BothDone
  <2>4. \A q \in Procs \ {p}, t \in Sides : work'[q][t] = "idle"
    BY <2>1, <2>2, OthersIdle DEF Shapes
  <2>5. \A t \in Sides : work'[p][t] = "done" => sides'[t] \in Results
    <3>1. CASE BeginSide(p, s)
      BY <3>1 DEF BeginSide, HolderInv, SidesWritten, Shapes, Works
    <3>2. CASE EndSide(p, s)
      <4>1. PICK o \in Results : sides' = [sides EXCEPT ![s] = o]
        BY <3>2 DEF EndSide
      <4>2. \A t \in Sides \ {s} : work'[p][t] = work[p][t]
        BY <3>2 DEF EndSide, Shapes, Works
      <4>3. DOMAIN sides = Sides
        BY DEF HolderInv, SidesWritten
      <4> QED
        BY <4>1, <4>2, <4>3 DEF HolderInv, SidesWritten
    <3> QED
      BY <1>7, <3>1, <3>2
  <2>6. \A q \in Procs : (Taken(q)' => Taken(q)) /\ ~Comparing(q)'
    <3>1. \A q \in Procs \ {p} : ~Comparing(q) /\ work'[q] = work[q]
      BY <2>1, <2>2, OthersIdle DEF Shapes
    <3> QED
      BY <2>1, <2>2, <2>3, <3>1 DEF Taken, Comparing
  <2>7. DOMAIN sides' = Sides
    BY <1>7 DEF BeginSide, EndSide, HolderInv, SidesWritten
  <2> QED
    BY <2>1, <2>2, <2>3, <2>4, <2>5, <2>6, <2>7, OthersIdle
       DEF HolderInv, OneHolder, SidesWritten, VerdictHolds, Comparing
<1>8. ASSUME NEW p \in Procs, Compare(p) PROVE HolderInv'
  <2>1. /\ task[p] = "sides" /\ BothDone(p) /\ status' = "COMPARING"
        /\ task' = [task EXCEPT ![p] = "classify"] /\ UNCHANGED <<work, sides, verdict>>
    BY <1>8 DEF Compare, Runs
  <2>2. Taken(p)
    BY <2>1 DEF Taken
  <2>3. \A q \in Procs \ {p} : /\ ~Taken(q)' /\ ~Comparing(q)' /\ ~BeforeComparison(q)'
                               /\ \A s \in Sides : work'[q][s] = "idle"
    BY <2>1, <2>2, OthersIdle DEF Taken, Comparing, BeforeComparison, Shapes
  <2>4. task'[p] = "classify" /\ \A s \in Sides : work'[p][s] = "done"
    BY <2>1 DEF BothDone, Shapes
  <2>5. \A s \in Sides : sides'[s] \in Results
    BY <2>1 DEF HolderInv, SidesWritten, BothDone
  <2> QED
    BY <2>1, <2>2, <2>3, <2>4, <2>5
       DEF HolderInv, OneHolder, SidesWritten, VerdictHolds, BeforeComparison, Comparing, Busy, BothDone
<1>9. ASSUME NEW p \in Procs, Classify(p) \/ Conclude(p) PROVE HolderInv'
  <2>1. /\ Comparing(p) /\ UNCHANGED <<work, sides>>
        /\ \E t \in {"final", "evidence"} : task' = [task EXCEPT ![p] = t]
        /\ status' \in {status, "COMPLETED", "FAILED"}
    BY <1>9 DEF Classify, Conclude, Comparing
  <2>2. Taken(p) /\ BothDone(p)
    BY <2>1 DEF Taken, Comparing, HolderInv, SidesWritten
  <2>3. \A q \in Procs \ {p} : /\ ~Taken(q)' /\ ~Comparing(q)' /\ ~BeforeComparison(q)'
                               /\ \A s \in Sides : work'[q][s] = "idle"
    BY <2>1, <2>2, OthersIdle DEF Taken, Comparing, BeforeComparison, Shapes
  <2>4. \A s \in Sides : work'[p][s] = "done" /\ sides'[s] \in Results
    BY <2>1, <2>2 DEF HolderInv, SidesWritten, BothDone
  <2>5. task'[p] \in {"final", "evidence"}
    BY <2>1 DEF Shapes
  <2>6. OneHolder'
    BY <2>1, <2>2, <2>3, OthersIdle DEF OneHolder
  <2>7. SidesWritten'
    BY <2>1, <2>3, <2>4, <2>5 DEF HolderInv, SidesWritten, BeforeComparison, Comparing, Busy, BothDone
  <2>8. VerdictHolds'
    <3>1. CASE Classify(p)
      <4>1. /\ verdict' = Verdict(sides["BASE"], sides["CANDIDATE"])
            /\ task[p] = "classify" /\ UNCHANGED <<status, sides>>
        BY <3>1 DEF Classify
      <4>2. status # "COMPLETED"
        BY <4>1 DEF HolderInv, VerdictHolds, Comparing
      <4>3. verdict' = "clean" => Clean'
        BY <4>1 DEF Clean
      <4> QED
        BY <4>1, <4>2, <4>3 DEF VerdictHolds
    <3>2. CASE Conclude(p)
      <4>1. /\ status' = IF verdict = "clean" THEN "COMPLETED" ELSE "FAILED"
            /\ task[p] = "final" /\ task' = [task EXCEPT ![p] = "evidence"] /\ UNCHANGED <<verdict, sides>>
        BY <3>2 DEF Conclude
      <4>2. verdict = "clean" => Clean'
        BY <4>1 DEF HolderInv, VerdictHolds, Clean
      <4>3. \A q \in Procs : ~Comparing(q)'
        BY <2>3, <4>1 DEF Comparing, Shapes
      <4> QED
        BY <4>1, <4>2, <4>3 DEF VerdictHolds, Comparing
    <3> QED
      BY <1>9, <3>1, <3>2
  <2> QED
    BY <2>6, <2>7, <2>8 DEF HolderInv
<1>10. ASSUME NEW p \in Procs, Cancel(p) \/ Shutdown(p) PROVE HolderInv'
  <2>1. /\ Interrupt(p) /\ status' \in {status, "CANCELLED"} /\ UNCHANGED <<sides, verdict>>
    BY <1>10 DEF Cancel, Shutdown
  <2>2. task[p] \in {"none", "queued"} => task'[p] = "none" /\ work' = work
    BY <2>1 DEF Interrupt, Shapes, Works
  <2>3. /\ task'[p] \in {"none", "interrupted"}
        /\ \A q \in Procs \ {p} : UNCHANGED <<task[q], work[q]>>
        /\ \A s \in Sides : work'[p][s] \in {work[p][s], "idle"}
    BY <2>1, InterruptShape
  <2>4. Quiet
    BY <2>1, <2>2, <2>3 DEF Quiet, Taken, Comparing, BeforeComparison
  <2> QED
    BY <2>4, QuietStep
<1>11. ASSUME NEW p \in Procs, Fault(p) PROVE HolderInv'
  <2>1. /\ UNCHANGED <<status, sides, verdict>>
        /\ \/ UNCHANGED <<task, work>>
           \/ /\ UNCHANGED work
              /\ \/ task[p] \notin {"none", "queued"} /\ task' = [task EXCEPT ![p] = "error"]
                 \/ task' = [task EXCEPT ![p] = "none"]
           \/ \E s \in Sides : /\ Busy(p, s) /\ work' = [work EXCEPT ![p][s] = "raised"]
                               /\ UNCHANGED task
    BY <1>11 DEF Fault, Busy
  <2>2. Quiet
    <3>1. CASE UNCHANGED work
      BY <2>1, <3>1 DEF Quiet, Taken, Comparing, BeforeComparison, Shapes
    <3>2. ASSUME NEW s \in Sides, Busy(p, s), work' = [work EXCEPT ![p][s] = "raised"], UNCHANGED task
          PROVE  Quiet
      <4>1. /\ work[p][s] \in {"begin", "running"} /\ work'[p][s] = "raised"
            /\ \A q \in Procs, t \in Sides : q # p \/ t # s => work'[q][t] = work[q][t]
        BY <3>2 DEF Busy, Shapes, Works
      <4> QED
        BY <2>1, <3>2, <4>1 DEF Quiet, Taken, Comparing, BeforeComparison
    <3> QED
      BY <2>1, <3>1, <3>2
  <2> QED
    BY <2>2, QuietStep
<1>12. ASSUME NEW p \in Procs, Crash(p) \/ Exit(p) PROVE HolderInv'
  <2>1. /\ UNCHANGED <<status, sides, verdict>> /\ work' = [work EXCEPT ![p] = AllIdle]
        /\ UNCHANGED task \/ task' = [task EXCEPT ![p] = "none"]
        /\ task'[p] = "none"
    BY <1>12 DEF Crash, Exit, Down, Shapes
  <2>2. \A s \in Sides : work'[p][s] = "idle"
    BY <2>1 DEF AllIdle, Shapes
  <2>3. \A q \in Procs \ {p} : work'[q] = work[q] /\ task'[q] = task[q]
    BY <2>1 DEF Shapes
  <2>4. Quiet
    BY <2>1, <2>2, <2>3 DEF Quiet, Taken, Comparing, BeforeComparison
  <2> QED
    BY <2>4, QuietStep
<1>13. ASSUME UNCHANGED vars PROVE HolderInv'
  <2>1. Quiet
    BY <1>13 DEF vars, Quiet, Taken, Comparing, BeforeComparison
  <2> QED
    BY <2>1, QuietStep
<1> QED
  BY <1>1, <1>2, <1>3, <1>4, <1>5, <1>6, <1>7, <1>8, <1>9, <1>10, <1>11, <1>12, <1>13
     DEF Next, Serve, Work, Disturb

\* A comparison is of two results that nothing writes any more, and COMPLETED
\* says of them that the candidate is built and fails nothing that passed on
\* base, case by case or as a test process where there are no cases on one
\* side: for any processes, results and test cases, retries, cancellations,
\* stops and failed statements (ValidationService.execute,
\* ValidationComparator.compare).
THEOREM ComparedWhenDone == Spec => []ComparedSidesAreDone
<1>1. Init => Shapes /\ HolderInv
  <2> SUFFICES ASSUME Init PROVE HolderInv
    BY ShapesInit
  <2>1. \A p \in Procs : task[p] = "none" /\ \A s \in Sides : work[p][s] = "idle"
    BY DEF Init, AllIdle
  <2> QED
    BY <2>1 DEF Init, HolderInv, OneHolder, SidesWritten, VerdictHolds, Taken, Comparing,
                BeforeComparison
<1>2. Shapes /\ HolderInv /\ [Next]_vars => Shapes' /\ HolderInv'
  BY ShapesStep, HolderStep
<1>3. HolderInv => ComparedSidesAreDone
  <2> SUFFICES ASSUME HolderInv PROVE ComparedSidesAreDone
    OBVIOUS
  <2>1. status \in {"COMPARING", "COMPLETED"} => sides["BASE"] \in Results /\ sides["CANDIDATE"] \in Results
    BY DEF HolderInv, SidesWritten, Sides
  <2>2. ASSUME status = "COMPLETED"
        PROVE  verdict = "clean" /\ NoWorseThan(sides["BASE"], sides["CANDIDATE"])
    BY <2>1, <2>2, CleanIsNoWorse DEF HolderInv, VerdictHolds, Clean
  <2>3. ASSUME NEW b \in Results, NEW c \in Results, NoWorseThan(b, c)
        PROVE  /\ b.status = "COMPLETED" /\ c.status = "COMPLETED" /\ c.build = "PASSED"
               /\ \A u \in Test : b.cases[u] = "pass" => c.cases[u] # "fail"
               /\ b.build = "PASSED" /\ (b.cases = NoCases \/ c.cases = NoCases) => c.test = "PASSED"
    <3>1. /\ b.status = "COMPLETED" /\ c.status = "COMPLETED" /\ c.build = "PASSED"
          /\ b.build = "PASSED" /\ ~CaseByCase(b, c) => c.test = "PASSED"
          /\ b.build = "PASSED" /\ CaseByCase(b, c) =>
               \A u \in Test : b.cases[u] = "pass" => c.cases[u] # "fail"
      BY <2>3 DEF NoWorseThan
    <3>2. ~CaseByCase(b, c) => (\A u \in Test : b.cases[u] # "pass") \/ (\A u \in Test : c.cases[u] # "fail")
      BY DEF CaseByCase, NoCases
    <3>3. b.build # "PASSED" => \A u \in Test : b.cases[u] # "pass"
      BY <3>1, ResultRow DEF RunnerResult, NoCases
    <3> QED
      BY <3>1, <3>2, <3>3 DEF CaseByCase
  <2> QED
    BY <2>1, <2>2, <2>3 DEF ComparedSidesAreDone
<1> QED
  BY <1>1, <1>2, <1>3, PTL DEF Spec

-----------------------------------------------------------------------------
(* CancelledIsFinal, for one process: whoever writes the status without a   *)
(* condition stands where the row cannot be CANCELLED.                      *)

OneProcess == \A p, q \in Procs : p = q

InPhase(p) == task[p] \in {"prepare", "frozen", "sides", "classify", "final"}

\* A run in a phase is working on its row; a process without a task has none
\* to interrupt; nobody is told that the run is cancelled between the read and
\* the UPDATE of a handler, or of a startup scan.
CancelInv ==
  /\ DOMAIN up = Procs
  /\ \A p \in Procs :
       /\ InPhase(p) => status \in Working
       /\ task[p] \in {"evidence", "error", "abort"} => status # "CANCELLED"
       /\ up[p] = "marking" => status \in Working
       /\ up[p] \in {"down", "marking"} => task[p] \in {"none", "queued"}

CancelKept == status = "CANCELLED" => status' = "CANCELLED"

LEMMA CancelStep ==
  ASSUME OneProcess, Shapes, CancelInv, [Next]_vars
  PROVE  CancelInv' /\ CancelKept
<1> DEFINE Goal == CancelInv' /\ CancelKept
<1> USE DEF CancelInv, CancelKept, InPhase, OneProcess, Working, Terminal, db, local, answers,
            counts, made, GoTo, Shapes
<1>1. ASSUME NEW p \in Procs, NEW r \in Requests, Post(p, r) PROVE Goal
  BY <1>1 DEF Post, LoopIsFree
<1>2. ASSUME NEW p \in Procs, CheckRequest(p) \/ Store(p) PROVE Goal
  <2>1. /\ task' = task \/ (task[p] = "none" /\ task' = [task EXCEPT ![p] = "queued"])
                        \/ (task[p] # "none" /\ task' = [task EXCEPT ![p] = task[p]])
        /\ UNCHANGED <<status, up>>
    BY <1>2 DEF CheckRequest, Store, Accept
  <2> QED
    BY <2>1
<1>3. ASSUME NEW p \in Procs, \/ Begin(p) \/ Load(p) \/ StartSides(p) \/ Compare(p)
                              \/ SideRaises(p) \/ ReadInterrupted(p)
      PROVE  Goal
  BY <1>3 DEF Begin, MayBegin, Load, StartSides, Compare, SideRaises, ReadInterrupted,
              WasNotCancelled, Runs, LoopIsFree
<1>4. ASSUME NEW p \in Procs, Classify(p) \/ Conclude(p) \/ Evidence(p) \/ RecordError(p) \/ Abort(p)
      PROVE  Goal
  BY <1>4 DEF Classify, Conclude, Evidence, RecordError, Abort
<1>5. ASSUME NEW p \in Procs, NEW s \in Sides, BeginSide(p, s) \/ EndSide(p, s) PROVE Goal
  BY <1>5 DEF BeginSide, EndSide
<1>6. ASSUME NEW p \in Procs, Cancel(p) PROVE Goal
  <2>1. /\ task' \in [Procs -> Places] /\ task'[p] \in {"none", "interrupted"}
        /\ status' = "CANCELLED" /\ up' = up /\ up[p] = "up"
    BY <1>6, InterruptShape DEF Cancel
  <2> QED
    BY <2>1
<1>7. ASSUME NEW p \in Procs, Shutdown(p) PROVE Goal
  <2>1. /\ task' \in [Procs -> Places] /\ task'[p] \in {"none", "interrupted"}
        /\ status' = status /\ up' = [up EXCEPT ![p] = "closing"]
    BY <1>7, InterruptShape DEF Shutdown
  <2> QED
    BY <2>1
<1>8. ASSUME NEW p \in Procs, Fault(p) PROVE Goal
  <2>1. UNCHANGED <<status, up>> /\ up[p] \in {"up", "closing"}
    BY <1>8 DEF Fault
  <2>2. \/ task' = task
        \/ InPhase(p) /\ task' = [task EXCEPT ![p] = "error"]
        \/ task[p] = "evidence" /\ task' = [task EXCEPT ![p] = "error"]
        \/ task' = [task EXCEPT ![p] = "none"]
    BY <1>8 DEF Fault
  <2> QED
    BY <2>1, <2>2
<1>9. ASSUME NEW p \in Procs, Crash(p) \/ Exit(p) PROVE Goal
  <2>1. status' = status /\ task'[p] = "none" /\ up' = [up EXCEPT ![p] = "down"]
    BY <1>9 DEF Crash, Exit, Down
  <2> QED
    BY <2>1
<1>10. ASSUME NEW p \in Procs, Start(p) \/ MarkLeftOver(p) PROVE Goal
  BY <1>10 DEF Start, MarkLeftOver, LeftOver
<1>11. ASSUME UNCHANGED vars PROVE Goal
  BY <1>11 DEF vars
<1> HIDE DEF Goal, CancelInv, CancelKept, InPhase, OneProcess, Working, Terminal, db, local, answers,
            counts, made, GoTo, Shapes
<1> QED
  BY <1>1, <1>2, <1>3, <1>4, <1>5, <1>6, <1>7, <1>8, <1>9, <1>10, <1>11
     DEF Next, Serve, Work, Disturb, Goal

\* In one process CANCELLED stays, whatever is retried, stopped or fails: the
\* UPDATEs without a condition (ValidationService.execute, the scan at startup)
\* are made where nothing can have cancelled the run since its status was read.
\* With two processes this is false, as the run CancelOverwritten shows.
THEOREM CancelledStays ==
  ASSUME OneProcess
  PROVE  Spec => CancelledIsFinal
<1>1. Init => Shapes /\ CancelInv
  BY ShapesInit DEF Init, CancelInv, InPhase
<1>2. Shapes /\ CancelInv /\ [Next]_vars => Shapes' /\ CancelInv' /\ CancelKept
  BY ShapesStep, CancelStep
<1>3. CancelKept => [status = "CANCELLED" => status' = "CANCELLED"]_vars
  BY DEF CancelKept
<1> QED
  BY <1>1, <1>2, <1>3, PTL DEF Spec, CancelledIsFinal

-----------------------------------------------------------------------------
(* ImplementsPromise: what one process does with a run is a run as promised. *)

\* Somebody was told of a run that waits, and its tests are stored before it
\* is taken; the containers get the files that were read then.  Whoever found
\* the run past PENDING finds it so.
Supplied == fingerprint # NoSuite /\ uploads = {fingerprint}
SuppliedInv ==
  /\ status # "NONE" => \E r : creator = {r}
  /\ \A p \in Procs :
       /\ handler[p].at = "fingerprint" /\ handler[p].seen # "PENDING" =>
            status \notin {"NONE", "PENDING"}
       /\ task[p] = "queued" => accepted # {} /\ (status = "PENDING" => Supplied)
       /\ task[p] = "prepare" => Supplied
       /\ task[p] = "frozen" \/ (\E s \in Sides : work[p][s] = "begin") =>
            Supplied /\ files[p] = {fingerprint}

\* Steps that take nothing, load nothing and start nothing.
SuppliedKept ==
  /\ UNCHANGED <<creator, fingerprint, uploads, accepted, files>>
  /\ status' \in {"NONE", "PENDING"} \/ status = "NONE" => status' = status
  /\ \A p \in Procs :
       /\ handler'[p] \in {handler[p], Idle}
       /\ task'[p] \in {"queued", "prepare", "frozen"} => task'[p] = task[p]
       /\ \A s \in Sides : work'[p][s] = "begin" => work[p][s] = "begin"

LEMMA SuppliedKeptStep == SuppliedInv /\ SuppliedKept => SuppliedInv'
<1> SUFFICES ASSUME SuppliedInv, SuppliedKept PROVE SuppliedInv'
  OBVIOUS
<1>1. Supplied' = Supplied /\ Idle.at # "fingerprint"
  BY DEF SuppliedKept, Supplied, Idle
<1>2. status' # "NONE" => \E r : creator' = {r}
  BY DEF SuppliedInv, SuppliedKept
<1>3. \A p \in Procs : handler'[p].at = "fingerprint" /\ handler'[p].seen # "PENDING" =>
                         status' \notin {"NONE", "PENDING"}
  BY <1>1 DEF SuppliedInv, SuppliedKept
<1>4. \A p \in Procs :
        /\ task'[p] = "queued" => accepted' # {} /\ (status' = "PENDING" => Supplied')
        /\ task'[p] = "prepare" => Supplied'
  BY <1>1 DEF SuppliedInv, SuppliedKept
<1>5. \A p \in Procs :
        task'[p] = "frozen" \/ (\E s \in Sides : work'[p][s] = "begin") =>
            Supplied' /\ files'[p] = {fingerprint'}
  BY <1>1 DEF SuppliedInv, SuppliedKept
<1> QED
  BY <1>2, <1>3, <1>4, <1>5 DEF SuppliedInv

LEMMA SuppliedStep ==
  ASSUME Shapes, OnceInv, AcceptInv, HolderInv, CancelInv, SuppliedInv, [Next]_vars
  PROVE  SuppliedInv'
<1> USE DEF db, local, answers, counts, made, GoTo
<1>1. ASSUME NEW p \in Procs, NEW r \in Requests, Post(p, r) PROVE SuppliedInv'
  <2> DEFINE h == [at |-> "fingerprint", request |-> r, seen |-> status']
  <2>1. /\ handler' = [handler EXCEPT ![p] = h]
        /\ status' = IF status = "NONE" THEN "PENDING" ELSE status
        /\ creator' = IF status = "NONE" THEN {r} ELSE creator
        /\ UNCHANGED <<fingerprint, uploads, accepted, task, files, work>>
    BY <1>1 DEF Post, Insert
  <2>2. h.seen = status'
    OBVIOUS
  <2> HIDE DEF h
  <2>3. \A q \in Procs : handler'[q] \in {handler[q], h}
    BY <2>1 DEF Shapes
  <2>4. /\ Supplied' = Supplied
        /\ status = "NONE" => accepted = {} /\ \A q \in Procs : handler[q].at # "fingerprint"
    BY <2>1 DEF Supplied, AcceptInv, Idle
  <2>5. \A q \in Procs : handler'[q].at = "fingerprint" /\ handler'[q].seen # "PENDING" =>
                           status' \notin {"NONE", "PENDING"}
    BY <2>1, <2>2, <2>3, <2>4 DEF SuppliedInv
  <2> QED
    BY <2>1, <2>4, <2>5 DEF SuppliedInv
<1>2. ASSUME NEW p \in Procs, CheckRequest(p) PROVE SuppliedInv'
  <2>1. handler[p].at = "fingerprint"
    BY <1>2 DEF CheckRequest
  <2>2. handler[p] \in [at : {"fingerprint", "store"}, request : Requests, seen : Statuses]
    BY <2>1, HandlerShape DEF Shapes
  <2>3. PICK r, h : r = handler[p].request /\ h = [handler[p] EXCEPT !.at = "store"]
    OBVIOUS
  <2>a. h.at = "store" /\ Idle.at # "fingerprint"
    BY <2>2, <2>3 DEF Idle
  <2>4. /\ fingerprint' = Keep(r) /\ UNCHANGED <<status, creator, uploads, files, work>>
        /\ handler' = [handler EXCEPT ![p] = h] \/ handler' = [handler EXCEPT ![p] = Idle]
        /\ \/ UNCHANGED <<task, accepted>>
           \/ /\ handler[p].seen # "PENDING" /\ accepted' = accepted \union {r}
              /\ task' = [task EXCEPT ![p] = IF @ = "none" THEN "queued" ELSE @]
    BY <1>2, <2>3 DEF CheckRequest, Accept
  <2>5. Supplied => Supplied' /\ fingerprint' = fingerprint
    BY <2>4 DEF Keep, Supplied
  <2>6. \A q \in Procs : handler'[q] \in {handler[q], h, Idle}
    BY <2>4 DEF Shapes
  <2>7. \A q \in Procs : handler'[q].at = "fingerprint" => handler'[q] = handler[q]
    BY <2>a, <2>6
  <2>8. \A q \in Procs : /\ task'[q] = "queued" => accepted' # {} /\ (status' = "PENDING" => Supplied')
                         /\ task'[q] # "queued" => task'[q] = task[q]
    BY <2>1, <2>4, <2>5 DEF SuppliedInv, Shapes
  <2> QED
    BY <2>4, <2>5, <2>7, <2>8 DEF SuppliedInv
<1>3. ASSUME NEW p \in Procs, Store(p) PROVE SuppliedInv'
  <2> DEFINE r == handler[p].request
  <2>1. fingerprint # NoSuite /\ r.suite = fingerprint /\ uploads \subseteq {fingerprint}
    BY <1>3 DEF Store, AcceptInv, Agrees
  <2>2. /\ handler' = [handler EXCEPT ![p] = Idle]
        /\ UNCHANGED <<status, creator, fingerprint, files, work>>
        /\ \/ /\ uploads' = uploads \union {r.suite} /\ accepted' = accepted \union {r}
              /\ task' = [task EXCEPT ![p] = IF @ = "none" THEN "queued" ELSE @]
           \/ UNCHANGED <<uploads, task, accepted>>
    BY <1>3 DEF Store, Accept
  <2> HIDE DEF r
  <2>3. Supplied => Supplied'
    BY <2>1, <2>2 DEF Supplied
  <2>4. \A q \in Procs : handler'[q].at = "fingerprint" => handler'[q] = handler[q]
    BY <2>2 DEF Shapes, Idle
  <2>5. \A q \in Procs : /\ task'[q] = "queued" => accepted' # {} /\ (status' = "PENDING" => Supplied')
                         /\ task'[q] # "queued" => task'[q] = task[q]
    BY <2>1, <2>2 DEF SuppliedInv, Shapes, Supplied
  <2> QED
    BY <2>2, <2>3, <2>4, <2>5 DEF SuppliedInv
<1>4. ASSUME NEW p \in Procs, Begin(p), MayBegin PROVE SuppliedInv'
  <2>1. /\ task[p] = "queued" /\ status = "PENDING" /\ status' = "PREPARING"
        /\ task' = [task EXCEPT ![p] = "prepare"]
        /\ UNCHANGED <<creator, fingerprint, uploads, accepted, handler, files, work>>
    BY <1>4 DEF Begin, MayBegin, Runs
  <2>2. Supplied /\ Supplied' = Supplied
    BY <2>1 DEF SuppliedInv, Supplied
  <2>3. \A q \in Procs : q # p => task'[q] = task[q]
    BY <2>1 DEF Shapes
  <2>4. task'[p] = "prepare"
    BY <2>1 DEF Shapes
  <2> QED
    BY <2>1, <2>2, <2>3, <2>4 DEF SuppliedInv
<1>5. ASSUME NEW p \in Procs, Load(p) PROVE SuppliedInv'
  <2>1. /\ task[p] = "prepare" /\ task' = [task EXCEPT ![p] = "frozen"]
        /\ files' = [files EXCEPT ![p] = uploads]
        /\ UNCHANGED <<status, creator, fingerprint, uploads, accepted, handler, work>>
    BY <1>5 DEF Load, Runs
  <2>2. Supplied /\ Supplied' = Supplied
    BY <2>1 DEF SuppliedInv, Supplied
  <2>3. files'[p] = {fingerprint} /\ \A q \in Procs : q # p => files'[q] = files[q]
    BY <2>1, <2>2 DEF Shapes, Supplied
  <2>4. task'[p] = "frozen" /\ \A q \in Procs : q # p => task'[q] = task[q]
    BY <2>1 DEF Shapes
  <2> QED
    BY <2>1, <2>2, <2>3, <2>4 DEF SuppliedInv
<1>6. ASSUME NEW p \in Procs, StartSides(p) PROVE SuppliedInv'
  <2>1. /\ task[p] = "frozen" /\ task' = [task EXCEPT ![p] = "sides"] /\ status' = "RUNNING"
        /\ work' = [work EXCEPT ![p] = [s \in Sides |-> "begin"]]
        /\ UNCHANGED <<creator, fingerprint, uploads, accepted, handler, files>>
    BY <1>6 DEF StartSides, Runs
  <2>2. Supplied /\ Supplied' = Supplied /\ files[p] = {fingerprint}
    BY <2>1 DEF SuppliedInv, Supplied
  <2>3. \A q \in Procs : q # p => task'[q] = task[q] /\ work'[q] = work[q]
    BY <2>1 DEF Shapes
  <2>4. task'[p] = "sides"
    BY <2>1 DEF Shapes
  <2>5. status # "NONE"
    BY <2>1 DEF OnceInv, Pre, Prepares, Sides
  <2> QED
    BY <2>1, <2>2, <2>3, <2>4, <2>5 DEF SuppliedInv
<1>7. ASSUME NEW p \in Procs, NEW s \in Sides, BeginSide(p, s) \/ EndSide(p, s) PROVE SuppliedInv'
  <2>1. /\ \E v \in {"running", "done"} : work' = [work EXCEPT ![p][s] = v]
        /\ UNCHANGED <<status, creator, fingerprint, uploads, accepted, handler, task, files>>
    BY <1>7 DEF BeginSide, EndSide
  <2>2. SuppliedKept
    BY <2>1 DEF SuppliedKept, Shapes, Works
  <2> QED
    BY <2>2, SuppliedKeptStep
<1>8. ASSUME NEW p \in Procs,
             \/ Compare(p) \/ Classify(p) \/ Conclude(p) \/ Evidence(p) \/ SideRaises(p)
             \/ RecordError(p) \/ ReadInterrupted(p) \/ Abort(p) \/ Start(p) \/ MarkLeftOver(p)
             \/ (Begin(p) /\ ~MayBegin)
      PROVE  SuppliedInv'
  <2>1. /\ UNCHANGED <<creator, fingerprint, uploads, accepted, handler, files, work>>
        /\ \/ status' = status
           \/ /\ status' \in {"COMPARING", "COMPLETED", "FAILED"}
              /\ Taken(p) \/ up[p] = "marking"
        /\ task' = task \/ \E t \in {"none", "classify", "final", "evidence", "error", "abort"} :
                             task' = [task EXCEPT ![p] = t]
    BY <1>8 DEF Compare, Classify, Conclude, Evidence, SideRaises, RecordError, ReadInterrupted,
                Abort, Start, MarkLeftOver, Begin, Runs, Taken
  <2>2. status' = status \/ status \notin {"NONE", "PENDING"}
    BY <2>1 DEF HolderInv, OneHolder, CancelInv, Working
  <2>3. SuppliedKept
    BY <2>1, <2>2 DEF SuppliedKept, Shapes
  <2> QED
    BY <2>3, SuppliedKeptStep
<1>9. ASSUME NEW p \in Procs, Cancel(p) \/ Shutdown(p) PROVE SuppliedInv'
  <2>1. /\ Interrupt(p) /\ UNCHANGED <<creator, fingerprint, uploads, accepted, handler, files>>
        /\ status' = status \/ (status # "NONE" /\ status' = "CANCELLED")
    BY <1>9 DEF Cancel, Shutdown, Working
  <2>2. /\ task' \in [Procs -> Places] /\ task'[p] \in {"none", "interrupted"}
        /\ \A q \in Procs \ {p} : UNCHANGED <<task[q], work[q]>>
        /\ \A s \in Sides : work'[p][s] \in {work[p][s], "idle"}
    BY <2>1, InterruptShape
  <2>3. SuppliedKept
    BY <2>1, <2>2 DEF SuppliedKept
  <2> QED
    BY <2>3, SuppliedKeptStep
<1>10. ASSUME NEW p \in Procs, Fault(p) PROVE SuppliedInv'
  <2>1. /\ UNCHANGED <<status, creator, fingerprint, uploads, accepted, files>>
        /\ handler' = handler \/ handler' = [handler EXCEPT ![p] = Idle]
        /\ task' = task \/ \E t \in {"error", "none"} : task' = [task EXCEPT ![p] = t]
        /\ work' = work \/ \E s \in Sides : work' = [work EXCEPT ![p][s] = "raised"]
    BY <1>10 DEF Fault
  <2>2. \A q \in Procs, s \in Sides : work'[q][s] \in {work[q][s], "raised"}
    BY <2>1 DEF Shapes, Works
  <2>3. SuppliedKept
    BY <2>1, <2>2 DEF SuppliedKept, Shapes
  <2> QED
    BY <2>3, SuppliedKeptStep
<1>11. ASSUME NEW p \in Procs, Crash(p) \/ Exit(p) PROVE SuppliedInv'
  <2>1. /\ UNCHANGED <<status, creator, fingerprint, uploads, accepted, files>>
        /\ handler' = [handler EXCEPT ![p] = Idle] /\ work' = [work EXCEPT ![p] = AllIdle]
        /\ task' = task \/ task' = [task EXCEPT ![p] = "none"]
    BY <1>11 DEF Crash, Exit, Down
  <2>2. SuppliedKept
    BY <2>1 DEF SuppliedKept, Shapes, AllIdle
  <2> QED
    BY <2>2, SuppliedKeptStep
<1>12. ASSUME UNCHANGED vars PROVE SuppliedInv'
  <2>1. SuppliedKept
    BY <1>12 DEF vars, SuppliedKept
  <2> QED
    BY <2>1, SuppliedKeptStep
<1> QED
  BY <1>1, <1>2, <1>3, <1>4, <1>5, <1>6, <1>7, <1>8, <1>9, <1>10, <1>11, <1>12
     DEF Next, Serve, Work, Disturb

\* Where a side is, its row tells: untouched until it is started, and running
\* while its container is.
SideInv ==
  /\ sides \in [Sides -> Results \union {Untouched, Running}]
  /\ \A s \in Sides : ran[s] = 0 => sides[s] = Untouched
  /\ \A p \in Procs, s \in Sides : work[p][s] = "running" => sides[s] = Running

LEMMA SideStep ==
  ASSUME Shapes, OnceInv, HolderInv, SideInv, [Next]_vars PROVE SideInv'
<1> USE DEF db, local, answers, counts, made, GoTo
<1>1. ASSUME UNCHANGED <<sides, ran>>,
             \A p \in Procs, s \in Sides : work'[p][s] = "running" => work[p][s] = "running"
      PROVE  SideInv'
  BY <1>1 DEF SideInv
<1>2. ASSUME NEW p \in Procs, NEW s \in Sides, BeginSide(p, s) PROVE SideInv'
  <2>1. /\ work[p][s] = "begin" /\ ran' = [ran EXCEPT ![s] = @ + 1]
        /\ sides' = [sides EXCEPT ![s] = IF @ = Untouched THEN Running ELSE @]
        /\ work' = [work EXCEPT ![p][s] = "running"]
    BY <1>2 DEF BeginSide
  <2>2. ran[s] = 0 /\ sides[s] = Untouched /\ Taken(p)
    BY <2>1 DEF OnceInv, Pre, SideInv, Taken
  <2>3. sides' = [sides EXCEPT ![s] = Running]
    BY <2>1, <2>2 DEF SideInv
  <2>4. \A t \in Sides : ran'[t] = 0 => t # s /\ ran[t] = 0
    BY <2>1, <2>2 DEF Shapes
  <2>5. \A q \in Procs, t \in Sides : work'[q][t] = "running" => work[q][t] = "running" \/ t = s
    BY <2>1 DEF Shapes, Works
  <2> QED
    BY <2>3, <2>4, <2>5 DEF SideInv
<1>3. ASSUME NEW p \in Procs, NEW s \in Sides, EndSide(p, s) PROVE SideInv'
  <2>1. PICK o \in Results : sides' = [sides EXCEPT ![s] = o]
    BY <1>3 DEF EndSide
  <2>2. /\ work[p][s] = "running" /\ ran' = ran /\ work' = [work EXCEPT ![p][s] = "done"]
    BY <1>3 DEF EndSide
  <2>3. Taken(p) /\ sides[s] = Running /\ ran[s] # 0
    BY <2>2, RowsDiffer DEF Taken, SideInv
  <2>4. \A q \in Procs, t \in Sides : work'[q][t] = "running" => work[q][t] = "running" /\ t # s
    <3>1. \A q \in Procs \ {p}, t \in Sides : work'[q] = work[q] /\ work[q][t] = "idle"
      BY <2>2, <2>3, OthersIdle DEF Shapes
    <3>2. \A t \in Sides : work'[p][t] = "running" => work[p][t] = "running" /\ t # s
      BY <2>2 DEF Shapes, Works
    <3> QED
      BY <3>1, <3>2
  <2> QED
    BY <2>1, <2>2, <2>3, <2>4 DEF SideInv
<1>4. ASSUME NEW p \in Procs, StartSides(p) PROVE SideInv'
  <2>1. UNCHANGED <<sides, ran>> /\ work' = [work EXCEPT ![p] = [s \in Sides |-> "begin"]]
    BY <1>4 DEF StartSides
  <2> QED
    BY <1>1, <2>1 DEF Shapes
<1>5. ASSUME NEW p \in Procs,
             \/ \E r \in Requests : Post(p, r)
             \/ Serve(p) \/ Begin(p) \/ Load(p) \/ Compare(p) \/ Classify(p) \/ Conclude(p)
             \/ Evidence(p) \/ SideRaises(p) \/ RecordError(p) \/ ReadInterrupted(p) \/ Abort(p)
             \/ Start(p) \/ MarkLeftOver(p)
      PROVE  SideInv'
  <2>1. UNCHANGED <<sides, ran, work>>
    BY <1>5 DEF Post, Serve, CheckRequest, Store, Begin, Load, Compare, Classify, Conclude, Evidence,
                SideRaises, RecordError, ReadInterrupted, Abort, Start, MarkLeftOver
  <2> QED
    BY <1>1, <2>1
<1>6. ASSUME NEW p \in Procs, Cancel(p) \/ Shutdown(p) PROVE SideInv'
  <2>1. Interrupt(p) /\ UNCHANGED <<sides, ran>>
    BY <1>6 DEF Cancel, Shutdown
  <2> QED
    BY <1>1, <2>1, InterruptShape
<1>7. ASSUME NEW p \in Procs, Fault(p) \/ Crash(p) \/ Exit(p) PROVE SideInv'
  <2>1. /\ UNCHANGED <<sides, ran>>
        /\ \/ work' = work \/ work' = [work EXCEPT ![p] = AllIdle]
           \/ \E s \in Sides : work' = [work EXCEPT ![p][s] = "raised"]
    BY <1>7 DEF Fault, Crash, Exit, Down
  <2>2. \A q \in Procs, s \in Sides : work'[q][s] \in {work[q][s], "raised", "idle"}
    BY <2>1 DEF Shapes, Works, AllIdle
  <2> QED
    BY <1>1, <2>1, <2>2
<1>8. ASSUME UNCHANGED vars PROVE SideInv'
  BY <1>1, <1>8 DEF vars
<1> QED
  BY <1>2, <1>3, <1>4, <1>5, <1>6, <1>7, <1>8 DEF Next, Work, Disturb
\* The status and the verdict are those of the place where execute() stands.
PhaseInv ==
  /\ status \in {"NONE", "PENDING"} => verdict = "none"
  /\ \A p \in Procs :
       /\ task[p] \in {"prepare", "frozen"} => status = "PREPARING"
       /\ task[p] = "sides" => status = "RUNNING"
       /\ Comparing(p) => status = "COMPARING"
       /\ BeforeComparison(p) \/ task[p] = "classify" => verdict = "none"
       /\ task[p] = "final" => verdict # "none"

LEMMA PhaseStep ==
  ASSUME OneProcess, Shapes, CancelInv, HolderInv, PhaseInv, [Next]_vars
  PROVE  PhaseInv'
<1> USE DEF PhaseInv, Comparing, BeforeComparison, OneProcess, db, local, answers, counts, made,
            GoTo, Shapes
<1>1. ASSUME NEW p \in Procs, UNCHANGED verdict,
             status' \in {"NONE", "PENDING"} => status \in {"NONE", "PENDING"},
             task'[p] \in {"none", "queued", "error", "abort", "interrupted", "evidence"}
      PROVE  PhaseInv'
  BY <1>1
<1>2. ASSUME UNCHANGED <<verdict, task>>, status' = status \/ (status = "NONE" /\ status' = "PENDING"),
             \A p \in Procs : task[p] \in {"none", "queued"} \/ status' = status
      PROVE  PhaseInv'
  BY <1>2
<1>3. ASSUME NEW p \in Procs, NEW r \in Requests, Post(p, r) PROVE PhaseInv'
  <2>1. UNCHANGED <<verdict, task>> /\ (status' = status \/ (status = "NONE" /\ status' = "PENDING"))
    BY <1>3 DEF Post
  <2>2. status = "NONE" => \A q \in Procs : task[q] \in {"none", "queued"}
    BY DEF HolderInv, OneHolder, Taken
  <2> QED
    BY <1>2, <2>1, <2>2
<1>4. ASSUME NEW p \in Procs, CheckRequest(p) \/ Store(p) PROVE PhaseInv'
  <2>1. /\ task' = task \/ (task[p] = "none" /\ task' = [task EXCEPT ![p] = "queued"])
                        \/ (task[p] # "none" /\ task' = [task EXCEPT ![p] = task[p]])
        /\ UNCHANGED <<status, verdict>>
    BY <1>4 DEF CheckRequest, Store, Accept
  <2> QED
    BY <2>1
<1>5. ASSUME NEW p \in Procs, Begin(p) PROVE PhaseInv'
  <2>1. CASE MayBegin
    <3>1. /\ status = "PENDING" /\ status' = "PREPARING" /\ UNCHANGED verdict
          /\ task' = [task EXCEPT ![p] = "prepare"]
      BY <1>5, <2>1 DEF Begin, MayBegin
    <3> QED
      BY <3>1
  <2>2. CASE ~MayBegin
    BY <1>1, <1>5, <2>2 DEF Begin
  <2> QED
    BY <2>1, <2>2
<1>6. ASSUME NEW p \in Procs, Load(p) \/ StartSides(p) \/ Compare(p) PROVE PhaseInv'
  BY <1>6 DEF Load, StartSides, Compare, Runs
<1>7. ASSUME NEW p \in Procs, Classify(p) PROVE PhaseInv'
  <2>1. verdict' # "none"
    BY <1>7 DEF Classify, Verdict
  <2>2. /\ task[p] = "classify" /\ task' = [task EXCEPT ![p] = "final"]
        /\ UNCHANGED <<status, creator, fingerprint, uploads, sides, up, handler, files, work>>
    BY <1>7 DEF Classify
  <2> QED
    BY <2>1, <2>2
<1>8. ASSUME NEW p \in Procs,
             \/ Conclude(p) \/ Evidence(p) \/ SideRaises(p) \/ RecordError(p) \/ ReadInterrupted(p)
             \/ Abort(p)
      PROVE  PhaseInv'
  <2>1. /\ UNCHANGED verdict /\ status' \in {status, "COMPLETED", "FAILED"}
        /\ \E t \in {"none", "error", "abort", "evidence"} : task' = [task EXCEPT ![p] = t]
    BY <1>8 DEF Conclude, Evidence, SideRaises, RecordError, ReadInterrupted, Abort
  <2> QED
    BY <1>1, <2>1
<1>9. ASSUME NEW p \in Procs, NEW s \in Sides, BeginSide(p, s) \/ EndSide(p, s) PROVE PhaseInv'
  BY <1>2, <1>9 DEF BeginSide, EndSide
<1>10. ASSUME NEW p \in Procs, Cancel(p) \/ Shutdown(p) PROVE PhaseInv'
  <2>1. Interrupt(p) /\ UNCHANGED verdict /\ status' \in {status, "CANCELLED"}
    BY <1>10 DEF Cancel, Shutdown
  <2>2. task'[p] \in {"none", "interrupted"}
    BY <2>1, InterruptShape
  <2> QED
    BY <1>1, <2>1, <2>2
<1>11. ASSUME NEW p \in Procs, Fault(p) PROVE PhaseInv'
  <2>1. /\ UNCHANGED <<status, verdict>>
        /\ task' = task \/ \E t \in {"error", "none"} : task' = [task EXCEPT ![p] = t]
    BY <1>11 DEF Fault
  <2> QED
    BY <1>1, <1>2, <2>1
<1>12. ASSUME NEW p \in Procs, Crash(p) \/ Exit(p) PROVE PhaseInv'
  <2>1. UNCHANGED <<status, verdict>> /\ task'[p] = "none"
    BY <1>12 DEF Crash, Exit, Down
  <2> QED
    BY <1>1, <2>1
<1>13. ASSUME NEW p \in Procs, Start(p) PROVE PhaseInv'
  BY <1>2, <1>13 DEF Start
<1>14. ASSUME NEW p \in Procs, MarkLeftOver(p) PROVE PhaseInv'
  <2>1. UNCHANGED <<verdict, task>> /\ status' = "FAILED" /\ up[p] = "marking"
    BY <1>14 DEF MarkLeftOver
  <2>2. task'[p] \in {"none", "queued"}
    BY <2>1 DEF CancelInv
  <2> QED
    BY <1>1, <2>1, <2>2
<1>15. ASSUME UNCHANGED vars PROVE PhaseInv'
  BY <1>2, <1>15 DEF vars
<1> HIDE DEF PhaseInv, Comparing, BeforeComparison, OneProcess, db, local, answers, counts, made,
            GoTo, Shapes
<1> QED
  BY <1>3, <1>4, <1>5, <1>6, <1>7, <1>8, <1>9, <1>10, <1>11, <1>12, <1>13, <1>14, <1>15
     DEF Next, Serve, Work, Disturb

\* Everything that is known of a run that one process serves.
ServedInv == /\ Shapes /\ OnceInv /\ AcceptInv /\ HolderInv /\ CancelInv
             /\ SuppliedInv /\ SideInv /\ PhaseInv

LEMMA ServedInit == Init => ServedInv
<1> SUFFICES ASSUME Init PROVE ServedInv
  OBVIOUS
<1>1. \A p \in Procs : task[p] = "none" /\ handler[p] = Idle /\ \A s \in Sides : work[p][s] = "idle"
  BY DEF Init, AllIdle
<1>2. OnceInv /\ AcceptInv
  BY <1>1 DEF Init, OnceInv, Pre, Prepares, AcceptInv, Idle
<1>3. HolderInv /\ CancelInv
  BY <1>1 DEF Init, HolderInv, OneHolder, SidesWritten, VerdictHolds, Taken, Comparing,
              BeforeComparison, CancelInv, InPhase
<1>4. SuppliedInv /\ SideInv /\ PhaseInv
  BY <1>1 DEF Init, SuppliedInv, SideInv, PhaseInv, Idle, Comparing, BeforeComparison
<1> QED
  BY <1>2, <1>3, <1>4, ShapesInit DEF ServedInv

LEMMA ServedStep == OneProcess /\ ServedInv /\ [Next]_vars => ServedInv'
BY ShapesStep, OnceStep, AcceptStep, HolderStep, CancelStep, SuppliedStep, SideStep, PhaseStep
   DEF ServedInv

\* The two specifications name the same things.
LEMMA SameNames ==
  /\ Promise!Sides = Sides /\ Promise!Working = Working
  /\ Promise!vars = <<status, creator, fingerprint, accepted, executed, sides, verdict>>
BY DEF Promise!Sides, Promise!Working, Promise!vars, Sides, Working

\* The verdict that the comparator gives is one of those the promise allows.
LEMMA VerdictIsPromised ==
  ASSUME sides["BASE"] \in Results, sides["CANDIDATE"] \in Results,
         verdict' = Verdict(sides["BASE"], sides["CANDIDATE"])
  PROVE  /\ verdict' \in {"clean", "regression", "inconclusive"}
         /\ verdict' = "clean" <=> Promise!Reliable /\ Promise!NoWorse
         /\ verdict' = "regression" => Promise!Reliable /\ Promise!Base.build = "PASSED"
<1> DEFINE b == sides["BASE"]
           c == sides["CANDIDATE"]
<1>1. Promise!Base = b /\ Promise!Candidate = c
  BY DEF Promise!Base, Promise!Candidate
<1>2. Promise!Reliable <=> Ended(b, c)
  BY DEF Promise!Reliable, Promise!Sides, Ended
<1>3. ASSUME NEW q \in Results PROVE Promise!SomeCase(q) <=> q.cases # NoCases
  <2>1. q.cases \in [Test -> {"absent", "pass", "fail"}]
    BY ResultRow
  <2>2. q.cases = NoCases <=> \A u \in Test : q.cases[u] = "absent"
    BY <2>1 DEF NoCases
  <2> QED
    BY <2>2 DEF Promise!SomeCase
<1>4. Promise!Reliable /\ Promise!NoWorse <=> NoWorseThan(b, c)
  <2>1. Promise!SomeCase(b) /\ Promise!SomeCase(c) <=> CaseByCase(b, c)
    BY <1>3 DEF CaseByCase
  <2>2. Promise!NoWorse <=>
          /\ c.build = "PASSED"
          /\ b.build = "PASSED" =>
               IF CaseByCase(b, c) THEN ~\E u \in Test : b.cases[u] = "pass" /\ c.cases[u] = "fail"
                                   ELSE c.test = "PASSED"
    BY <1>1, <2>1 DEF Promise!NoWorse
  <2> QED
    BY <1>2, <2>2 DEF NoWorseThan, Ended
<1>5. /\ Verdict(b, c) \in {"clean", "regression", "inconclusive"}
      /\ Verdict(b, c) = "clean" <=> NoWorseThan(b, c)
      /\ Verdict(b, c) = "regression" => Ended(b, c) /\ b.build = "PASSED"
  BY CleanIsNoWorse
<1> QED
  BY <1>1, <1>2, <1>4, <1>5

LEMMA PromiseInit == Init => Promise!Init
BY SameNames DEF Init, Promise!Init

\* What leaves the row, its configuration and its executions alone is no step
\* of the promise.
Unnoticed == UNCHANGED <<status, creator, fingerprint, accepted, executed, sides, verdict>>

\* Statements that write FAILED without a condition.
LEMMA FailsOrFailed ==
  ASSUME status \in Working \union {"COMPLETED", "FAILED"}, status' = "FAILED",
         UNCHANGED <<creator, fingerprint, accepted, executed, sides, verdict>>
  PROVE  Promise!Fail \/ Unnoticed
BY SameNames DEF Promise!Fail, Unnoticed

\* A request is served as promised.
LEMMA PromiseServe ==
  ASSUME ServedInv, NEW p \in Procs, CheckRequest(p) \/ Store(p)
  PROVE  (\E r \in Requests : Promise!Receive(r)) \/ Unnoticed
<1> USE DEF ServedInv, db, made
<1>1. handler[p] \in [at : {"fingerprint", "store"}, request : Requests, seen : Statuses]
  BY HandlerShape DEF CheckRequest, Store, Shapes
<1>2. PICK r \in Requests : r = handler[p].request
  BY <1>1
<1>3. status # "NONE" /\ UNCHANGED <<status, creator, executed, sides, verdict>>
  BY DEF CheckRequest, Store, AcceptInv, Idle
<1>4. \A c \in creator : c.target = Target
  BY <1>3 DEF SuppliedInv, Target
<1>5. CASE CheckRequest(p)
  <2>1. /\ fingerprint' = Keep(r)
        /\ \/ UNCHANGED accepted
           \/ accepted' = accepted \union {r} /\ Keep(r) = r.suite /\ Target = r.target
    BY <1>2, <1>5 DEF CheckRequest, Accept, answers
  <2>2. Promise!Receive(r)
    BY <1>3, <1>4, <2>1 DEF Promise!Receive, Keep
  <2> QED
    BY <2>2
<1>6. CASE Store(p)
  <2>1. /\ fingerprint' = fingerprint /\ fingerprint # NoSuite /\ Agrees(r)
        /\ accepted' = accepted \/ accepted' = accepted \union {r}
    BY <1>2, <1>6 DEF Store, Accept, AcceptInv
  <2>2. Promise!Receive(r)
    BY <1>3, <1>4, <2>1 DEF Promise!Receive, Agrees
  <2> QED
    BY <2>2
<1> QED
  BY <1>5, <1>6

\* The two sides are run as promised.
LEMMA PromiseSides ==
  ASSUME ServedInv, NEW p \in Procs, NEW s \in Sides, BeginSide(p, s) \/ EndSide(p, s)
  PROVE  Promise!StartSide(s) \/ Promise!EndSide(s)
<1> USE DEF ServedInv
<1>1. Busy(p, s) /\ UNCHANGED <<status, creator, fingerprint, accepted, verdict>>
  BY DEF BeginSide, EndSide, Busy, answers
<1>2. Promise!MayRun
  <2>1. status \notin {"NONE", "PENDING"}
    BY <1>1 DEF HolderInv, OneHolder, Taken, Busy
  <2>2. status \notin {"COMPARING", "COMPLETED"}
    BY <1>1 DEF HolderInv, SidesWritten
  <2> QED
    BY <2>1, <2>2 DEF Promise!MayRun
<1>3. CASE BeginSide(p, s)
  <2>1. /\ work[p][s] = "begin" /\ executed' = executed \union files[p]
        /\ sides' = [sides EXCEPT ![s] = IF @ = Untouched THEN Running ELSE @]
    BY <1>3 DEF BeginSide
  <2>2. sides[s] = Untouched
    BY <2>1 DEF OnceInv, Pre, SideInv
  <2>3. fingerprint # NoSuite /\ files[p] = {fingerprint}
    BY <2>1 DEF SuppliedInv, Supplied
  <2>4. executed' = {fingerprint}
    BY <2>1, <2>3 DEF AcceptInv
  <2>5. sides' = [sides EXCEPT ![s] = Running]
    BY <2>1, <2>2 DEF SideInv
  <2> QED
    BY <1>1, <1>2, <2>2, <2>3, <2>4, <2>5 DEF Promise!StartSide
<1>4. CASE EndSide(p, s)
  <2>1. work[p][s] = "running" /\ (\E o \in Results : sides' = [sides EXCEPT ![s] = o]) /\ executed' = executed
    BY <1>4 DEF EndSide, made
  <2>2. sides[s] = Running
    BY <2>1 DEF SideInv
  <2> QED
    BY <1>1, <1>2, <2>1, <2>2, SameNames DEF Promise!EndSide
<1> QED
  BY <1>3, <1>4

\* execute() goes through its phases as promised.
LEMMA PromisePhases ==
  ASSUME ServedInv, NEW p \in Procs,
         \/ Begin(p) \/ Load(p) \/ StartSides(p) \/ Compare(p) \/ Classify(p) \/ Conclude(p)
  PROVE  Promise!Advance \/ Promise!Compare \/ Promise!Judge \/ Promise!Conclude \/ Unnoticed
<1> USE DEF ServedInv, answers, made, db
<1>1. CASE Begin(p)
  <2>1. CASE MayBegin
    <3>1. task[p] = "queued" /\ status = "PENDING" /\ status' = "PREPARING"
      BY <1>1, <2>1 DEF Begin, Runs, MayBegin
    <3>2. accepted # {}
      BY <3>1 DEF SuppliedInv
    <3> QED
      BY <1>1, <3>1, <3>2 DEF Begin, Promise!Advance
  <2>2. CASE ~MayBegin
    BY <1>1, <2>2 DEF Begin, Unnoticed
  <2> QED
    BY <2>1, <2>2
<1>2. CASE Load(p)
  BY <1>2 DEF Load, Unnoticed
<1>3. CASE StartSides(p)
  <2>1. status = "PREPARING"
    BY <1>3 DEF StartSides, Runs, PhaseInv
  <2> QED
    BY <1>3, <2>1 DEF StartSides, Promise!Advance
<1>4. CASE Compare(p)
  <2>1. status = "RUNNING" /\ \A s \in Sides : sides[s] \in Results
    BY <1>4 DEF Compare, Runs, PhaseInv, BothDone, HolderInv, SidesWritten
  <2> QED
    BY <1>4, <2>1, SameNames DEF Compare, Promise!Compare
<1>5. CASE Classify(p)
  <2>1. status = "COMPARING" /\ verdict = "none"
    BY <1>5 DEF Classify, PhaseInv, Comparing
  <2>2. sides["BASE"] \in Results /\ sides["CANDIDATE"] \in Results
    BY <2>1 DEF HolderInv, SidesWritten, Sides
  <2>3. verdict' = Verdict(sides["BASE"], sides["CANDIDATE"])
    BY <1>5 DEF Classify
  <2>4. UNCHANGED <<status, creator, fingerprint, accepted, executed, sides>>
    BY <1>5 DEF Classify
  <2> QED
    BY <2>1, <2>2, <2>3, <2>4, VerdictIsPromised DEF Promise!Judge
<1>6. CASE Conclude(p)
  <2>1. status = "COMPARING" /\ verdict # "none"
    BY <1>6 DEF Conclude, PhaseInv, Comparing
  <2> QED
    BY <1>6, <2>1 DEF Conclude, Promise!Conclude
<1> QED
  BY <1>1, <1>2, <1>3, <1>4, <1>5, <1>6

\* Every other step of execute(), of a startup or of a shutdown fails the run,
\* or is not noticed.
LEMMA PromiseFails ==
  ASSUME ServedInv, NEW p \in Procs,
         \/ Evidence(p) \/ SideRaises(p) \/ RecordError(p) \/ ReadInterrupted(p) \/ Abort(p)
         \/ Start(p) \/ MarkLeftOver(p) \/ Exit(p) \/ Fault(p) \/ Crash(p) \/ Shutdown(p)
  PROVE  Promise!Fail \/ Unnoticed
<1> USE DEF ServedInv, answers, made, db
<1>1. CASE RecordError(p) \/ Abort(p) \/ MarkLeftOver(p)
  <2>1. status' = "FAILED" /\ UNCHANGED <<creator, fingerprint, accepted, executed, sides, verdict>>
    BY <1>1 DEF RecordError, Abort, MarkLeftOver
  <2>2. status \in Working \union {"COMPLETED", "FAILED"}
    <3>1. CASE up[p] = "marking"
      BY <3>1 DEF CancelInv
    <3>2. CASE task[p] \in {"error", "abort"}
      <4>1. status \notin {"NONE", "PENDING"}
        BY <3>2 DEF HolderInv, OneHolder, Taken
      <4>2. status # "CANCELLED"
        BY <3>2 DEF CancelInv
      <4> QED
        BY <4>1, <4>2 DEF Shapes, Statuses, Terminal
    <3> QED
      BY <1>1, <3>1, <3>2 DEF RecordError, Abort, MarkLeftOver
  <2> QED
    BY <2>1, <2>2, FailsOrFailed
<1>2. CASE \/ Evidence(p) \/ SideRaises(p) \/ ReadInterrupted(p) \/ Start(p) \/ Exit(p)
           \/ Fault(p) \/ Crash(p) \/ Shutdown(p)
  BY <1>2 DEF Evidence, SideRaises, ReadInterrupted, Start, Exit, Fault, Crash, Shutdown, Unnoticed
<1> QED
  BY <1>1, <1>2

LEMMA PromiseStep == ServedInv /\ [Next]_vars => [Promise!Next]_(Promise!vars)
<1> SUFFICES ASSUME ServedInv, [Next]_vars PROVE Promise!Next \/ Unnoticed
  BY DEF Unnoticed, Promise!vars
<1>1. ASSUME NEW p \in Procs, NEW r \in Requests, Post(p, r) PROVE Promise!Ask(r) \/ Unnoticed
  BY <1>1 DEF Post, Insert, Promise!Ask, Unnoticed, answers, made
<1>2. ASSUME NEW p \in Procs, Cancel(p) PROVE Promise!Cancel
  BY <1>2, SameNames DEF Cancel, Promise!Cancel, answers, made
<1>3. ASSUME UNCHANGED vars PROVE Unnoticed
  BY <1>3 DEF vars, db, answers, made, Unnoticed
<1>4. ASSUME NEW p \in Procs, Serve(p) PROVE (\E r \in Requests : Promise!Receive(r)) \/ Unnoticed
  BY <1>4, PromiseServe DEF Serve
<1>5. ASSUME NEW p \in Procs, Work(p)
      PROVE  \/ \E s \in Sides : Promise!StartSide(s) \/ Promise!EndSide(s)
             \/ Promise!Advance \/ Promise!Compare \/ Promise!Judge \/ Promise!Conclude
             \/ Promise!Fail \/ Unnoticed
  BY <1>5, PromiseSides, PromisePhases, PromiseFails DEF Work
<1>6. ASSUME NEW p \in Procs, Disturb(p) PROVE Promise!Cancel \/ Promise!Fail \/ Unnoticed
  BY <1>2, <1>6, PromiseFails DEF Disturb
<1> QED
  BY <1>1, <1>3, <1>4, <1>5, <1>6, SameNames DEF Next, Promise!Next

\* Where one process serves a run, whatever is posted again, cancelled, stopped,
\* started again or fails, the run is as ValidationTask promises it: the tests
\* of those who were told of it, each side once, one verdict, which is clean if
\* and only if both sides ended and the candidate is no worse than base, and one
\* end.  With two processes the status is not (CancelOverwritten).
THEOREM PromiseKept ==
  ASSUME OneProcess
  PROVE  Spec => ImplementsPromise
<1>1. ServedInv /\ [Next]_vars => ServedInv'
  BY ServedStep
<1> QED
  BY <1>1, ServedInit, PromiseInit, PromiseStep, PTL DEF Spec, ImplementsPromise, Promise!Spec

-----------------------------------------------------------------------------
(* RegressionDiagnosis: what diagnose answers, links and submits is one     *)
(* diagnosis with its evidence.                                             *)

USE LinkAssumption

\* A request goes through its transactions in the order of diagnose.
InOrder ==
  \A r \in Request :
    /\ at[r] \in {"evidence", "link", "submit"} => r \in created
    /\ at[r] \in {"link", "submit"} => r \in evidence
    /\ at[r] = "submit" => link = r
    /\ at[r] \in {"lost", "answered"} => link # NoDiagnosis

LinkInv == R!TypeOK /\ InOrder /\ R!OneDiagnosisAnswered

LEMMA InitLink == R!Init => LinkInv
  BY DEF R!Init, LinkInv, R!TypeOK, R!Places, InOrder, R!OneDiagnosisAnswered

\* set_diagnosis is the one statement that writes the link, and only where it
\* is NULL: what was answered or submitted before stays what is linked.
LEMMA LinkWrittenOnce ==
  ASSUME LinkInv, NEW r \in Request, R!SetDiagnosis(r) PROVE LinkInv'
<1> USE DEF LinkInv, R!TypeOK, R!Places, InOrder, R!OneDiagnosisAnswered,
            R!SetDiagnosis, R!Goto, R!runs
<1>1. CASE link = NoDiagnosis
  <2>1. link' = r /\ at' = [at EXCEPT ![r] = "submit"]
    BY <1>1 DEF R!MayLink
  <2>2. submitted = {}
    BY <1>1
  <2>3. \A q \in Request : at[q] \notin {"submit", "lost", "answered"}
    BY <1>1
  <2> QED
    BY <2>1, <2>2, <2>3
<1>2. CASE link # NoDiagnosis
  BY <1>2 DEF R!MayLink
<1> QED
  BY <1>1, <1>2

LEMMA StepLink == ASSUME LinkInv, [R!Next]_(R!vars) PROVE LinkInv'
<1> USE DEF LinkInv, R!TypeOK, R!Places, InOrder, R!OneDiagnosisAnswered
<1>1. ASSUME NEW r \in Request, R!ReadRun(r) PROVE LinkInv'
  <2>1. CASE link # NoDiagnosis
    BY <1>1, <2>1 DEF R!ReadRun, R!Tell, R!Goto, R!rows, R!runs
  <2>2. CASE link = NoDiagnosis
    BY <1>1, <2>2 DEF R!ReadRun, R!Goto, R!rows, R!runs
  <2> QED
    BY <2>1, <2>2
<1>2. ASSUME NEW r \in Request, R!CreateDiagnosis(r) PROVE LinkInv'
  BY <1>2 DEF R!CreateDiagnosis, R!Goto, R!runs
<1>3. ASSUME NEW r \in Request, R!WriteEvidence(r) PROVE LinkInv'
  BY <1>3 DEF R!WriteEvidence, R!Goto, R!runs
<1>4. ASSUME NEW r \in Request, R!SetDiagnosis(r) PROVE LinkInv'
  BY <1>4, LinkWrittenOnce
<1>5. ASSUME NEW r \in Request, R!ReadLinked(r) PROVE LinkInv'
  BY <1>5 DEF R!ReadLinked, R!Tell, R!Goto, R!rows, R!runs
<1>6. ASSUME NEW r \in Request, R!Submit(r) PROVE LinkInv'
  BY <1>6 DEF R!Submit, R!Tell, R!Goto, R!rows
<1>7. ASSUME NEW r \in Request, R!Crash(r) PROVE LinkInv'
  BY <1>7 DEF R!Crash, R!Goto, R!rows, R!runs
<1>8. ASSUME NEW r \in Request, R!Recover(r) PROVE LinkInv'
  BY <1>8 DEF R!Recover, R!rows
<1>9. ASSUME UNCHANGED R!vars PROVE LinkInv'
  BY <1>9 DEF R!vars
<1> QED
  BY <1>1, <1>2, <1>3, <1>4, <1>5, <1>6, <1>7, <1>8, <1>9 DEF R!Next, R!Diagnose

-----------------------------------------------------------------------------
(* The parts of AllSpec.                                                    *)

LEMMA PartStep ==
  [AllNext]_all => [Next]_vars /\ [R!Next]_(R!vars) /\ [O!Next]_(O!vars)
BY DEF AllNext, all, vars, diagnosis, saga, R!vars, O!vars, O!inventory

\* Whichever requests to explain a regression run at the same time, repeat
\* each other or stop half-way, all that are answered hear of the one linked
\* diagnosis; it has the regression as evidence, and no other is submitted
\* (ValidationService.diagnose).
THEOREM OneAnswer == AllSpec => []OneDiagnosisAnswered
<1>1. AllInit => LinkInv
  BY InitLink DEF AllInit
<1>2. LinkInv /\ [AllNext]_all => LinkInv'
  BY StepLink, PartStep
<1>3. LinkInv => OneDiagnosisAnswered
  BY DEF LinkInv, OneDiagnosisAnswered
<1> QED
  BY <1>1, <1>2, <1>3, PTL DEF AllSpec

\* OrderSaga is the same specification in both instances.
LEMMA SameSaga ==
  /\ O!Init => OP!Init
  /\ [O!Next]_(O!vars) => [OP!Next]_(OP!vars)
  /\ OP!StatusIsTrue => O!StatusIsTrue
  /\ OP!TypeOK /\ OP!StockAccounted => O!TypeOK /\ O!StockAccounted
  /\ OP!OrderAssumption /\ OP!WantAssumption /\ OP!StockAssumption /\ OP!LimitAssumption
<1>1. O!Init => OP!Init
  BY DEF O!Init, OP!Init, O!Idle, OP!Idle
<1>2. [O!Next]_(O!vars) => [OP!Next]_(OP!vars)
  <2>0. \A c : O!TimesOut(c) <=> OP!TimesOut(c)
    BY DEF O!TimesOut, OP!TimesOut, O!Cardinality, OP!Cardinality
  <2>a. \A w, t : O!Goto(w, t) <=> OP!Goto(w, t)
    BY DEF O!Goto, OP!Goto
  <2>b. \A o, s : /\ O!Reserve(o, s) <=> OP!Reserve(o, s)
                  /\ O!ReserveAccepts(o, s) <=> OP!ReserveAccepts(o, s)
    BY DEF O!Reserve, OP!Reserve, O!ReserveAccepts, OP!ReserveAccepts, O!inventory, OP!inventory
  <2>c. \A o, s, t : /\ O!Finish(o, s, t) <=> OP!Finish(o, s, t)
                     /\ O!FinishAccepts(o, s, t) <=> OP!FinishAccepts(o, s, t)
    BY DEF O!Finish, OP!Finish, O!FinishAccepts, OP!FinishAccepts, O!inventory, OP!inventory
  <2>1. \A w \in Worker : O!ReserveItem(w) => OP!ReserveItem(w)
    BY <2>0, <2>a, <2>b, ZenonT(60) DEF O!ReserveItem, OP!ReserveItem, O!At, OP!At, O!ReserveFails,
       OP!ReserveFails, O!SkuCall, OP!SkuCall, O!inventory, OP!inventory
  <2>2. \A w \in Worker : O!ReleaseItem(w) => OP!ReleaseItem(w)
    BY <2>0, <2>a, <2>c, ZenonT(60) DEF O!ReleaseItem, OP!ReleaseItem, O!At, OP!At, O!SkuCall, OP!SkuCall,
       O!inventory, OP!inventory
  <2>3. \A w \in Worker : O!Compensated(w) => OP!Compensated(w)
    BY DEF O!Compensated, OP!Compensated, O!At, OP!At, O!Ends, OP!Ends, O!inventory,
       OP!inventory, O!Goto, OP!Goto, O!Idle, OP!Idle
  <2>4. \A w \in Worker : O!Reserved(w) => OP!Reserved(w)
    BY DEF O!Reserved, OP!Reserved, O!At, OP!At, O!Goto, OP!Goto, O!inventory, OP!inventory
  <2>5. \A w \in Worker : O!Load(w) => OP!Load(w)
    BY DEF O!Load, OP!Load, O!At, OP!At, O!MayPay, OP!MayPay, O!Goto, OP!Goto, O!Ends, OP!Ends,
       O!inventory, OP!inventory, O!Idle, OP!Idle
  <2>6. \A w \in Worker : O!Pay(w) => OP!Pay(w)
    BY <2>0 DEF O!Pay, OP!Pay, O!At, OP!At, O!Save, OP!Save, O!Goto, OP!Goto, O!PayCall,
       OP!PayCall,       O!Ends, OP!Ends, O!inventory, OP!inventory, O!Idle, OP!Idle
  <2>7. \A w \in Worker : O!Confirm(w) => OP!Confirm(w)
    BY <2>0 DEF O!Confirm, OP!Confirm, O!At, OP!At, O!Goto, OP!Goto, O!ToCommit, OP!ToCommit,
       O!Ends,       OP!Ends, O!PayCall, OP!PayCall, O!inventory, OP!inventory, O!Items,
       OP!Items, O!Idle,       OP!Idle
  <2>8. \A w \in Worker : O!Capture(w) => OP!Capture(w)
    BY <2>0 DEF O!Capture, OP!Capture, O!At, OP!At, O!Update, OP!Update, O!Goto, OP!Goto,
       O!ToCommit,       OP!ToCommit, O!Ends, OP!Ends, O!PayCall, OP!PayCall, O!inventory,
       OP!inventory, O!Items,       OP!Items, O!Idle, OP!Idle
  <2>9. \A w \in Worker : O!CommitItem(w) => OP!CommitItem(w)
    BY <2>0 DEF O!CommitItem, OP!CommitItem, O!At, OP!At, O!Finish, OP!Finish, O!FinishAccepts,
       OP!FinishAccepts, O!Goto, OP!Goto, O!Ends, OP!Ends, O!SkuCall, OP!SkuCall,
       O!CommitTimesOut, OP!CommitTimesOut, O!inventory, OP!inventory, O!Idle, OP!Idle
  <2>10. \A w \in Worker : O!Paid(w) => OP!Paid(w)
    BY DEF O!Paid, OP!Paid, O!At, OP!At, O!Ends, OP!Ends, O!inventory, OP!inventory, O!Goto,
       OP!Goto, O!Idle, OP!Idle
  <2>11. \A w \in Worker : O!Stop(w) => OP!Stop(w)
    BY DEF O!Stop, OP!Stop, O!At, OP!At, O!Ends, OP!Ends, O!inventory, OP!inventory, O!Goto,
       OP!Goto, O!Idle, OP!Idle
  <2>12. \A w \in Worker, o \in Order : O!PostOrder(w, o) => OP!PostOrder(w, o)
    BY DEF O!PostOrder, OP!PostOrder, O!At, OP!At, O!Items, OP!Items, O!Goto, OP!Goto,
       O!inventory, OP!inventory
  <2>13. \A w \in Worker, o \in Order : O!PostReconcile(w, o) => OP!PostReconcile(w, o)
    BY DEF O!PostReconcile, OP!PostReconcile, O!At, OP!At, O!Goto, OP!Goto, O!inventory,
       OP!inventory
  <2>14. \A o \in Order : O!Cancel(o) => OP!Cancel(o)
    BY DEF O!Cancel, OP!Cancel, O!inventory, OP!inventory
  <2>15. \A o \in Order : O!RefundRequested(o) => OP!RefundRequested(o)
    BY DEF O!Cardinality, OP!Cardinality, O!RefundRequested, OP!RefundRequested, O!inventory,
       OP!inventory
  <2>16. \A c \in late : O!ServeLate(c) => OP!ServeLate(c)
    BY DEF O!ServeLate, OP!ServeLate, O!Reserve, OP!Reserve, O!Finish, OP!Finish, O!Save,
       OP!Save, O!inventory, OP!inventory, O!Update, OP!Update, O!PayCall, OP!PayCall
  <2> QED
    BY <2>1, <2>2, <2>3, <2>4, <2>5, <2>6, <2>7, <2>8, <2>9, <2>10, <2>11, <2>12, <2>13, <2>14, <2>15, <2>16
       DEF O!Next, OP!Next, O!Handle, OP!Handle, O!vars, OP!vars, O!inventory, OP!inventory
<1>3. OP!StatusIsTrue => O!StatusIsTrue
  BY DEF O!StatusIsTrue, OP!StatusIsTrue, O!FailedHoldsNothing, OP!FailedHoldsNothing,
          O!PaymentHasStock, OP!PaymentHasStock, O!PaidIsSettled, OP!PaidIsSettled, O!Items,
          OP!Items
<1>4. OP!OrderAssumption /\ OP!WantAssumption /\ OP!StockAssumption /\ OP!LimitAssumption
  BY SagaAssumption
  DEF O!OrderAssumption, OP!OrderAssumption, O!IsFiniteSet, OP!IsFiniteSet,
      O!WantAssumption, OP!WantAssumption, O!StockAssumption, OP!StockAssumption,
      O!LimitAssumption, OP!LimitAssumption
<1>5. OP!StockAccounted => O!StockAccounted
  BY DEF O!StockAccounted, OP!StockAccounted, O!Held, OP!Held, O!MapThenSumSet,
         OP!MapThenSumSet, O!MapThenFoldSet, OP!MapThenFoldSet
<1>6. OP!TypeOK => O!TypeOK
  BY DEF O!TypeOK, OP!TypeOK, O!Tasks, OP!Tasks, O!Calls, OP!Calls, O!Idle, OP!Idle
<1> QED
  BY <1>1, <1>2, <1>3, <1>4, <1>5, <1>6

LEMMA SagaKept ==
  /\ AllInit => OP!SagaInv
  /\ OP!SagaInv /\ [AllNext]_all => OP!SagaInv'
<1>1. OP!LimitAssumption
  BY SameSaga
<1>2. AllInit => OP!SagaInv
  BY SameSaga, OP!SagaInit DEF AllInit
<1>3. OP!SagaInv /\ [AllNext]_all => OP!SagaInv'
  BY <1>1, SameSaga, PartStep, OP!SagaStep
<1> QED
  BY <1>2, <1>3

\* In every reachable state an order's status says the truth about its stock
\* and its payment, for any number of orders, SKUs, request threads, payment
\* attempts and delayed calls (OrderService.create, reconcile and the servers
\* it calls).
THEOREM StatusKept == AllSpec => []StatusIsTrue
<1>1. AllInit => OP!SagaInv
  BY SagaKept
<1>2. OP!SagaInv /\ [AllNext]_all => OP!SagaInv'
  BY SagaKept
<1>3. OP!SagaInv => StatusIsTrue
  BY OP!SagaMeans, SameSaga DEF StatusIsTrue
<1> QED
  BY <1>1, <1>2, <1>3, PTL DEF AllSpec

\* No unit of stock is lost or counted twice by retries, late calls and
\* compensation, and no stock becomes negative: what is available, what
\* reservations hold and what was sold add up to the stock at the start, for
\* any finite set of orders (MemoryRepository.reserve and finish).
THEOREM StockKept == AllSpec => []StockAccounted
<1>1. AllInit => OP!SagaInv /\ OP!StockInv
  BY SagaKept, SameSaga, OP!StockInit DEF AllInit
<1>2. OP!SagaInv /\ OP!StockInv /\ [AllNext]_all => OP!SagaInv' /\ OP!StockInv'
  BY SagaKept, PartStep, SameSaga, OP!StockStep
<1>3. OP!SagaInv /\ OP!StockInv => StockAccounted
  BY OP!StockMeans, SameSaga DEF StockAccounted, OP!SagaInv
<1> QED
  BY <1>1, <1>2, <1>3, PTL DEF AllSpec

\* A refund is never undone, whatever handler read the row before it
\* (PaymentService: UPDATE ... WHERE status IN ('AUTHORIZED','CAPTURED')).
THEOREM RefundKept == AllSpec => RefundIsFinal
<1>1. AllInit => OP!SagaInv
  BY SagaKept
<1>2. OP!SagaInv /\ [AllNext]_all => OP!SagaInv'
  BY SagaKept
<1>3. OP!SagaInv /\ [AllNext]_all =>
        [\A o \in Order : payment[o] = "REFUNDED" => payment'[o] = "REFUNDED"]_(O!vars)
  BY PartStep, SameSaga, OP!RefundStep
<1> QED
  BY <1>1, <1>2, <1>3, PTL DEF AllSpec, RefundIsFinal, O!RefundIsFinal
=============================================================================
