--------------------------- MODULE OrderSagaProofs ---------------------------
(***************************************************************************)
(* Proofs about OrderSaga for any orders, stock, request threads and any   *)
(* number of delayed calls: what an order's status says is so, a refund is *)
(* final, and, for a finite set of orders, no unit of stock is lost.       *)
(***************************************************************************)
EXTENDS OrderSaga, SumTheorems, FiniteSetTheorems, TLAPS

Opening == {"reserve", "release"}
Settling == {"pay", "confirm", "capture", "commit"}
Paying == {"PAYMENT_PENDING", "PAID"}

\* The places and the calls of the tasks and servers that are busy with o.
Busy(w, o, places) == task[w].at \in places /\ task[w].order = o
Delayed(o, ops) == {c \in late : c.op \in ops /\ c.order = o}

\* Nothing of s is held for o, and no delayed call will hold it.
Clean(o, s) ==
  /\ hold[o][s] \in {"NONE", "RELEASED"}
  /\ hold[o][s] = "NONE" => \A c \in Delayed(o, {"reserve"}) : c.sku # s

\* Before the row exists nothing knows its identifier.
Unknown(o) ==
  status[o] = "NONE" =>
    /\ payment[o] = "NONE" /\ \A s \in Sku : hold[o][s] = "NONE"
    /\ \A c \in late : c.order # o
    /\ \A w \in Worker : task[w].at # "idle" => task[w].order # o

\* One thread opens an order, and nothing is paid until it has.
OpenedOnce(o) ==
  \A w \in Worker : Busy(w, o, Opening) =>
    /\ status[o] \in {"CREATED", "CANCELLED"}
    /\ \A v \in Worker : Busy(v, o, Opening) => v = w

\* It holds what it has reserved and nothing else, while no call of it failed.
Reserving(o) ==
  \A w \in Worker : Busy(w, o, {"reserve"}) =>
    /\ Delayed(o, Opening) = {}
    /\ task[w].held \cup task[w].left = Items(o)
    /\ \A s \in task[w].held : hold[o][s] \in {"RESERVED", "COMMITTED"}
    /\ \A s \in Sku \ task[w].held : hold[o][s] = "NONE"

\* What it gives back stays given back, as long as every release was answered.
Releasing(o) ==
  \A w \in Worker : Busy(w, o, {"release"}) /\ task[w].released =>
    \A s \in Sku \ task[w].left : Clean(o, s)
FailedIsClean(o) == status[o] = "FAILED" => \A s \in Sku : Clean(o, s)

\* Whatever has to do with money is of an order in payment, which keeps its stock.
InPayment(o) ==
  /\ payment[o] # "NONE" \/ Delayed(o, Settling \cup {"refund"}) # {}
       \/ (\E w \in Worker : Busy(w, o, Settling))
     => status[o] \in Paying
  /\ status[o] \in Paying =>
       /\ Delayed(o, Opening) = {}
       /\ \A s \in Items(o) : hold[o][s] \in {"RESERVED", "COMMITTED"}

\* The commits follow the capture, and PAID follows all of them.
Captured(o) == payment[o] \in {"CAPTURED", "REFUNDED"}
Committing(o) ==
  \A w \in Worker : Busy(w, o, {"commit"}) =>
    Captured(o) /\ \A s \in Items(o) \ task[w].left : hold[o][s] = "COMMITTED"
Settled(o) ==
  status[o] = "PAID" => Captured(o) /\ \A s \in Items(o) : hold[o][s] = "COMMITTED"

OrderInv(o) ==
  /\ Unknown(o) /\ OpenedOnce(o) /\ Reserving(o) /\ Releasing(o) /\ FailedIsClean(o)
  /\ InPayment(o) /\ Committing(o) /\ Settled(o)

\* The types, but for the stock.
Shapes ==
  /\ status \in [Order -> {"NONE", "CREATED", "FAILED", "REVIEW_REQUIRED",
                           "PAYMENT_PENDING", "PAID", "CANCELLED"}]
  /\ hold \in [Order -> [Sku -> {"NONE", "RESERVED", "RELEASED", "COMMITTED"}]]
  /\ payment \in [Order -> {"NONE", "AUTHORIZED", "CAPTURED", "REFUNDED"}]
  /\ task \in [Worker -> Tasks] /\ late \subseteq Calls

SagaInv == Shapes /\ \A o \in Order : OrderInv(o)

-----------------------------------------------------------------------------
\* What a task and a call consist of.
LEMMA TaskShape ==
  ASSUME Shapes, NEW w \in Worker
  PROVE  /\ task[w].at \in {"idle"} \cup Opening \cup Settling \cup {"load"}
         /\ task[w].at # "idle" => task[w].order \in Order
         /\ task[w].at = "reserve" =>
              task[w] = [at |-> "reserve", order |-> task[w].order,
                         left |-> task[w].left, held |-> task[w].held]
         /\ task[w].at = "reserve" => task[w].left \subseteq Sku /\ task[w].held \subseteq Sku
         /\ task[w].at = "release" =>
              task[w] = [at |-> "release", order |-> task[w].order,
                         left |-> task[w].left, released |-> task[w].released]
         /\ task[w].at = "release" => task[w].left \subseteq Sku /\ task[w].released \in BOOLEAN
         /\ task[w].at = "pay" =>
              task[w] = [at |-> "pay", order |-> task[w].order, attempts |-> task[w].attempts]
         /\ task[w].at = "pay" => task[w].attempts \in 1..PayAttempts
         /\ task[w].at = "commit" =>
              task[w] = [at |-> "commit", order |-> task[w].order, left |-> task[w].left]
         /\ task[w].at = "commit" => task[w].left \subseteq Sku
<1>1. task[w] \in Tasks
  BY DEF Shapes
<1> QED
  BY <1>1 DEF Tasks, Idle, Opening, Settling

LEMMA CallShape ==
  ASSUME Shapes, NEW c \in late
  PROVE  /\ c.order \in Order /\ c.op \in Opening \cup Settling \cup {"refund"}
         /\ c.op \in {"reserve", "release", "commit"} => c.sku \in Sku
  BY DEF Shapes, Calls, Opening, Settling

\* An order of which nothing new is done or called stays as it was.
LEMMA Unmoved ==
  ASSUME NEW p \in Order, OrderInv(p), Unknown(p)',
         status'[p] = status[p], hold'[p] = hold[p], payment'[p] = payment[p],
         \A w \in Worker : task'[w] = task[w] \/ task'[w].at \in {"idle", "load"}
                             \/ task'[w].order # p,
         \A c \in late' : c.order = p => c \in late
  PROVE  OrderInv(p)'
<1>1. \A w \in Worker, places \in {Opening, Settling, {"reserve"}, {"release"}, {"commit"}} :
        Busy(w, p, places)' => Busy(w, p, places) /\ task'[w] = task[w]
  BY DEF Busy, Opening, Settling
<1>2. \A ops : Delayed(p, ops)' \subseteq Delayed(p, ops)
  BY DEF Delayed
<1>3. \A s : Clean(p, s) => Clean(p, s)'
  BY <1>2 DEF Clean
<1>4. OpenedOnce(p)' /\ Reserving(p)'
  BY <1>1, <1>2 DEF OrderInv, OpenedOnce, Reserving
<1>5. Releasing(p)' /\ FailedIsClean(p)'
  BY <1>1, <1>3 DEF OrderInv, Releasing, FailedIsClean
<1>6. InPayment(p)'
  BY <1>1, <1>2 DEF OrderInv, InPayment
<1>7. Committing(p)' /\ Settled(p)'
  BY <1>1 DEF OrderInv, Committing, Settled, Captured
<1> QED
  BY <1>4, <1>5, <1>6, <1>7 DEF OrderInv

\* A step that is about the order o alone.
About(o) ==
  /\ \A p \in Order \ {o} : /\ status'[p] = status[p] /\ hold'[p] = hold[p]
                            /\ payment'[p] = payment[p]
  /\ \A w \in Worker : task'[w] = task[w] \/ task'[w].at = "idle" \/ task'[w].order = o
  /\ \A c \in late' : c.order = o \/ c \in late

LEMMA OneOrder ==
  ASSUME SagaInv, Shapes', NEW o \in Order, About(o), OrderInv(o)' PROVE SagaInv'
<1>1. ASSUME NEW p \in Order \ {o} PROVE OrderInv(p)'
  <2>1. OrderInv(p)
    BY DEF SagaInv
  <2>2. Unknown(p)'
    BY <2>1, TaskShape DEF OrderInv, Unknown, About, SagaInv
  <2> QED
    BY <2>1, <2>2, Unmoved DEF About
<1> QED
  BY <1>1 DEF SagaInv

-----------------------------------------------------------------------------
(* The types.                                                               *)
Holds == [Order -> [Sku -> {"NONE", "RESERVED", "RELEASED", "COMMITTED"}]]
Payments == [Order -> {"NONE", "AUTHORIZED", "CAPTURED", "REFUNDED"}]

\* What inventory and payment do to the one row they are called for.
LEMMA ReserveEffect ==
  ASSUME Shapes, NEW o \in Order, NEW s \in Sku, Reserve(o, s)
  PROVE  /\ hold' \in Holds
         /\ \A p \in Order, t \in Sku : p # o \/ t # s => hold'[p][t] = hold[p][t]
         /\ hold'[o][s] = hold[o][s] \/ (hold[o][s] = "NONE" /\ hold'[o][s] = "RESERVED")
         /\ ReserveAccepts(o, s) => hold'[o][s] \in {"RESERVED", "COMMITTED"}
<1>1. hold \in Holds
  BY DEF Shapes, Holds
<1>2. CASE hold[o][s] = "NONE" /\ available[s] >= Want[o][s]
  <2>1. hold' = [hold EXCEPT ![o][s] = "RESERVED"]
    BY <1>2 DEF Reserve
  <2> QED
    BY <1>1, <1>2, <2>1 DEF Holds
<1>3. CASE ~(hold[o][s] = "NONE" /\ available[s] >= Want[o][s])
  <2>1. hold' = hold
    BY <1>3 DEF Reserve, inventory
  <2> QED
    BY <1>1, <1>3, <2>1 DEF ReserveAccepts
<1> QED
  BY <1>2, <1>3

LEMMA FinishEffect ==
  ASSUME Shapes, NEW o \in Order, NEW s \in Sku, NEW target \in {"RELEASED", "COMMITTED"},
         Finish(o, s, target)
  PROVE  /\ hold' \in Holds
         /\ \A p \in Order, t \in Sku : p # o \/ t # s => hold'[p][t] = hold[p][t]
         /\ hold'[o][s] = IF hold[o][s] = "RESERVED" THEN target ELSE hold[o][s]
         /\ FinishAccepts(o, s, target) => hold'[o][s] = target
<1>1. hold \in Holds
  BY DEF Shapes, Holds
<1>2. CASE hold[o][s] = "RESERVED"
  <2>1. hold' = [hold EXCEPT ![o][s] = target]
    BY <1>2 DEF Finish
  <2> QED
    BY <1>1, <1>2, <2>1 DEF Holds
<1>3. CASE hold[o][s] # "RESERVED"
  <2>1. hold' = hold
    BY <1>3 DEF Finish, inventory
  <2> QED
    BY <1>1, <1>3, <2>1 DEF FinishAccepts
<1> QED
  BY <1>2, <1>3

LEMMA PaymentEffect ==
  ASSUME Shapes, NEW o \in Order, NEW new \in {"CAPTURED", "REFUNDED"}
  PROVE  /\ Save(o) => /\ payment' \in Payments /\ payment'[o] # "NONE"
                       /\ payment[o] # "NONE" => payment'[o] = payment[o]
                       /\ \A p \in Order \ {o} : payment'[p] = payment[p]
         /\ Update(o, new) => /\ payment' \in Payments
                              /\ \A p \in Order \ {o} : payment'[p] = payment[p]
                              /\ payment'[o] = IF payment[o] \in {"AUTHORIZED", "CAPTURED"}
                                               THEN new ELSE payment[o]
  BY DEF Shapes, Payments, Save, Update

LEMMA ShapesMeans == Shapes <=>
    /\ status \in [Order -> {"NONE", "CREATED", "FAILED", "REVIEW_REQUIRED",
                             "PAYMENT_PENDING", "PAID", "CANCELLED"}]
    /\ hold \in Holds /\ payment \in Payments /\ task \in [Worker -> Tasks] /\ late \subseteq Calls
  BY DEF Shapes, Holds, Payments

\* A thread goes on; every task it may go on with is a task.
LEMMA TaskTyped ==
  ASSUME Shapes, NEW w \in Worker, NEW t \in Tasks, Goto(w, t)
  PROVE  /\ task' \in [Worker -> Tasks] /\ task'[w] = t
         /\ \A v \in Worker \ {w} : task'[v] = task[v]
  BY DEF Shapes, Goto

LEMMA NewTasks ==
  ASSUME LimitAssumption, NEW o \in Order
  PROVE  /\ Idle \in Tasks /\ Idle.at = "idle"
         /\ \A l \in SUBSET Sku, h \in SUBSET Sku :
              [at |-> "reserve", order |-> o, left |-> l, held |-> h] \in Tasks
         /\ \A l \in SUBSET Sku, r \in BOOLEAN :
              [at |-> "release", order |-> o, left |-> l, released |-> r] \in Tasks
         /\ \A l \in SUBSET Sku : [at |-> "commit", order |-> o, left |-> l] \in Tasks
         /\ \A n \in 1..PayAttempts : [at |-> "pay", order |-> o, attempts |-> n] \in Tasks
         /\ \A a \in {"load", "confirm", "capture"} : [at |-> a, order |-> o] \in Tasks
         /\ ToCommit(o) \in Tasks /\ PayAttempts \in 1..PayAttempts
<1>1. Items(o) \in SUBSET Sku
  BY DEF Items
<1> QED
  BY <1>1 DEF Tasks, Idle, ToCommit, LimitAssumption

LEMMA NewCalls ==
  ASSUME NEW o \in Order
  PROVE  /\ \A op \in {"reserve", "release", "commit"}, s \in Sku : SkuCall(o, op, s) \in Calls
         /\ \A op \in {"pay", "confirm", "capture", "refund"} : PayCall(o, op) \in Calls
  BY DEF SkuCall, PayCall, Calls

-----------------------------------------------------------------------------
(* What one order's invariant comes to while it is opened, and while it is  *)
(* paid: the other half of it is then void.                                 *)

LEMMA WhileOpening ==
  ASSUME NEW o \in Order, NEW w \in Worker, OrderInv(o), Busy(w, o, Opening)
  PROVE  /\ status[o] \in {"CREATED", "CANCELLED"} /\ payment[o] = "NONE"
         /\ Delayed(o, Settling \cup {"refund"}) = {}
         /\ \A v \in Worker : ~Busy(v, o, Settling)
         /\ \A v \in Worker : Busy(v, o, Opening) => v = w
<1>1. /\ status[o] \in {"CREATED", "CANCELLED"}
      /\ \A v \in Worker : Busy(v, o, Opening) => v = w
  BY DEF OrderInv, OpenedOnce
<1> QED
  BY <1>1 DEF OrderInv, InPayment, Paying

LEMMA StillOpening ==
  ASSUME NEW o \in Order, NEW w \in Worker,
         status'[o] \in {"CREATED", "CANCELLED"}, payment'[o] = "NONE",
         Delayed(o, Settling \cup {"refund"})' = {},
         \A v \in Worker : ~Busy(v, o, Settling)',
         \A v \in Worker : Busy(v, o, Opening)' => v = w,
         Reserving(o)', Releasing(o)'
  PROVE  OrderInv(o)'
<1>1. \A v \in Worker : ~Busy(v, o, {"commit"})'
  BY DEF Busy, Settling
<1> QED
  BY <1>1 DEF OrderInv, Unknown, OpenedOnce, FailedIsClean, InPayment, Paying, Committing, Settled

LEMMA WhilePaying ==
  ASSUME NEW o \in Order, OrderInv(o), status[o] \in Paying
  PROVE  /\ \A v \in Worker : ~Busy(v, o, Opening)
         /\ Delayed(o, Opening) = {}
         /\ \A s \in Items(o) : hold[o][s] \in {"RESERVED", "COMMITTED"}
         /\ Committing(o) /\ Settled(o)
  BY DEF OrderInv, OpenedOnce, InPayment, Paying

LEMMA StillPaying ==
  ASSUME NEW o \in Order, status'[o] \in Paying,
         \A v \in Worker : ~Busy(v, o, Opening)',
         Delayed(o, Opening)' = {},
         \A s \in Items(o) : hold'[o][s] \in {"RESERVED", "COMMITTED"},
         Committing(o)', Settled(o)'
  PROVE  OrderInv(o)'
<1>1. \A v \in Worker : ~Busy(v, o, {"reserve"})' /\ ~Busy(v, o, {"release"})'
  BY DEF Busy, Opening
<1>2. Items(o)' = Items(o)
  BY DEF Items
<1> QED
  BY <1>1, <1>2 DEF OrderInv, Unknown, OpenedOnce, Reserving, Releasing, FailedIsClean, InPayment, Paying

-----------------------------------------------------------------------------
(* Each step keeps the invariant.                                           *)

LEMMA StepPostOrder ==
  ASSUME SagaInv, LimitAssumption, NEW w \in Worker, NEW o \in Order, PostOrder(w, o)
  PROVE  SagaInv'
<1> DEFINE t == [at |-> "reserve", order |-> o, left |-> Items(o), held |-> {}]
<1>1. Shapes /\ OrderInv(o) /\ Items(o) \subseteq Sku
  BY DEF SagaInv, Items
<1>2. t \in Tasks
  BY <1>1, NewTasks
<1>3. Goto(w, t) /\ UNCHANGED <<hold, payment, late>>
  BY DEF PostOrder, inventory
<1>4. task' \in [Worker -> Tasks] /\ task'[w] = t /\ \A v \in Worker \ {w} : task'[v] = task[v]
  BY <1>1, <1>2, <1>3, TaskTyped
<1>5. status[o] = "NONE" /\ status' = [status EXCEPT ![o] = "CREATED"]
  BY DEF PostOrder
<1>6. Shapes'
  BY <1>1, <1>3, <1>4, <1>5 DEF Shapes
<1>7. About(o)
  BY <1>1, <1>3, <1>4, <1>5 DEF About, Shapes
<1>8. /\ payment[o] = "NONE" /\ \A s \in Sku : hold[o][s] = "NONE"
      /\ \A c \in late : c.order # o
      /\ \A v \in Worker : task[v].at # "idle" => task[v].order # o
  BY <1>1, <1>5 DEF OrderInv, Unknown
<1>9. \A v \in Worker : (Busy(v, o, Opening)' => v = w) /\ ~Busy(v, o, Settling)'
                        /\ ~Busy(v, o, {"release"})'
  BY <1>4, <1>8 DEF Busy, Opening, Settling
<1>10. \A ops : Delayed(o, ops)' = {}
  BY <1>3, <1>8 DEF Delayed
<1>11. Reserving(o)'
  <2> SUFFICES ASSUME NEW v \in Worker, Busy(v, o, {"reserve"})'
               PROVE  /\ (task'[v].held \cup task'[v].left = Items(o))
                      /\ \A s \in task'[v].held : hold'[o][s] \in {"RESERVED", "COMMITTED"}
                      /\ \A s \in Sku \ task'[v].held : hold'[o][s] = "NONE"
    BY <1>10 DEF Reserving, Items
  <2>1. v = w
    BY <1>9 DEF Busy, Opening
  <2> QED
    BY <2>1, <1>3, <1>4, <1>8
<1>12. Releasing(o)'
  BY <1>9 DEF Releasing
<1>13. status'[o] = "CREATED" /\ payment'[o] = "NONE"
  BY <1>1, <1>3, <1>5, <1>8 DEF Shapes
<1>14. OrderInv(o)'
  BY <1>9, <1>10, <1>11, <1>12, <1>13, StillOpening
<1> QED
  BY <1>6, <1>7, <1>14, OneOrder

\* A thread that ends, begins a reconcile, or finds nothing to pay.
LEMMA StepTaskOnly ==
  ASSUME SagaInv, LimitAssumption, NEW w \in Worker, NEW t \in Tasks, Goto(w, t),
         t.at = "idle" \/ (t.at = "load" /\ t.order \in Order /\ status[t.order] # "NONE"),
         UNCHANGED <<status, inventory, payment>>, late' \subseteq late
  PROVE  SagaInv'
<1>1. Shapes
  BY DEF SagaInv
<1>2. task' \in [Worker -> Tasks] /\ task'[w] = t /\ \A v \in Worker \ {w} : task'[v] = task[v]
  BY <1>1, TaskTyped
<1>3. Shapes'
  BY <1>1, <1>2 DEF Shapes, inventory
<1>4. ASSUME NEW o \in Order PROVE OrderInv(o)'
  <2>1. OrderInv(o)
    BY DEF SagaInv
  <2>2. Unknown(o)'
    <3> SUFFICES ASSUME status'[o] = "NONE" PROVE Unknown(o)'
      BY DEF Unknown
    <3>1. /\ payment[o] = "NONE" /\ \A s \in Sku : hold[o][s] = "NONE"
          /\ \A c \in late : c.order # o
          /\ \A v \in Worker : task[v].at # "idle" => task[v].order # o
      BY <2>1 DEF OrderInv, Unknown
    <3>2. \A v \in Worker : task'[v].at # "idle" => task'[v].order # o
      BY <1>2, <3>1
    <3> QED
      BY <3>1, <3>2 DEF Unknown, inventory
  <2> QED
    BY <1>2, <2>1, <2>2, Unmoved DEF inventory
<1> QED
  BY <1>3, <1>4 DEF SagaInv

LEMMA StepStop ==
  ASSUME SagaInv, LimitAssumption, NEW w \in Worker, Stop(w) PROVE SagaInv'
<1>1. Idle \in Tasks /\ Idle.at = "idle"
  BY DEF Tasks, Idle
<1> QED
  BY <1>1, StepTaskOnly DEF Stop, Ends

LEMMA StepPostReconcile ==
  ASSUME SagaInv, LimitAssumption, NEW w \in Worker, NEW o \in Order, PostReconcile(w, o)
  PROVE  SagaInv'
<1>1. [at |-> "load", order |-> o] \in Tasks
  BY NewTasks
<1> QED
  BY <1>1, StepTaskOnly DEF PostReconcile

LEMMA StepCancel ==
  ASSUME SagaInv, NEW o \in Order, Cancel(o) PROVE SagaInv'
<1>1. Shapes /\ OrderInv(o)
  BY DEF SagaInv
<1>2. status[o] = "CREATED" /\ status' = [status EXCEPT ![o] = "CANCELLED"]
      /\ UNCHANGED <<hold, payment, task, late>>
  BY DEF Cancel, inventory
<1>3. status'[o] = "CANCELLED" /\ \A p \in Order \ {o} : status'[p] = status[p]
  BY <1>1, <1>2 DEF Shapes
<1>4. Shapes' /\ About(o)
  BY <1>1, <1>2, <1>3 DEF Shapes, About
<1>5. Unknown(o)' /\ FailedIsClean(o)' /\ Settled(o)'
  BY <1>3 DEF Unknown, FailedIsClean, Settled
<1>6. OpenedOnce(o)' /\ Reserving(o)' /\ Releasing(o)' /\ Committing(o)'
  BY <1>1, <1>2, <1>3 DEF OrderInv, OpenedOnce, Reserving, Releasing, Committing, Busy, Delayed,
                          Clean, Captured, Items
<1>7. InPayment(o)'
  BY <1>1, <1>2, <1>3 DEF OrderInv, InPayment, Busy, Delayed, Paying
<1> QED
  BY <1>4, <1>5, <1>6, <1>7, OneOrder DEF OrderInv

\* A step of an order in payment has only to keep what was committed and paid.
LEMMA PayingStep ==
  ASSUME SagaInv, Shapes', NEW o \in Order, About(o), status[o] \in Paying, status'[o] \in Paying,
         \A v \in Worker : task'[v] = task[v] \/ task'[v].at \notin Opening,
         \A c \in late' : c \in late \/ c.op \notin Opening,
         \A s \in Items(o) : hold[o][s] \in {"RESERVED", "COMMITTED"} =>
                               hold'[o][s] \in {"RESERVED", "COMMITTED"},
         Committing(o) => Committing(o)', Settled(o) => Settled(o)'
  PROVE  SagaInv'
<1>1. OrderInv(o)
  BY DEF SagaInv
<1>2. \A v \in Worker : ~Busy(v, o, Opening)'
  BY <1>1, WhilePaying DEF Busy
<1>3. Delayed(o, Opening)' = {}
  BY <1>1, WhilePaying DEF Delayed
<1>4. OrderInv(o)'
  BY <1>1, <1>2, <1>3, WhilePaying, StillPaying
<1> QED
  BY <1>4, OneOrder

\* What a call that timed out leaves.
LEMMA LateCall ==
  ASSUME Shapes, NEW c \in Calls, TimesOut(c)
  PROVE  late' \subseteq Calls /\ late' = late \cup {c}
  BY DEF Shapes, TimesOut

LEMMA StepLoad ==
  ASSUME SagaInv, LimitAssumption, NEW w \in Worker, Load(w) PROVE SagaInv'
<1>0. PICK o \in Order : o = task[w].order
  BY TaskShape DEF SagaInv, Load, At
<1> DEFINE t == [at |-> "pay", order |-> o, attempts |-> PayAttempts]
<1>1. Shapes
  BY DEF SagaInv
<1>2. CASE ~MayPay(o)
  <2>1. Idle \in Tasks /\ Idle.at = "idle" /\ Goto(w, Idle)
    BY <1>0, <1>2, NewTasks DEF Load, Ends
  <2> QED
    BY <2>1, StepTaskOnly DEF Load
<1>3. CASE MayPay(o)
  <2>1. t \in Tasks /\ Goto(w, t) /\ UNCHANGED <<status, hold, payment, late>>
    BY <1>0, <1>3, NewTasks DEF Load, inventory
  <2>2. task' \in [Worker -> Tasks] /\ task'[w] = t /\ \A v \in Worker \ {w} : task'[v] = task[v]
    BY <1>1, <2>1, TaskTyped
  <2>3. Shapes' /\ About(o)
    BY <1>1, <2>1, <2>2 DEF Shapes, About
  <2>4. status[o] \in Paying /\ status'[o] \in Paying
    BY <1>3, <2>1 DEF MayPay, Paying
  <2>5. Committing(o) => Committing(o)'
    BY <2>1, <2>2 DEF Committing, Busy, Captured, Items
  <2>6. Settled(o) => Settled(o)'
    BY <2>1 DEF Settled, Captured, Items
  <2> QED
    BY <1>1, <2>1, <2>2, <2>3, <2>4, <2>5, <2>6, PayingStep DEF Opening
<1> QED
  BY <1>2, <1>3

\* A thread that is at the money of an order is at one in payment.
LEMMA AtMoney ==
  ASSUME SagaInv, NEW w \in Worker, task[w].at \in Settling
  PROVE  /\ Shapes /\ task[w].order \in Order
         /\ status[task[w].order] \in Paying /\ Busy(w, task[w].order, Settling)
         /\ OrderInv(task[w].order)
<1>1. Shapes /\ task[w].order \in Order
  BY TaskShape DEF SagaInv, Settling
<1>2. OrderInv(task[w].order) /\ Busy(w, task[w].order, Settling)
  BY <1>1 DEF SagaInv, Busy
<1> QED
  BY <1>1, <1>2 DEF OrderInv, InPayment

LEMMA StepPay ==
  ASSUME SagaInv, LimitAssumption, NEW w \in Worker, Pay(w) PROVE SagaInv'
<1>0. PICK o \in Order : o = task[w].order
  BY AtMoney DEF Pay, At, Settling
<1>1. /\ Shapes /\ status[o] \in Paying /\ OrderInv(o)
      /\ UNCHANGED <<status, hold>>
  BY <1>0, AtMoney DEF Pay, At, Settling, inventory
<1>2. PICK t \in Tasks : Goto(w, t) /\ t.at \in {"idle", "pay", "confirm"}
                         /\ (t.at # "idle" => t.order = o)
  <2>1. CASE Save(o) /\ Goto(w, [at |-> "confirm", order |-> o])
    BY <1>1, <2>1, NewTasks
  <2>2. CASE /\ TimesOut(PayCall(o, "pay"))
             /\ IF task[w].attempts > 1 THEN Goto(w, [task[w] EXCEPT !.attempts = @ - 1]) ELSE Ends(w)
    <3>1. CASE task[w].attempts > 1
      <4> DEFINE n == task[w].attempts - 1
      <4>1. task[w] = [at |-> "pay", order |-> o, attempts |-> task[w].attempts]
            /\ task[w].attempts \in 1..PayAttempts
        BY <1>0, <1>1, TaskShape DEF Pay, At
      <4>2. n \in 1..PayAttempts
        BY <3>1, <4>1 DEF LimitAssumption
      <4>3. Goto(w, [at |-> "pay", order |-> o, attempts |-> n])
        BY <2>2, <3>1, <4>1
      <4> QED
        BY <1>1, <4>2, <4>3, NewTasks
    <3>2. CASE ~(task[w].attempts > 1)
      BY <1>1, <2>2, <3>2, NewTasks DEF Ends
    <3> QED
      BY <3>1, <3>2
  <2> QED
    BY <1>0, <2>1, <2>2 DEF Pay
<1>3. task' \in [Worker -> Tasks] /\ task'[w] = t /\ \A v \in Worker \ {w} : task'[v] = task[v]
  BY <1>1, <1>2, TaskTyped
<1>4. /\ late' \subseteq Calls /\ late' \subseteq late \cup {PayCall(o, "pay")}
      /\ payment' \in Payments /\ \A p \in Order \ {o} : payment'[p] = payment[p]
      /\ Captured(o) => Captured(o)'
  <2>1. PayCall(o, "pay") \in Calls
    BY <1>1, NewCalls
  <2>2. CASE Save(o) /\ UNCHANGED late
    BY <1>1, <2>2, PaymentEffect DEF Captured, Shapes
  <2>3. CASE TimesOut(PayCall(o, "pay")) /\ UNCHANGED payment
    BY <1>1, <2>1, <2>3, LateCall, ShapesMeans DEF Captured
  <2> QED
    BY <1>0, <2>2, <2>3 DEF Pay
<1>5. Shapes' /\ About(o)
  BY <1>1, <1>2, <1>3, <1>4 DEF Shapes, About, Payments, PayCall
<1>6. Committing(o) => Committing(o)'
  BY <1>1, <1>2, <1>3, <1>4 DEF Committing, Busy, Items
<1>7. Settled(o) => Settled(o)'
  BY <1>1, <1>4 DEF Settled, Items
<1> QED
  BY <1>1, <1>2, <1>3, <1>4, <1>5, <1>6, <1>7, PayingStep DEF Opening, PayCall

\* A commit begins with all items before it; a captured order has been paid.
LEMMA BeginsCommit ==
  ASSUME NEW o \in Order, NEW w \in Worker, Committing(o), Captured(o)',
         \A v \in Worker \ {w} : task'[v] = task[v],
         task'[w] = ToCommit(o) \/ task'[w].at # "commit", UNCHANGED hold
  PROVE  Committing(o)'
<1> SUFFICES ASSUME NEW v \in Worker, Busy(v, o, {"commit"})'
             PROVE  \A s \in Items(o) \ task'[v].left : hold'[o][s] = "COMMITTED"
  BY DEF Committing, Items
<1>1. CASE v = w
  BY <1>1 DEF Busy, ToCommit
<1>2. CASE v # w
  BY <1>2 DEF Busy, Committing
<1> QED
  BY <1>1, <1>2

LEMMA StepConfirm ==
  ASSUME SagaInv, LimitAssumption, NEW w \in Worker, Confirm(w) PROVE SagaInv'
<1>0. PICK o \in Order : o = task[w].order
  BY AtMoney DEF Confirm, At, Settling
<1>1. Shapes /\ status[o] \in Paying /\ OrderInv(o) /\ UNCHANGED <<status, hold, payment>>
  BY <1>0, AtMoney DEF Confirm, At, Settling, inventory
<1>2. PICK t \in Tasks : /\ Goto(w, t)
                         /\ t.at \in {"idle", "capture"} \/ (t = ToCommit(o) /\ Captured(o))
                         /\ t.at # "idle" => t.order = o
  <2>1. CASE payment[o] = "CAPTURED" /\ Goto(w, ToCommit(o))
    BY <2>1, NewTasks DEF ToCommit, Captured
  <2>2. CASE Goto(w, [at |-> "capture", order |-> o])
    BY <2>2, NewTasks
  <2>3. CASE Ends(w)
    BY <2>3, NewTasks DEF Ends
  <2> QED
    BY <1>0, <2>1, <2>2, <2>3 DEF Confirm
<1>3. task' \in [Worker -> Tasks] /\ task'[w] = t /\ \A v \in Worker \ {w} : task'[v] = task[v]
  BY <1>1, <1>2, TaskTyped
<1>4. late' \subseteq Calls /\ late' \subseteq late \cup {PayCall(o, "confirm")}
  BY <1>0, <1>1, NewCalls, LateCall DEF Confirm, Shapes
<1>5. Shapes' /\ About(o)
  BY <1>1, <1>2, <1>3, <1>4 DEF Shapes, About, PayCall
<1>6. Committing(o) => Committing(o)'
  <2>1. CASE t = ToCommit(o) /\ Captured(o)
    BY <1>1, <1>3, <2>1, BeginsCommit DEF Captured
  <2>2. CASE t.at \in {"idle", "capture"}
    BY <1>1, <1>3, <2>2 DEF Committing, Busy, Captured, Items
  <2> QED
    BY <1>2, <2>1, <2>2
<1>7. Settled(o) => Settled(o)'
  BY <1>1 DEF Settled, Captured, Items
<1>8. t.at \notin Opening
  BY <1>2 DEF ToCommit, Opening
<1> QED
  BY <1>1, <1>3, <1>4, <1>5, <1>6, <1>7, <1>8, PayingStep DEF Opening, PayCall

LEMMA StepCapture ==
  ASSUME SagaInv, LimitAssumption, NEW w \in Worker, Capture(w) PROVE SagaInv'
<1>0. PICK o \in Order : o = task[w].order
  BY AtMoney DEF Capture, At, Settling
<1>1. Shapes /\ status[o] \in Paying /\ OrderInv(o) /\ UNCHANGED <<status, hold>>
  BY <1>0, AtMoney DEF Capture, At, Settling, inventory
<1>2. /\ payment' \in Payments /\ \A p \in Order \ {o} : payment'[p] = payment[p]
      /\ Captured(o) => Captured(o)'
  <2>1. CASE Update(o, "CAPTURED")
    BY <1>1, <2>1, PaymentEffect DEF Captured
  <2>2. CASE UNCHANGED payment
    BY <1>1, <2>2, ShapesMeans DEF Captured
  <2> QED
    BY <1>0, <2>1, <2>2 DEF Capture
<1>3. PICK t \in Tasks : /\ Goto(w, t)
                         /\ t.at = "idle" \/ (t = ToCommit(o) /\ Captured(o)')
  <2>1. CASE payment'[o] = "CAPTURED" /\ Goto(w, ToCommit(o))
    BY <2>1, NewTasks DEF Captured
  <2>2. CASE Ends(w)
    BY <2>2, NewTasks DEF Ends
  <2> QED
    BY <1>0, <2>1, <2>2 DEF Capture
<1>4. task' \in [Worker -> Tasks] /\ task'[w] = t /\ \A v \in Worker \ {w} : task'[v] = task[v]
  BY <1>1, <1>3, TaskTyped
<1>5. late' \subseteq Calls /\ late' \subseteq late \cup {PayCall(o, "capture")}
  BY <1>0, <1>1, NewCalls, LateCall DEF Capture, Shapes
<1>6. Shapes' /\ About(o)
  BY <1>1, <1>2, <1>3, <1>4, <1>5 DEF Shapes, About, PayCall, Payments, ToCommit
<1>7. Committing(o) => Committing(o)'
  <2>1. CASE t = ToCommit(o) /\ Captured(o)'
    BY <1>1, <1>4, <2>1, BeginsCommit
  <2>2. CASE t.at = "idle"
    BY <1>1, <1>2, <1>4, <2>2 DEF Committing, Busy, Items
  <2> QED
    BY <1>3, <2>1, <2>2
<1>8. Settled(o) => Settled(o)'
  BY <1>1, <1>2 DEF Settled, Items
<1>9. t.at \notin Opening
  BY <1>3 DEF ToCommit, Opening
<1> QED
  BY <1>1, <1>4, <1>5, <1>6, <1>7, <1>8, <1>9, PayingStep DEF Opening, PayCall

LEMMA StepPaid ==
  ASSUME SagaInv, LimitAssumption, NEW w \in Worker, Paid(w) PROVE SagaInv'
<1>0. PICK o \in Order : o = task[w].order
  BY AtMoney DEF Paid, At, Settling
<1>1. Shapes /\ status[o] \in Paying /\ OrderInv(o) /\ UNCHANGED <<hold, payment, late>>
  BY <1>0, AtMoney DEF Paid, At, Settling, inventory
<1>2. Idle \in Tasks /\ Idle.at = "idle" /\ Goto(w, Idle)
  BY NewTasks DEF Paid, Ends
<1>3. task' \in [Worker -> Tasks] /\ task'[w] = Idle /\ \A v \in Worker \ {w} : task'[v] = task[v]
  BY <1>1, <1>2, TaskTyped
<1>4. status' = [status EXCEPT ![o] = "PAID"]
  BY <1>0 DEF Paid
<1>5. status'[o] = "PAID" /\ \A p \in Order \ {o} : status'[p] = status[p]
  BY <1>1, <1>4 DEF Shapes
<1>6. Shapes' /\ About(o)
  BY <1>1, <1>2, <1>3, <1>4, <1>5 DEF Shapes, About
<1>7. Committing(o) => Committing(o)'
  BY <1>1, <1>2, <1>3 DEF Committing, Busy, Captured, Items
<1>8. Settled(o)'
  <2>1. Busy(w, o, {"commit"}) /\ task[w].left = {}
    BY <1>0 DEF Busy, Paid, At
  <2> QED
    BY <1>1, <2>1 DEF OrderInv, Committing, Settled, Captured, Items
<1> QED
  BY <1>1, <1>2, <1>3, <1>5, <1>6, <1>7, <1>8, PayingStep DEF Opening, Paying

LEMMA StepRefundRequested ==
  ASSUME SagaInv, LimitAssumption, NEW o \in Order, RefundRequested(o) PROVE SagaInv'
<1>1. Shapes /\ OrderInv(o) /\ UNCHANGED <<status, hold, payment, task>>
  BY DEF SagaInv, RefundRequested, inventory
<1>2. status[o] \in Paying
  BY <1>1 DEF OrderInv, InPayment, RefundRequested
<1>3. late' = late \cup {PayCall(o, "refund")} /\ PayCall(o, "refund") \in Calls
  BY NewCalls DEF RefundRequested, PayCall
<1>4. Shapes' /\ About(o)
  BY <1>1, <1>3 DEF Shapes, About, PayCall
<1>5. (Committing(o) => Committing(o)') /\ (Settled(o) => Settled(o)')
  BY <1>1 DEF Committing, Settled, Busy, Captured, Items
<1> QED
  BY <1>1, <1>2, <1>3, <1>4, <1>5, PayingStep DEF PayCall, Opening

\* What is sold stays sold.
LEMMA StepCommitItem ==
  ASSUME SagaInv, LimitAssumption, NEW w \in Worker, CommitItem(w) PROVE SagaInv'
<1>0. PICK o \in Order : o = task[w].order
  BY AtMoney DEF CommitItem, At, Settling
<1>1. Shapes /\ status[o] \in Paying /\ OrderInv(o) /\ UNCHANGED <<status, payment>>
  BY <1>0, AtMoney DEF CommitItem, At, Settling
<1>2. /\ task[w] = [at |-> "commit", order |-> o, left |-> task[w].left]
      /\ task[w].left \subseteq Sku
  BY <1>0, <1>1, TaskShape DEF CommitItem, At
<1>3. PICK s \in task[w].left :
        \/ /\ Finish(o, s, "COMMITTED") /\ UNCHANGED late
           /\ IF FinishAccepts(o, s, "COMMITTED")
              THEN Goto(w, [task[w] EXCEPT !.left = @ \ {s}]) ELSE Ends(w)
        \/ TimesOut(SkuCall(o, "commit", s)) /\ Ends(w) /\ UNCHANGED hold
  BY <1>0 DEF CommitItem, CommitTimesOut, inventory
<1>4. s \in Sku
  BY <1>2, <1>3
<1>5. /\ hold' \in Holds
      /\ \A p \in Order, x \in Sku : p # o \/ x # s => hold'[p][x] = hold[p][x]
      /\ hold'[o][s] = hold[o][s] \/ hold'[o][s] = "COMMITTED"
  BY <1>1, <1>3, <1>4, FinishEffect, ShapesMeans
<1>6. PICK t \in Tasks :
        /\ Goto(w, t)
        /\ t.at = "idle" \/ (t.at = "commit" /\ t.order = o /\ t.left = task[w].left \ {s}
                              /\ hold'[o][s] = "COMMITTED")
  <2>1. CASE Finish(o, s, "COMMITTED") /\ FinishAccepts(o, s, "COMMITTED")
             /\ Goto(w, [task[w] EXCEPT !.left = @ \ {s}])
    <3> DEFINE t == [at |-> "commit", order |-> o, left |-> task[w].left \ {s}]
    <3>1. [task[w] EXCEPT !.left = @ \ {s}] = t
      BY <1>2
    <3>2. task[w].left \ {s} \in SUBSET Sku
      BY <1>2
    <3>3. Goto(w, t) /\ t \in Tasks
      BY <2>1, <3>1, <3>2, NewTasks
    <3>4. hold'[o][s] = "COMMITTED"
      BY <1>1, <1>4, <2>1, FinishEffect
    <3> QED
      BY <3>3, <3>4
  <2>2. CASE Ends(w)
    BY <2>2, NewTasks DEF Ends
  <2> QED
    BY <1>3, <2>1, <2>2
<1>7. task' \in [Worker -> Tasks] /\ task'[w] = t /\ \A v \in Worker \ {w} : task'[v] = task[v]
  BY <1>1, <1>6, TaskTyped
<1>8. late' \subseteq Calls /\ late' \subseteq late \cup {SkuCall(o, "commit", s)}
  BY <1>1, <1>3, <1>4, NewCalls, LateCall DEF Shapes
<1>9. \A x \in Sku : hold[o][x] = "COMMITTED" => hold'[o][x] = "COMMITTED"
  BY <1>4, <1>5
<1>10. Shapes' /\ About(o)
  <2>1. Shapes'
    BY <1>1, <1>5, <1>7, <1>8 DEF Shapes, Holds
  <2>2. \A p \in Order \ {o} : hold'[p] = hold[p]
    BY <1>1, <1>5 DEF Shapes, Holds
  <2> QED
    BY <1>1, <1>6, <1>7, <1>8, <2>1, <2>2 DEF About, SkuCall
<1>11. Committing(o) => Committing(o)'
  <2> SUFFICES ASSUME Committing(o), NEW v \in Worker, Busy(v, o, {"commit"})'
               PROVE  Captured(o)' /\ \A x \in Items(o) \ task'[v].left : hold'[o][x] = "COMMITTED"
    BY DEF Committing, Items
  <2>1. CASE v # w
    <3>1. task'[v] = task[v] /\ Busy(v, o, {"commit"})
      BY <1>7, <2>1 DEF Busy
    <3> QED
      BY <1>1, <1>9, <3>1 DEF Committing, Captured, Items
  <2>2. CASE v = w
    <3>1. Busy(w, o, {"commit"})
      BY <1>0 DEF Busy, CommitItem, At
    <3>2. task'[w].left = task[w].left \ {s} /\ hold'[o][s] = "COMMITTED"
      BY <1>6, <1>7, <2>2 DEF Busy
    <3> QED
      BY <1>1, <1>9, <2>2, <3>1, <3>2 DEF Committing, Captured, Items
  <2> QED
    BY <2>1, <2>2
<1>12. Settled(o) => Settled(o)'
  BY <1>1, <1>9 DEF Settled, Captured, Items
<1>13. \A x \in Items(o) : hold[o][x] \in {"RESERVED", "COMMITTED"} =>
                             hold'[o][x] \in {"RESERVED", "COMMITTED"}
  BY <1>4, <1>5 DEF Items
<1> QED
  BY <1>1, <1>6, <1>7, <1>8, <1>10, <1>11, <1>12, <1>13, PayingStep DEF Opening, SkuCall

\* A thread that opens an order, with what it knows.
LEMMA AtOpening ==
  ASSUME SagaInv, NEW w \in Worker, task[w].at \in Opening
  PROVE  /\ Shapes /\ task[w].order \in Order
         /\ Busy(w, task[w].order, Opening) /\ OrderInv(task[w].order)
<1>1. Shapes /\ task[w].order \in Order
  BY TaskShape DEF SagaInv, Opening
<1> QED
  BY <1>1 DEF SagaInv, Busy

\* A step of the thread that opens an order.
LEMMA OpeningStep ==
  ASSUME SagaInv, Shapes', NEW o \in Order, NEW w \in Worker, Busy(w, o, Opening), About(o),
         UNCHANGED <<status, payment>>,
         \A v \in Worker \ {w} : task'[v] = task[v], task'[w].at \in Opening,
         \A c \in late' : c \in late \/ c.op \in Opening,
         Reserving(o)', Releasing(o)'
  PROVE  SagaInv'
<1>1. OrderInv(o)
  BY DEF SagaInv
<1>2. Delayed(o, Settling \cup {"refund"})' = {}
  BY <1>1, WhileOpening DEF Delayed, Opening, Settling
<1>3. \A v \in Worker : ~Busy(v, o, Settling)' /\ (Busy(v, o, Opening)' => v = w)
  BY <1>1, WhileOpening DEF Busy, Opening, Settling
<1>4. OrderInv(o)'
  BY <1>1, <1>2, <1>3, WhileOpening, StillOpening
<1> QED
  BY <1>4, OneOrder

LEMMA StepReserveItem ==
  ASSUME SagaInv, LimitAssumption, NEW w \in Worker, ReserveItem(w) PROVE SagaInv'
<1>0. PICK o \in Order : o = task[w].order
  BY AtOpening DEF ReserveItem, At, Opening
<1>1. Shapes /\ Busy(w, o, Opening) /\ OrderInv(o) /\ UNCHANGED <<status, payment>>
  BY <1>0, AtOpening DEF ReserveItem, At, Opening
<1>2. /\ task[w] = [at |-> "reserve", order |-> o, left |-> task[w].left, held |-> task[w].held]
      /\ task[w].left \subseteq Sku /\ task[w].held \subseteq Sku
  BY <1>0, <1>1, TaskShape DEF ReserveItem, At
<1>3. /\ Delayed(o, Opening) = {} /\ task[w].held \cup task[w].left = Items(o)
      /\ \A x \in task[w].held : hold[o][x] \in {"RESERVED", "COMMITTED"}
      /\ \A x \in Sku \ task[w].held : hold[o][x] = "NONE"
  BY <1>0, <1>1 DEF OrderInv, Reserving, Busy, ReserveItem, At
<1>4. PICK s \in task[w].left :
        \/ /\ ReserveAccepts(o, s) /\ Reserve(o, s)
           /\ Goto(w, [task[w] EXCEPT !.left = @ \ {s}, !.held = @ \cup {s}])
           /\ UNCHANGED late
        \/ ReserveFails(w, s) /\ UNCHANGED <<hold, late>>
        \/ TimesOut(SkuCall(o, "reserve", s)) /\ ReserveFails(w, s) /\ UNCHANGED hold
  BY <1>0 DEF ReserveItem, inventory
<1>5. s \in Sku
  BY <1>2, <1>4
<1>6. CASE /\ ReserveAccepts(o, s) /\ Reserve(o, s)
           /\ Goto(w, [task[w] EXCEPT !.left = @ \ {s}, !.held = @ \cup {s}])
           /\ UNCHANGED late
  <2> DEFINE t == [at |-> "reserve", order |-> o, left |-> task[w].left \ {s},
                   held |-> task[w].held \cup {s}]
  <2>1. [task[w] EXCEPT !.left = @ \ {s}, !.held = @ \cup {s}] = t
    <3>1. PICK l, h : /\ task[w] = [at |-> "reserve", order |-> o, left |-> l, held |-> h]
                      /\ l = task[w].left /\ h = task[w].held
      BY <1>2
    <3>2. [task[w] EXCEPT !.left = @ \ {s}, !.held = @ \cup {s}]
            = [[task[w] EXCEPT !.left = l \ {s}] EXCEPT !.held = h \cup {s}]
      BY <3>1
    <3>3. [task[w] EXCEPT !.left = l \ {s}]
            = [at |-> "reserve", order |-> o, left |-> l \ {s}, held |-> h]
      BY <3>1
    <3>4. ASSUME NEW u, u = [at |-> "reserve", order |-> o, left |-> l \ {s}, held |-> h]
          PROVE  [u EXCEPT !.held = h \cup {s}]
                   = [at |-> "reserve", order |-> o, left |-> l \ {s}, held |-> h \cup {s}]
      BY <3>4
    <3> QED
      BY <3>1, <3>2, <3>3, <3>4
  <2>2. task[w].left \ {s} \in SUBSET Sku /\ task[w].held \cup {s} \in SUBSET Sku
    BY <1>2, <1>5
  <2>3. Goto(w, t) /\ t \in Tasks
    BY <1>6, <2>1, <2>2, NewTasks
  <2>4. task' \in [Worker -> Tasks] /\ task'[w] = t /\ \A v \in Worker \ {w} : task'[v] = task[v]
    BY <1>1, <2>3, TaskTyped
  <2>5. /\ hold' \in Holds
        /\ \A p \in Order, x \in Sku : p # o \/ x # s => hold'[p][x] = hold[p][x]
        /\ hold'[o][s] \in {"RESERVED", "COMMITTED"}
    BY <1>1, <1>5, <1>6, ReserveEffect
  <2>6. Shapes'
    BY <1>1, <1>6, <2>4, <2>5 DEF Shapes, Holds
  <2>7. \A p \in Order \ {o} : hold'[p] = hold[p]
    BY <1>1, <2>5 DEF Shapes, Holds
  <2>8. About(o)
    BY <1>1, <1>6, <2>4, <2>7 DEF About
  <2>9. Reserving(o)'
    <3> SUFFICES ASSUME NEW v \in Worker, Busy(v, o, {"reserve"})'
                 PROVE  /\ (task'[v].held \cup task'[v].left = Items(o))
                        /\ \A x \in task'[v].held : hold'[o][x] \in {"RESERVED", "COMMITTED"}
                        /\ \A x \in Sku \ task'[v].held : hold'[o][x] = "NONE"
      BY <1>3, <1>6 DEF Reserving, Items, Delayed
    <3>1. v = w
      BY <1>1, <2>4, WhileOpening DEF Busy, Opening
    <3>2. task'[v].held = task[w].held \cup {s} /\ task'[v].left = task[w].left \ {s}
      BY <2>4, <3>1
    <3>3. task'[v].held \cup task'[v].left = Items(o)
      BY <1>3, <1>4, <3>2
    <3>4. \A x \in task'[v].held : hold'[o][x] \in {"RESERVED", "COMMITTED"}
      BY <1>2, <1>3, <2>5, <3>2
    <3>5. \A x \in Sku \ task'[v].held : hold'[o][x] = "NONE"
      BY <1>3, <2>5, <3>2
    <3> QED
      BY <3>3, <3>4, <3>5
  <2>10. Releasing(o)'
    BY <1>1, <2>4, WhileOpening DEF Releasing, Busy, Opening
  <2> QED
    BY <1>1, <1>6, <2>4, <2>6, <2>8, <2>9, <2>10, OpeningStep DEF Opening
<1>7. CASE /\ ReserveFails(w, s) /\ UNCHANGED hold
           /\ UNCHANGED late \/ TimesOut(SkuCall(o, "reserve", s))
  <2> DEFINE t == [at |-> "release", order |-> o, left |-> task[w].held \cup {s}, released |-> TRUE]
  <2>1. task[w].held \cup {s} \in SUBSET Sku
    BY <1>2, <1>5
  <2>2. Goto(w, t) /\ t \in Tasks
    BY <1>0, <1>7, <2>1, NewTasks DEF ReserveFails
  <2>3. task' \in [Worker -> Tasks] /\ task'[w] = t /\ \A v \in Worker \ {w} : task'[v] = task[v]
    BY <1>1, <2>2, TaskTyped
  <2>4. late' \subseteq Calls /\ late' \subseteq late \cup {SkuCall(o, "reserve", s)}
    BY <1>1, <1>5, <1>7, NewCalls, LateCall DEF Shapes
  <2>5. Shapes' /\ About(o)
    BY <1>1, <1>7, <2>3, <2>4 DEF Shapes, About, SkuCall
  <2>6. Reserving(o)'
    BY <1>1, <2>3, WhileOpening DEF Reserving, Busy, Opening
  <2>7. Releasing(o)'
    <3> SUFFICES ASSUME NEW v \in Worker, Busy(v, o, {"release"})', NEW x \in Sku \ task'[v].left
                 PROVE  Clean(o, x)'
      BY DEF Releasing
    <3>1. v = w
      BY <1>1, <2>3, WhileOpening DEF Busy, Opening
    <3>2. x \notin task[w].held /\ x # s
      BY <2>3, <3>1
    <3>3. hold'[o][x] = "NONE"
      BY <1>3, <1>7, <3>2
    <3>4. \A c \in Delayed(o, {"reserve"})' : c = SkuCall(o, "reserve", s)
      BY <1>3, <2>4 DEF Delayed, Opening
    <3>5. \A c \in Delayed(o, {"reserve"})' : c.sku # x
      BY <3>2, <3>4 DEF SkuCall
    <3> QED
      BY <3>3, <3>5 DEF Clean
  <2> QED
    BY <1>1, <2>3, <2>4, <2>5, <2>6, <2>7, OpeningStep DEF Opening, SkuCall
<1> QED
  BY <1>4, <1>6, <1>7

LEMMA StepReleaseItem ==
  ASSUME SagaInv, LimitAssumption, NEW w \in Worker, ReleaseItem(w) PROVE SagaInv'
<1>0. PICK o \in Order : o = task[w].order
  BY AtOpening DEF ReleaseItem, At, Opening
<1>1. Shapes /\ Busy(w, o, Opening) /\ OrderInv(o) /\ UNCHANGED <<status, payment>>
  BY <1>0, AtOpening DEF ReleaseItem, At, Opening
<1>2. /\ task[w] = [at |-> "release", order |-> o, left |-> task[w].left,
                    released |-> task[w].released]
      /\ task[w].left \subseteq Sku /\ task[w].released \in BOOLEAN
  BY <1>0, <1>1, TaskShape DEF ReleaseItem, At
<1>3. task[w].released => \A x \in Sku \ task[w].left : Clean(o, x)
  BY <1>0, <1>1 DEF OrderInv, Releasing, Busy, ReleaseItem, At
<1>4. PICK s \in task[w].left, r \in BOOLEAN :
        /\ Goto(w, [at |-> "release", order |-> o, left |-> task[w].left \ {s}, released |-> r])
        /\ \/ /\ Finish(o, s, "RELEASED") /\ UNCHANGED late
              /\ r => task[w].released /\ FinishAccepts(o, s, "RELEASED")
           \/ TimesOut(SkuCall(o, "release", s)) /\ UNCHANGED hold /\ ~r
  <2>1. PICK s \in task[w].left :
          \/ /\ Finish(o, s, "RELEASED") /\ UNCHANGED late
             /\ Goto(w, [task[w] EXCEPT !.left = @ \ {s},
                           !.released = @ /\ FinishAccepts(o, s, "RELEASED")])
          \/ /\ TimesOut(SkuCall(o, "release", s)) /\ UNCHANGED inventory
             /\ Goto(w, [task[w] EXCEPT !.left = @ \ {s}, !.released = FALSE])
    BY <1>0 DEF ReleaseItem
  <2>2. \A r : [task[w] EXCEPT !.left = @ \ {s}, !.released = r]
                 = [at |-> "release", order |-> o, left |-> task[w].left \ {s}, released |-> r]
    <3>1. PICK l, b : /\ task[w] = [at |-> "release", order |-> o, left |-> l, released |-> b]
                      /\ l = task[w].left
      BY <1>2
    <3>2. \A r : [task[w] EXCEPT !.left = @ \ {s}, !.released = r]
                   = [[task[w] EXCEPT !.left = l \ {s}] EXCEPT !.released = r]
      BY <3>1
    <3>3. [task[w] EXCEPT !.left = l \ {s}]
            = [at |-> "release", order |-> o, left |-> l \ {s}, released |-> b]
      BY <3>1
    <3>4. ASSUME NEW u, NEW r, u = [at |-> "release", order |-> o, left |-> l \ {s}, released |-> b]
          PROVE  [u EXCEPT !.released = r]
                   = [at |-> "release", order |-> o, left |-> l \ {s}, released |-> r]
      BY <3>4
    <3>5. \A r : [[task[w] EXCEPT !.left = l \ {s}] EXCEPT !.released = r]
                   = [at |-> "release", order |-> o, left |-> l \ {s}, released |-> r]
      BY <3>3, <3>4
    <3> QED
      BY <3>1, <3>2, <3>5
  <2>3. [task[w] EXCEPT !.left = @ \ {s}, !.released = @ /\ FinishAccepts(o, s, "RELEASED")]
          = [task[w] EXCEPT !.left = @ \ {s},
                            !.released = task[w].released /\ FinishAccepts(o, s, "RELEASED")]
    BY <1>2
  <2>4. (task[w].released /\ FinishAccepts(o, s, "RELEASED")) \in BOOLEAN
    OBVIOUS
  <2> QED
    BY <2>1, <2>2, <2>3, <2>4 DEF inventory
<1> DEFINE t == [at |-> "release", order |-> o, left |-> task[w].left \ {s}, released |-> r]
<1>5. s \in Sku /\ t \in Tasks
  BY <1>2, <1>4, NewTasks
<1>6. task' \in [Worker -> Tasks] /\ task'[w] = t /\ \A v \in Worker \ {w} : task'[v] = task[v]
  BY <1>1, <1>4, <1>5, TaskTyped
<1>7. /\ hold' \in Holds
      /\ \A p \in Order, x \in Sku : p # o \/ x # s => hold'[p][x] = hold[p][x]
      /\ r => hold'[o][s] = "RELEASED" /\ task[w].released
  BY <1>1, <1>4, <1>5, FinishEffect, ShapesMeans
<1>8. late' \subseteq Calls /\ late' \subseteq late \cup {SkuCall(o, "release", s)}
  BY <1>1, <1>4, <1>5, NewCalls, LateCall DEF Shapes
<1>9. Shapes' /\ About(o)
  <2>1. Shapes'
    BY <1>1, <1>6, <1>7, <1>8 DEF Shapes, Holds
  <2>2. \A p \in Order \ {o} : hold'[p] = hold[p]
    BY <1>1, <1>7 DEF Shapes, Holds
  <2> QED
    BY <1>1, <1>6, <1>8, <2>1, <2>2 DEF About, SkuCall
<1>10. Reserving(o)'
  BY <1>1, <1>6, WhileOpening DEF Reserving, Busy, Opening
<1>11. Releasing(o)'
  <2> SUFFICES ASSUME NEW v \in Worker, Busy(v, o, {"release"})', task'[v].released,
                      NEW x \in Sku \ task'[v].left
               PROVE  Clean(o, x)'
    BY DEF Releasing
  <2>1. v = w
    BY <1>1, <1>6, WhileOpening DEF Busy, Opening
  <2>2. r /\ (x = s \/ x \notin task[w].left)
    BY <1>6, <2>1
  <2>3. CASE x = s
    BY <1>7, <2>2, <2>3 DEF Clean
  <2>4. CASE x # s
    <3>1. Clean(o, x) /\ hold'[o][x] = hold[o][x]
      BY <1>3, <1>7, <2>2, <2>4
    <3>2. Delayed(o, {"reserve"})' \subseteq Delayed(o, {"reserve"})
      BY <1>8 DEF Delayed, SkuCall
    <3> QED
      BY <3>1, <3>2 DEF Clean
  <2> QED
    BY <2>3, <2>4
<1> QED
  BY <1>1, <1>6, <1>8, <1>9, <1>10, <1>11, OpeningStep DEF Opening, SkuCall

LEMMA StepCompensated ==
  ASSUME SagaInv, LimitAssumption, NEW w \in Worker, Compensated(w) PROVE SagaInv'
<1>0. PICK o \in Order : o = task[w].order
  BY AtOpening DEF Compensated, At, Opening
<1>1. Shapes /\ Busy(w, o, Opening) /\ OrderInv(o) /\ UNCHANGED <<hold, payment, late>>
  BY <1>0, AtOpening DEF Compensated, At, Opening, inventory
<1>2. Idle \in Tasks /\ Idle.at = "idle" /\ Goto(w, Idle)
  BY NewTasks DEF Compensated, Ends
<1>3. task' \in [Worker -> Tasks] /\ task'[w] = Idle /\ \A v \in Worker \ {w} : task'[v] = task[v]
  BY <1>1, <1>2, TaskTyped
<1>4. status' = [status EXCEPT ![o] = IF task[w].released THEN "FAILED" ELSE "REVIEW_REQUIRED"]
  BY <1>0 DEF Compensated
<1>5. /\ status'[o] \in {"FAILED", "REVIEW_REQUIRED"} /\ (status'[o] = "FAILED" => task[w].released)
      /\ \A p \in Order \ {o} : status'[p] = status[p]
  BY <1>1, <1>4 DEF Shapes
<1>6. Shapes' /\ About(o)
  BY <1>1, <1>2, <1>3, <1>4, <1>5 DEF Shapes, About
<1>7. \A v \in Worker : ~Busy(v, o, Opening)' /\ ~Busy(v, o, Settling)'
  BY <1>1, <1>2, <1>3, WhileOpening DEF Busy, Opening, Settling
<1>8. OpenedOnce(o)' /\ Reserving(o)' /\ Releasing(o)' /\ Committing(o)'
  BY <1>7 DEF OpenedOnce, Reserving, Releasing, Committing, Busy, Opening, Settling
<1>9. FailedIsClean(o)'
  <2> SUFFICES ASSUME task[w].released, NEW s \in Sku PROVE Clean(o, s)'
    BY <1>5 DEF FailedIsClean
  <2>1. Busy(w, o, {"release"}) /\ task[w].left = {}
    BY <1>0 DEF Compensated, At, Busy
  <2>2. Clean(o, s)
    BY <1>1, <2>1 DEF OrderInv, Releasing
  <2> QED
    BY <1>1, <2>2 DEF Clean, Delayed
<1>10. InPayment(o)'
  <2>1. payment'[o] = "NONE" /\ Delayed(o, Settling \cup {"refund"})' = {}
    BY <1>1, WhileOpening DEF Delayed
  <2> QED
    BY <1>5, <1>7, <2>1 DEF InPayment, Paying
<1>11. Unknown(o)' /\ Settled(o)'
  BY <1>5 DEF Unknown, Settled
<1> QED
  BY <1>6, <1>8, <1>9, <1>10, <1>11, OneOrder DEF OrderInv

\* Everything is reserved, and no call of the opening is under way: the order
\* may go into payment.
LEMMA StepReserved ==
  ASSUME SagaInv, LimitAssumption, NEW w \in Worker, Reserved(w) PROVE SagaInv'
<1>0. PICK o \in Order : o = task[w].order
  BY AtOpening DEF Reserved, At, Opening
<1>1. Shapes /\ Busy(w, o, Opening) /\ OrderInv(o) /\ UNCHANGED <<hold, payment, late>>
  BY <1>0, AtOpening DEF Reserved, At, Opening, inventory
<1> DEFINE t == [at |-> "load", order |-> o]
<1>2. t \in Tasks /\ Goto(w, t)
  BY <1>0, NewTasks DEF Reserved
<1>3. task' \in [Worker -> Tasks] /\ task'[w] = t /\ \A v \in Worker \ {w} : task'[v] = task[v]
  BY <1>1, <1>2, TaskTyped
<1>4. status' = [status EXCEPT ![o] = "PAYMENT_PENDING"]
  BY <1>0 DEF Reserved
<1>5. status'[o] = "PAYMENT_PENDING" /\ \A p \in Order \ {o} : status'[p] = status[p]
  BY <1>1, <1>4 DEF Shapes
<1>6. Shapes' /\ About(o)
  BY <1>1, <1>2, <1>3, <1>4, <1>5 DEF Shapes, About
<1>7. \A v \in Worker : ~Busy(v, o, Opening)' /\ ~Busy(v, o, Settling)'
  BY <1>1, <1>3, WhileOpening DEF Busy, Opening, Settling
<1>8. /\ Delayed(o, Opening) = {} /\ task[w].held \cup task[w].left = Items(o)
      /\ \A s \in task[w].held : hold[o][s] \in {"RESERVED", "COMMITTED"}
  BY <1>0, <1>1 DEF OrderInv, Reserving, Busy, Reserved, At
<1>9. Delayed(o, Opening)' = {} /\ \A s \in Items(o) : hold'[o][s] \in {"RESERVED", "COMMITTED"}
  BY <1>1, <1>8 DEF Reserved, Delayed
<1>10. Committing(o)' /\ Settled(o)'
  BY <1>5, <1>7 DEF Committing, Settled, Busy, Settling
<1>11. OrderInv(o)'
  BY <1>5, <1>7, <1>9, <1>10, StillPaying DEF Paying
<1> QED
  BY <1>6, <1>11, OneOrder

\* A delayed reserve or release comes after its request has failed: what was
\* given back is not taken again, as its reservation is RELEASED by then.
LEMMA ServeOpening ==
  ASSUME SagaInv, NEW o \in Order, NEW c \in late, c.op \in Opening, c.order = o,
         \/ c.op = "reserve" /\ Reserve(o, c.sku)
         \/ c.op = "release" /\ Finish(o, c.sku, "RELEASED"),
         late' = late \ {c}, UNCHANGED <<status, payment, task>>
  PROVE  SagaInv'
<1>1. Shapes /\ OrderInv(o) /\ c \in Delayed(o, Opening)
  BY DEF SagaInv, Delayed
<1>2. c.sku \in Sku
  BY <1>1, CallShape DEF Opening
<1>3. /\ hold' \in Holds
      /\ \A p \in Order, x \in Sku : p # o \/ x # c.sku => hold'[p][x] = hold[p][x]
  BY <1>1, <1>2, ReserveEffect, FinishEffect
<1>4. Shapes' /\ About(o)
  <2>1. Shapes'
    BY <1>1, <1>3 DEF Shapes, Holds
  <2>2. \A p \in Order \ {o} : hold'[p] = hold[p]
    BY <1>1, <1>3 DEF Shapes, Holds
  <2> QED
    BY <2>1, <2>2 DEF About
<1>5. \A x \in Sku : Clean(o, x) => Clean(o, x)'
  <2> SUFFICES ASSUME NEW x \in Sku, Clean(o, x) PROVE Clean(o, x)'
    OBVIOUS
  <2>1. Delayed(o, {"reserve"})' \subseteq Delayed(o, {"reserve"})
    BY DEF Delayed
  <2>2. hold'[o][x] = hold[o][x]
    <3>1. CASE x # c.sku
      BY <1>3, <3>1
    <3>2. CASE x = c.sku /\ c.op = "reserve"
      <4>1. c \in Delayed(o, {"reserve"})
        BY <3>2 DEF Delayed
      <4>2. hold[o][x] = "RELEASED"
        BY <3>2, <4>1 DEF Clean
      <4> QED
        BY <1>1, <1>2, <3>2, <4>2, ReserveEffect DEF Opening
    <3>3. CASE x = c.sku /\ c.op = "release"
      BY <1>1, <1>2, <3>3, FinishEffect DEF Clean
    <3> QED
      BY <3>1, <3>2, <3>3
  <2> QED
    BY <2>1, <2>2 DEF Clean
<1>6. status[o] \notin Paying /\ status[o] # "NONE"
  BY <1>1 DEF OrderInv, InPayment, Unknown
<1>7. \A v \in Worker : ~Busy(v, o, {"reserve"})
  BY <1>1 DEF OrderInv, Reserving
<1>8. OpenedOnce(o)' /\ Reserving(o)'
  BY <1>1, <1>7 DEF OrderInv, OpenedOnce, Reserving, Busy
<1>9. Releasing(o)' /\ FailedIsClean(o)'
  BY <1>1, <1>5 DEF OrderInv, Releasing, FailedIsClean, Busy
<1>10. payment[o] = "NONE" /\ Delayed(o, Settling \cup {"refund"}) = {}
       /\ \A v \in Worker : ~Busy(v, o, Settling)
  BY <1>1, <1>6 DEF OrderInv, InPayment
<1>11. InPayment(o)'
  BY <1>6, <1>10 DEF InPayment, Delayed, Busy
<1>12. Committing(o)'
  BY <1>10 DEF Committing, Busy, Settling
<1>13. Unknown(o)' /\ Settled(o)'
  BY <1>6 DEF Unknown, Settled, Paying
<1> QED
  BY <1>4, <1>8, <1>9, <1>11, <1>12, <1>13, OneOrder DEF OrderInv

\* Any other delayed call is about an order in payment.
LEMMA ServeSettling ==
  ASSUME SagaInv, NEW o \in Order, NEW c \in late, c.op \notin Opening, c.order = o,
         \/ c.op = "commit" /\ Finish(o, c.sku, "COMMITTED") /\ UNCHANGED payment
         \/ Save(o) /\ UNCHANGED inventory
         \/ Update(o, "CAPTURED") /\ UNCHANGED inventory
         \/ Update(o, "REFUNDED") /\ UNCHANGED inventory
         \/ UNCHANGED <<inventory, payment>>,
         late' \subseteq late \cup {PayCall(o, "capture")}, UNCHANGED <<status, task>>
  PROVE  SagaInv'
<1>1. Shapes /\ OrderInv(o)
  BY DEF SagaInv
<1>2. c \in Delayed(o, Settling \cup {"refund"})
  BY <1>1, CallShape DEF Delayed
<1>3. status[o] \in Paying
  BY <1>1, <1>2 DEF OrderInv, InPayment
<1>4. /\ payment' \in Payments /\ \A p \in Order \ {o} : payment'[p] = payment[p]
      /\ Captured(o) => Captured(o)'
  BY <1>1, PaymentEffect, ShapesMeans DEF Captured
<1>5. /\ hold' \in Holds /\ \A p \in Order \ {o}, x \in Sku : hold'[p][x] = hold[p][x]
      /\ \A x \in Sku : hold'[o][x] = hold[o][x] \/ hold'[o][x] = "COMMITTED"
  <2>1. CASE c.op = "commit" /\ Finish(o, c.sku, "COMMITTED")
    <3>1. c.sku \in Sku
      BY <1>1, <2>1, CallShape
    <3> QED
      BY <1>1, <2>1, <3>1, FinishEffect
  <2>2. CASE UNCHANGED inventory
    BY <1>1, <2>2, ShapesMeans DEF inventory
  <2> QED
    BY <2>1, <2>2
<1>6. PayCall(o, "capture") \in Calls
  BY NewCalls
<1>7. Shapes' /\ About(o)
  <2>1. Shapes'
    BY <1>1, <1>4, <1>5, <1>6 DEF Shapes, Holds, Payments
  <2>2. \A p \in Order \ {o} : hold'[p] = hold[p]
    BY <1>1, <1>5 DEF Shapes, Holds
  <2> QED
    BY <1>4, <2>1, <2>2 DEF About, PayCall
<1>8. Committing(o) => Committing(o)'
  BY <1>4, <1>5 DEF Committing, Busy, Items
<1>9. Settled(o) => Settled(o)'
  BY <1>4, <1>5 DEF Settled, Items
<1>10. \A x \in Items(o) : hold[o][x] \in {"RESERVED", "COMMITTED"} =>
                             hold'[o][x] \in {"RESERVED", "COMMITTED"}
  BY <1>5 DEF Items
<1> QED
  BY <1>3, <1>7, <1>8, <1>9, <1>10, PayingStep DEF PayCall, Opening

LEMMA StepServeLate ==
  ASSUME SagaInv, NEW c \in late, ServeLate(c) PROVE SagaInv'
<1>0. PICK o \in Order : o = c.order
  BY CallShape DEF SagaInv
<1>1. CASE c.op \in Opening
  <2>1. /\ UNCHANGED <<status, payment, task>> /\ late' = late \ {c}
        /\ \/ c.op = "reserve" /\ Reserve(o, c.sku)
           \/ c.op = "release" /\ Finish(o, c.sku, "RELEASED")
    BY <1>0, <1>1 DEF ServeLate, Opening
  <2> QED
    BY <1>0, <1>1, <2>1, ServeOpening
<1>2. CASE c.op \notin Opening
  <2>1. /\ UNCHANGED <<status, task>> /\ late' \subseteq late \cup {PayCall(o, "capture")}
    BY <1>0 DEF ServeLate
  <2>2. \/ c.op = "commit" /\ Finish(o, c.sku, "COMMITTED") /\ UNCHANGED payment
        \/ Save(o) /\ UNCHANGED inventory
        \/ Update(o, "CAPTURED") /\ UNCHANGED inventory
        \/ Update(o, "REFUNDED") /\ UNCHANGED inventory
        \/ UNCHANGED <<inventory, payment>>
    BY <1>0, <1>2 DEF ServeLate, Opening
  <2> QED
    BY <1>0, <1>2, <2>1, <2>2, ServeSettling
<1> QED
  BY <1>1, <1>2

-----------------------------------------------------------------------------
\* No order exists at the start.
LEMMA SagaInit == Init => SagaInv
<1> SUFFICES ASSUME Init PROVE SagaInv
  OBVIOUS
<1>1. Shapes
  BY DEF Init, Shapes, Tasks
<1>2. ASSUME NEW o \in Order PROVE OrderInv(o)
  <2>1. /\ status[o] = "NONE" /\ payment[o] = "NONE" /\ \A s \in Sku : hold[o][s] = "NONE"
        /\ late = {} /\ \A w \in Worker : task[w].at = "idle"
    BY DEF Init, Idle
  <2>2. \A w \in Worker : ~Busy(w, o, Opening) /\ ~Busy(w, o, Settling)
                          /\ ~Busy(w, o, {"reserve"}) /\ ~Busy(w, o, {"release"})
                          /\ ~Busy(w, o, {"commit"})
    BY <2>1 DEF Busy, Opening, Settling
  <2>3. \A ops : Delayed(o, ops) = {}
    BY <2>1 DEF Delayed
  <2>4. Unknown(o) /\ OpenedOnce(o) /\ Reserving(o) /\ Releasing(o) /\ Committing(o)
    BY <2>1, <2>2 DEF Unknown, OpenedOnce, Reserving, Releasing, Committing
  <2>5. FailedIsClean(o) /\ InPayment(o) /\ Settled(o)
    BY <2>1, <2>2, <2>3 DEF FailedIsClean, InPayment, Paying, Settled
  <2> QED
    BY <2>4, <2>5 DEF OrderInv
<1> QED
  BY <1>1, <1>2 DEF SagaInv

LEMMA SagaStutter == SagaInv /\ UNCHANGED vars => SagaInv'
<1> SUFFICES ASSUME SagaInv, UNCHANGED vars PROVE SagaInv'
  OBVIOUS
<1>1. UNCHANGED <<status, hold, payment, task, late>>
  BY DEF vars, inventory
<1>2. Shapes'
  BY <1>1 DEF SagaInv, Shapes
<1>3. ASSUME NEW p \in Order PROVE OrderInv(p)'
  <2>1. OrderInv(p)
    BY DEF SagaInv
  <2>2. Unknown(p)'
    BY <1>1, <2>1 DEF OrderInv, Unknown
  <2> QED
    BY <1>1, <2>1, <2>2, Unmoved
<1> QED
  BY <1>2, <1>3 DEF SagaInv

\* Every step keeps the invariant, whatever it is interleaved with.
LEMMA SagaStep == ASSUME LimitAssumption PROVE SagaInv /\ [Next]_vars => SagaInv'
<1> SUFFICES ASSUME SagaInv, [Next]_vars PROVE SagaInv'
  OBVIOUS
<1>1. ASSUME NEW w \in Worker, Handle(w) \/ Stop(w) PROVE SagaInv'
  <2>1. ReserveItem(w) \/ ReleaseItem(w) \/ Compensated(w) \/ Reserved(w) => SagaInv'
    BY StepReserveItem, StepReleaseItem, StepCompensated, StepReserved
  <2>2. Load(w) \/ Pay(w) \/ Confirm(w) \/ Capture(w) => SagaInv'
    BY StepLoad, StepPay, StepConfirm, StepCapture
  <2>3. CommitItem(w) \/ Paid(w) \/ Stop(w) => SagaInv'
    BY StepCommitItem, StepPaid, StepStop
  <2> QED
    BY <1>1, <2>1, <2>2, <2>3 DEF Handle
<1>2. ASSUME NEW w \in Worker, NEW o \in Order, PostOrder(w, o) \/ PostReconcile(w, o)
      PROVE  SagaInv'
  BY <1>2, StepPostOrder, StepPostReconcile
<1>3. ASSUME NEW o \in Order, Cancel(o) \/ RefundRequested(o) PROVE SagaInv'
  BY <1>3, StepCancel, StepRefundRequested
<1>4. ASSUME NEW c \in late, ServeLate(c) PROVE SagaInv'
  BY <1>4, StepServeLate
<1>5. CASE UNCHANGED vars
  BY <1>5, SagaStutter
<1> QED
  BY <1>1, <1>2, <1>3, <1>4, <1>5 DEF Next

LEMMA SagaMeans == SagaInv => StatusIsTrue
<1> SUFFICES ASSUME SagaInv PROVE StatusIsTrue
  OBVIOUS
<1>1. \A o \in Order : OrderInv(o)
  BY DEF SagaInv
<1>2. FailedHoldsNothing
  BY <1>1 DEF OrderInv, FailedIsClean, Clean, FailedHoldsNothing
<1>3. PaymentHasStock
  BY <1>1 DEF OrderInv, InPayment, Paying, PaymentHasStock
<1>4. PaidIsSettled
  BY <1>1 DEF OrderInv, Settled, Captured, PaidIsSettled
<1> QED
  BY <1>2, <1>3, <1>4 DEF StatusIsTrue

\* In every reachable state an order's status says the truth about its stock
\* and its payment, for any number of orders, SKUs, request threads, payment
\* attempts and delayed calls (OrderService.create, reconcile and the servers
\* it calls).
THEOREM StatusKept == LimitAssumption => (Spec => []StatusIsTrue)
<1> SUFFICES ASSUME LimitAssumption PROVE Spec => []StatusIsTrue
  OBVIOUS
<1>1. Init => SagaInv
  BY SagaInit
<1>2. SagaInv /\ [Next]_vars => SagaInv'
  BY SagaStep
<1>3. SagaInv => StatusIsTrue
  BY SagaMeans
<1> QED
  BY <1>1, <1>2, <1>3, PTL DEF Spec

-----------------------------------------------------------------------------
\* Neither handler of payment-service moves a refunded row.
LEMMA RefundStays ==
  ASSUME Shapes, NEW o \in Order, NEW p \in Order, payment[p] = "REFUNDED",
         Save(o) \/ Update(o, "CAPTURED") \/ Update(o, "REFUNDED") \/ UNCHANGED payment
  PROVE  payment'[p] = "REFUNDED"
  BY PaymentEffect

LEMMA RefundStep ==
  ASSUME SagaInv, [Next]_vars, NEW p \in Order, payment[p] = "REFUNDED"
  PROVE  payment'[p] = "REFUNDED"
<1>1. Shapes
  BY DEF SagaInv
<1>2. ASSUME NEW w \in Worker, Handle(w) PROVE payment'[p] = "REFUNDED"
  <2>1. CASE Pay(w)
    <3>1. task[w].order \in Order
      BY <1>1, <2>1, TaskShape DEF Pay, At
    <3> QED
      BY <1>1, <2>1, <3>1, RefundStays DEF Pay
  <2>2. CASE Capture(w)
    <3>1. task[w].order \in Order
      BY <1>1, <2>2, TaskShape DEF Capture, At
    <3> QED
      BY <1>1, <2>2, <3>1, RefundStays DEF Capture
  <2>3. CASE ReserveItem(w) \/ ReleaseItem(w) \/ Compensated(w) \/ Reserved(w)
             \/ Load(w) \/ Confirm(w) \/ CommitItem(w) \/ Paid(w)
    <3>1. UNCHANGED payment
      BY <2>3 DEF ReserveItem, ReleaseItem, Compensated, Reserved, Load, Confirm,
                  CommitItem, Paid
    <3> QED
      BY <3>1
  <2> QED
    BY <1>2, <2>1, <2>2, <2>3 DEF Handle
<1>3. ASSUME NEW c \in late, ServeLate(c) PROVE payment'[p] = "REFUNDED"
  <2>1. c.order \in Order
    BY <1>1, CallShape
  <2> QED
    BY <1>1, <1>3, <2>1, RefundStays DEF ServeLate
<1>4. CASE UNCHANGED payment
  BY <1>4
<1>5. \/ \E w \in Worker : Handle(w)
      \/ \E c \in late : ServeLate(c)
      \/ UNCHANGED payment
  BY DEF Next, Stop, PostOrder, PostReconcile, Cancel, RefundRequested, vars
<1> QED
  BY <1>2, <1>3, <1>4, <1>5

\* A refund is never undone, whatever handler read the row before it
\* (PaymentService: UPDATE ... WHERE status IN ('AUTHORIZED','CAPTURED')).
THEOREM RefundKept == LimitAssumption => (Spec => RefundIsFinal)
<1> SUFFICES ASSUME LimitAssumption PROVE Spec => RefundIsFinal
  OBVIOUS
<1>1. Init => SagaInv
  BY SagaInit
<1>2. SagaInv /\ [Next]_vars => SagaInv'
  BY SagaStep
<1>3. SagaInv /\ [Next]_vars =>
        [\A o \in Order : payment[o] = "REFUNDED" => payment'[o] = "REFUNDED"]_vars
  BY RefundStep
<1> QED
  BY <1>1, <1>2, <1>3, PTL DEF Spec, RefundIsFinal

-----------------------------------------------------------------------------
(* The stock: how much of it is held is a sum over the orders.              *)

\* Held in the reservations h, and its summands.
HeldIn(h, s, states) ==
  MapThenSumSet(LAMBDA o : IF h[o][s] \in states THEN Want[o][s] ELSE 0, Order)
Parts(h, s, states) == [o \in Order |-> IF h[o][s] \in states THEN Want[o][s] ELSE 0]

LEMMA HeldIsSum ==
  ASSUME NEW h, NEW s, NEW states
  PROVE  HeldIn(h, s, states) = Sum(Parts(h, s, states), Order)
<1> DEFINE f == Parts(h, s, states)
           Q(g) == g = [t \in SUBSET Order |->
                IF t = {} THEN 0
                ELSE (IF h[Chosen(t)][s] \in states THEN Want[Chosen(t)][s] ELSE 0) + g[t \ {Chosen(t)}]]
<1>1. ASSUME NEW g PROVE Q(g) <=> Counts(g, f, Order)
  <2>1. \A t \in SUBSET Order : t # {} =>
          f[Chosen(t)] = IF h[Chosen(t)][s] \in states THEN Want[Chosen(t)][s] ELSE 0
    BY ChosenIn DEF Parts
  <2> HIDE DEF f
  <2>2. \A t \in SUBSET Order :
         (IF t = {} THEN 0 ELSE f[Chosen(t)] + g[t \ {Chosen(t)}])
         = IF t = {} THEN 0
                ELSE (IF h[Chosen(t)][s] \in states THEN Want[Chosen(t)][s] ELSE 0) + g[t \ {Chosen(t)}]
    BY <2>1
  <2> QED
    BY <2>2 DEF Counts
<1>2. HeldIn(h, s, states) = (CHOOSE g : Q(g))[Order]
  BY DEF HeldIn, MapThenSumSet, MapThenFoldSet, Chosen
<1>3. (CHOOSE g : Q(g)) = (CHOOSE g : Counts(g, f, Order))
  <2> HIDE DEF Q, f
  <2> QED
  BY <1>1
<1> QED
  BY <1>2, <1>3 DEF Sum

\* The sum in this state and in the next.
LEMMA HeldNow ==
  ASSUME NEW s, NEW states
  PROVE  /\ Held(s, states) = Sum(Parts(hold, s, states), Order)
         /\ Held(s, states)' = Sum(Parts(hold', s, states), Order)
<1>1. Held(s, states) = HeldIn(hold, s, states) /\ Held(s, states)' = HeldIn(hold', s, states)
  BY DEF Held, HeldIn, MapThenSumSet, MapThenFoldSet
<1> QED
  BY <1>1, HeldIsSum

\* What a change of one reservation, from u to v, does to what is held.
HeldGoes(o, s, u, v, states) ==
  /\ Held(s, states) \in Nat /\ Held(s, states)' \in Nat
  /\ Held(s, states)' + (IF u \in states THEN Want[o][s] ELSE 0)
       = Held(s, states) + (IF v \in states THEN Want[o][s] ELSE 0)
  /\ \A t \in Sku \ {s} : Held(t, states)' = Held(t, states)

LEMMA HeldMoves ==
  ASSUME OrderAssumption, WantAssumption, hold \in Holds, NEW o \in Order, NEW s \in Sku,
         NEW v \in {"NONE", "RESERVED", "RELEASED", "COMMITTED"},
         hold' = [hold EXCEPT ![o][s] = v], NEW states
  PROVE  HeldGoes(o, s, hold[o][s], v, states)
<1>1. hold' \in Holds /\ hold'[o][s] = v
      /\ \A p \in Order, t \in Sku : p # o \/ t # s => hold'[p][t] = hold[p][t]
  BY DEF Holds
<1>2. ASSUME NEW t, NEW c
      PROVE  /\ Held(t, c) = Sum(Parts(hold, t, c), Order)
             /\ Held(t, c)' = Sum(Parts(hold', t, c), Order)
  BY HeldNow
<1>4. ASSUME NEW t \in Sku \ {s} PROVE Held(t, states)' = Held(t, states)
  <2>1. Parts(hold', t, states) = Parts(hold, t, states)
    BY <1>1 DEF Parts
  <2> QED
    BY <1>2, <2>1
<1> DEFINE f == Parts(hold, s, states)
           h == Parts(hold', s, states)
<1>5. f \in [Order -> Nat] /\ h \in [Order -> Nat]
  BY DEF Parts, WantAssumption
<1>6. \A p \in Order \ {o} : h[p] = f[p]
  BY <1>1 DEF Parts
<1>7. /\ f[o] = IF hold[o][s] \in states THEN Want[o][s] ELSE 0
      /\ h[o] = IF v \in states THEN Want[o][s] ELSE 0
  BY <1>1 DEF Parts
<1> HIDE DEF f, h
<1>8. Sum(f, Order) \in Nat /\ Sum(h, Order) \in Nat /\ Sum(h, Order) + f[o] = Sum(f, Order) + h[o]
  BY <1>5, <1>6, SumChanges DEF OrderAssumption
<1>9. Held(s, states) = Sum(f, Order) /\ Held(s, states)' = Sum(h, Order)
  BY <1>2 DEF f, h
<1> QED
  BY <1>4, <1>7, <1>8, <1>9 DEF HeldGoes

StockInv == available \in [Sku -> Nat] /\ reserved \in [Sku -> Nat] /\ StockAccounted

LEMMA StockSame == ASSUME StockInv, UNCHANGED inventory PROVE StockInv'
<1>1. \A s, c : Held(s, c)' = Held(s, c)
  BY HeldNow DEF inventory
<1> QED
  BY <1>1 DEF inventory, StockInv, StockAccounted

\* The stock of the SKU a step is about, and of the others.
LEMMA OneSku ==
  ASSUME StockInv, NEW s \in Sku, NEW a \in Nat, NEW r \in Nat,
         available' = [available EXCEPT ![s] = a], reserved' = [reserved EXCEPT ![s] = r],
         \A t \in Sku \ {s}, c \in {{"RESERVED"}, {"RESERVED", "COMMITTED"}} : Held(t, c)' = Held(t, c),
         r = Held(s, {"RESERVED"})', a + Held(s, {"RESERVED", "COMMITTED"})' = Stock[s]
  PROVE  StockInv'
<1>1. available' \in [Sku -> Nat] /\ reserved' \in [Sku -> Nat]
  BY DEF StockInv
<1>2. ASSUME NEW t \in Sku
      PROVE  /\ reserved'[t] = Held(t, {"RESERVED"})'
             /\ available'[t] + Held(t, {"RESERVED", "COMMITTED"})' = Stock[t]
  <2>1. CASE t = s
    BY <2>1 DEF StockInv
  <2>2. CASE t # s
    BY <2>2 DEF StockInv, StockAccounted
  <2> QED
    BY <2>1, <2>2
<1> QED
  BY <1>1, <1>2 DEF StockInv, StockAccounted

\* A reservation takes what is available, and nothing when it is known.
LEMMA StockReserve ==
  ASSUME OrderAssumption, WantAssumption, Shapes, StockInv,
         NEW o \in Order, NEW s \in Sku, Reserve(o, s)
  PROVE  StockInv'
<1> DEFINE R == {"RESERVED"}
           B == {"RESERVED", "COMMITTED"}
           W == Want[o][s]
<1>1. CASE hold[o][s] = "NONE" /\ available[s] >= W
  <2>1. /\ available' = [available EXCEPT ![s] = available[s] - W]
        /\ reserved' = [reserved EXCEPT ![s] = reserved[s] + W]
        /\ hold' = [hold EXCEPT ![o][s] = "RESERVED"]
    BY <1>1 DEF Reserve
  <2>2. hold \in Holds
    BY DEF Shapes, Holds
  <2>3. /\ Held(s, R) \in Nat /\ Held(s, R)' \in Nat /\ Held(s, R)' + 0 = Held(s, R) + W
        /\ \A t \in Sku \ {s} : Held(t, R)' = Held(t, R)
    <3>1. HeldGoes(o, s, hold[o][s], "RESERVED", R)
      BY <2>1, <2>2, HeldMoves
    <3> QED
      BY <1>1, <3>1 DEF HeldGoes
  <2>4. /\ Held(s, B) \in Nat /\ Held(s, B)' \in Nat /\ Held(s, B)' + 0 = Held(s, B) + W
        /\ \A t \in Sku \ {s} : Held(t, B)' = Held(t, B)
    <3>1. HeldGoes(o, s, hold[o][s], "RESERVED", B)
      BY <2>1, <2>2, HeldMoves
    <3> QED
      BY <1>1, <3>1 DEF HeldGoes
  <2>5. /\ available[s] \in Nat /\ reserved[s] \in Nat /\ W \in Nat
        /\ reserved[s] = Held(s, R) /\ available[s] + Held(s, B) = Stock[s]
    BY DEF StockInv, StockAccounted, WantAssumption
  <2>6. /\ available[s] - W \in Nat /\ reserved[s] + W \in Nat
        /\ reserved[s] + W = Held(s, R)'
        /\ available[s] - W + Held(s, B)' = Stock[s]
    BY <1>1, <2>3, <2>4, <2>5
  <2> QED
    BY <2>1, <2>3, <2>4, <2>6, OneSku
<1>2. CASE ~(hold[o][s] = "NONE" /\ available[s] >= W)
  <2>1. UNCHANGED inventory
    BY <1>2 DEF Reserve
  <2> QED
    BY <2>1, StockSame
<1> QED
  BY <1>1, <1>2

\* Only what is reserved is given back or sold.
LEMMA StockFinish ==
  ASSUME OrderAssumption, WantAssumption, Shapes, StockInv,
         NEW o \in Order, NEW s \in Sku, NEW target \in {"RELEASED", "COMMITTED"},
         Finish(o, s, target)
  PROVE  StockInv'
<1> DEFINE R == {"RESERVED"}
           B == {"RESERVED", "COMMITTED"}
           W == Want[o][s]
           back == IF target = "RELEASED" THEN W ELSE 0
<1>1. CASE hold[o][s] = "RESERVED"
  <2>1. /\ available \in [Sku -> Nat] /\ available[s] \in Nat /\ reserved[s] \in Nat /\ W \in Nat
        /\ reserved[s] = Held(s, R) /\ available[s] + Held(s, B) = Stock[s]
    BY DEF StockInv, StockAccounted, WantAssumption
  <2>2. /\ reserved' = [reserved EXCEPT ![s] = reserved[s] - W]
        /\ hold' = [hold EXCEPT ![o][s] = target]
    BY <1>1 DEF Finish
  <2>3. available' = [available EXCEPT ![s] = available[s] + back]
    BY <1>1, <2>1 DEF Finish
  <2>4. hold \in Holds
    BY DEF Shapes, Holds
  <2>5. /\ Held(s, R) \in Nat /\ Held(s, R)' \in Nat /\ Held(s, R)' + W = Held(s, R) + 0
        /\ \A t \in Sku \ {s} : Held(t, R)' = Held(t, R)
    <3>1. HeldGoes(o, s, hold[o][s], target, R)
      BY <2>2, <2>4, HeldMoves
    <3> QED
      BY <1>1, <3>1 DEF HeldGoes
  <2>6. /\ Held(s, B) \in Nat /\ Held(s, B)' \in Nat
        /\ Held(s, B)' + W = Held(s, B) + IF target \in B THEN W ELSE 0
        /\ \A t \in Sku \ {s} : Held(t, B)' = Held(t, B)
    <3>1. HeldGoes(o, s, hold[o][s], target, B)
      BY <2>2, <2>4, HeldMoves
    <3> QED
      BY <1>1, <3>1 DEF HeldGoes
  <2>7. back \in Nat /\ Held(s, B)' + back = Held(s, B)
    BY <2>1, <2>6
  <2> HIDE DEF back
  <2>8. /\ available[s] + back \in Nat /\ reserved[s] - W \in Nat
        /\ reserved[s] - W = Held(s, R)'
        /\ available[s] + back + Held(s, B)' = Stock[s]
    BY <2>1, <2>5, <2>6, <2>7
  <2> QED
    BY <2>2, <2>3, <2>5, <2>6, <2>8, OneSku
<1>2. CASE hold[o][s] # "RESERVED"
  <2>1. UNCHANGED inventory
    BY <1>2 DEF Finish
  <2> QED
    BY <2>1, StockSame
<1> QED
  BY <1>1, <1>2

LEMMA StockStep ==
  ASSUME OrderAssumption, WantAssumption, SagaInv, StockInv, [Next]_vars
  PROVE  StockInv'
<1>1. Shapes
  BY DEF SagaInv
<1>2. ASSUME NEW w \in Worker, Handle(w) PROVE StockInv'
  <2>1. CASE ReserveItem(w)
    <3>1. PICK s \in task[w].left : Reserve(task[w].order, s) \/ UNCHANGED inventory
      BY <2>1 DEF ReserveItem
    <3>2. task[w].order \in Order /\ s \in Sku
      BY <1>1, <2>1, TaskShape DEF ReserveItem, At
    <3>3. CASE Reserve(task[w].order, s)
      BY <1>1, <3>2, <3>3, StockReserve
    <3>4. CASE UNCHANGED inventory
      BY <3>4, StockSame
    <3> QED
      BY <3>1, <3>3, <3>4
  <2>2. CASE ReleaseItem(w)
    <3>1. PICK s \in task[w].left : Finish(task[w].order, s, "RELEASED") \/ UNCHANGED inventory
      BY <2>2 DEF ReleaseItem
    <3>2. task[w].order \in Order /\ s \in Sku
      BY <1>1, <2>2, TaskShape DEF ReleaseItem, At
    <3>3. CASE Finish(task[w].order, s, "RELEASED")
      BY <1>1, <3>2, <3>3, StockFinish
    <3>4. CASE UNCHANGED inventory
      BY <3>4, StockSame
    <3> QED
      BY <3>1, <3>3, <3>4
  <2>3. CASE CommitItem(w)
    <3>1. PICK s \in task[w].left : Finish(task[w].order, s, "COMMITTED") \/ UNCHANGED inventory
      BY <2>3 DEF CommitItem
    <3>2. task[w].order \in Order /\ s \in Sku
      BY <1>1, <2>3, TaskShape DEF CommitItem, At
    <3>3. CASE Finish(task[w].order, s, "COMMITTED")
      BY <1>1, <3>2, <3>3, StockFinish
    <3>4. CASE UNCHANGED inventory
      BY <3>4, StockSame
    <3> QED
      BY <3>1, <3>3, <3>4
  <2>4. CASE Compensated(w) \/ Reserved(w) \/ Load(w) \/ Pay(w) \/ Confirm(w) \/ Capture(w) \/ Paid(w)
    <3>1. UNCHANGED inventory
      BY <2>4 DEF Compensated, Reserved, Load, Pay, Confirm, Capture, Paid
    <3> QED
      BY <3>1, StockSame
  <2> QED
    BY <1>2, <2>1, <2>2, <2>3, <2>4 DEF Handle
<1>3. ASSUME NEW c \in late, ServeLate(c) PROVE StockInv'
  <2>1. c.order \in Order /\ (c.op \in {"reserve", "release", "commit"} => c.sku \in Sku)
    BY <1>1, CallShape
  <2>2. CASE c.op = "reserve" /\ Reserve(c.order, c.sku)
    BY <1>1, <2>1, <2>2, StockReserve
  <2>3. CASE c.op = "release" /\ Finish(c.order, c.sku, "RELEASED")
    BY <1>1, <2>1, <2>3, StockFinish
  <2>4. CASE c.op = "commit" /\ Finish(c.order, c.sku, "COMMITTED")
    BY <1>1, <2>1, <2>4, StockFinish
  <2>5. CASE UNCHANGED inventory
    BY <2>5, StockSame
  <2> QED
    BY <1>3, <2>2, <2>3, <2>4, <2>5 DEF ServeLate
<1>4. CASE UNCHANGED inventory
  BY <1>4, StockSame
<1>5. \/ \E w \in Worker : Handle(w)
      \/ \E c \in late : ServeLate(c)
      \/ UNCHANGED inventory
  BY DEF Next, Stop, PostOrder, PostReconcile, Cancel, RefundRequested, vars
<1> QED
  BY <1>2, <1>3, <1>4, <1>5

LEMMA StockInit ==
  ASSUME OrderAssumption, WantAssumption, StockAssumption, Init PROVE StockInv
<1>1. /\ available = Stock /\ reserved = [s \in Sku |-> 0]
      /\ hold = [o \in Order |-> [s \in Sku |-> "NONE"]]
  BY DEF Init
<1>2. ASSUME NEW s \in Sku, NEW states, "NONE" \notin states PROVE Held(s, states) = 0
  <2> DEFINE f == Parts(hold, s, states)
  <2>1. f \in [Order -> Nat] /\ \A o \in Order : f[o] = 0
    BY <1>1, <1>2 DEF Parts
  <2> HIDE DEF f
  <2>2. Sum(f, Order) = 0
    BY <2>1, SumIsZero DEF OrderAssumption
  <2> QED
    BY <2>2, HeldNow DEF f
<1>3. ASSUME NEW s \in Sku
      PROVE  /\ reserved[s] = Held(s, {"RESERVED"})
             /\ available[s] + Held(s, {"RESERVED", "COMMITTED"}) = Stock[s]
  <2>1. Held(s, {"RESERVED"}) = 0 /\ Held(s, {"RESERVED", "COMMITTED"}) = 0
    BY <1>2
  <2> QED
    BY <1>1, <2>1 DEF StockAssumption
<1> QED
  BY <1>1, <1>3 DEF StockInv, StockAccounted, StockAssumption

LEMMA StockMeans == Shapes /\ StockInv => TypeOK /\ StockAccounted
  BY DEF Shapes, StockInv, TypeOK

\* No unit of stock is lost or counted twice by retries, late calls and
\* compensation, and neither the available nor the reserved stock becomes
\* negative, for any finite set of orders (MemoryRepository.reserve, finish).
THEOREM StockKept ==
  OrderAssumption /\ WantAssumption /\ StockAssumption /\ LimitAssumption
    => (Spec => [](TypeOK /\ StockAccounted))
<1> SUFFICES ASSUME OrderAssumption, WantAssumption, StockAssumption, LimitAssumption
             PROVE  Spec => [](TypeOK /\ StockAccounted)
  OBVIOUS
<1>1. Init => SagaInv /\ StockInv
  BY SagaInit, StockInit
<1>2. SagaInv /\ StockInv /\ [Next]_vars => SagaInv' /\ StockInv'
  BY SagaStep, StockStep
<1>3. SagaInv /\ StockInv => TypeOK /\ StockAccounted
  BY StockMeans DEF SagaInv
<1> QED
  BY <1>1, <1>2, <1>3, PTL DEF Spec
=============================================================================
