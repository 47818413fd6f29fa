------------------------------ MODULE OrderSaga ------------------------------
(***************************************************************************)
(* The order saga of the lab commerce system (sre-broken-system): order-   *)
(* service reserves stock at inventory-service, takes the payment at       *)
(* payment-service, commits the stock and marks the order PAID, each step  *)
(* an HTTP call with a timeout and no transaction around them              *)
(* (docs/lab-commerce.md).                                                 *)
(*                                                                         *)
(* A call is answered, or it times out.  A call that timed out may still   *)
(* be executed by the server at any later moment, or never: it waits in    *)
(* late.  A call whose answer is lost is one that is executed right after  *)
(* its caller gave up.                                                     *)
(*                                                                         *)
(* Simplifications:                                                        *)
(*  - reading the user's status, the prices, notifications and the fault   *)
(*    switches change nothing here and are left out; a fault is a timeout; *)
(*  - inventory-service answers after its snapshot is on disk and undoes a *)
(*    change it could not save, under one lock: a restart brings back the  *)
(*    stock every answer told of, so its calls are atomic and durable;     *)
(*  - a stop of order-service ends its requests one at a time, which       *)
(*    allows more interleavings than ending them together.                 *)
(***************************************************************************)
EXTENDS Integers, FiniteSets, FiniteSetsExt

CONSTANTS Order,        \* identifiers that AUTO_INCREMENT hands out
          Sku,
          Want,         \* quantity of each SKU in each order, 0 when not in it
          Stock,        \* available stock of each SKU at the start
          Worker,       \* request threads of order-service
          PayAttempts,  \* 1, or 3 in the retry fault modes
          MaxLate       \* bound: calls and handlers nobody waits for any more

\* What an instance gives; asserted where it is checked.
OrderAssumption == IsFiniteSet(Order)  \* an integer column
WantAssumption == Want \in [Order -> [Sku -> Nat]]
StockAssumption == Stock \in [Sku -> Nat]
LimitAssumption == PayAttempts \in Nat \ {0} /\ MaxLate \in Nat

VARIABLES status,     \* orders.status; "NONE" before the row exists
          available, reserved,  \* Stock of each SKU
          hold,       \* state of reservation order-<id>-<sku>
          payment,    \* payments.status of the row with key order-<id>
          task,       \* what each request thread is doing
          late        \* calls under way that nobody waits for

inventory == <<available, reserved, hold>>
vars == <<status, inventory, payment, task, late>>

Items(o) == {s \in Sku : Want[o][s] > 0}

Idle == [at |-> "idle"]
Tasks ==
  {Idle}
    \cup [at : {"reserve"}, order : Order, left : SUBSET Sku, held : SUBSET Sku]
    \cup [at : {"release"}, order : Order, left : SUBSET Sku, released : BOOLEAN]
    \cup [at : {"load", "confirm", "capture"}, order : Order]
    \cup [at : {"pay"}, order : Order, attempts : 1..PayAttempts]
    \cup [at : {"commit"}, order : Order, left : SUBSET Sku]
Calls ==
  [op : {"reserve", "release", "commit"}, order : Order, sku : Sku]
    \cup [op : {"pay", "confirm", "capture", "refund"}, order : Order]

Init ==
  /\ status = [o \in Order |-> "NONE"]
  /\ available = Stock /\ reserved = [s \in Sku |-> 0]
  /\ hold = [o \in Order |-> [s \in Sku |-> "NONE"]]
  /\ payment = [o \in Order |-> "NONE"]
  /\ task = [w \in Worker |-> Idle] /\ late = {}
-----------------------------------------------------------------------------
(* inventory-service: MemoryRepository under its mutex.                    *)

\* An existing reservation answers again, unless it was RELEASED.
ReserveAccepts(o, s) ==
  \/ hold[o][s] \in {"RESERVED", "COMMITTED"}
  \/ hold[o][s] = "NONE" /\ available[s] >= Want[o][s]

Reserve(o, s) ==
  IF hold[o][s] = "NONE" /\ available[s] >= Want[o][s]
  THEN /\ available' = [available EXCEPT ![s] = @ - Want[o][s]]
       /\ reserved' = [reserved EXCEPT ![s] = @ + Want[o][s]]
       /\ hold' = [hold EXCEPT ![o][s] = "RESERVED"]
  ELSE UNCHANGED inventory

\* An unknown reservation and the other final state are refused.
FinishAccepts(o, s, target) == hold[o][s] \in {"RESERVED", target}

\* Mutant: a known reservation is finished again by every call.
FinishEachTime(o, s, target) ==
  IF hold[o][s] # "NONE"
  THEN /\ reserved' = [reserved EXCEPT ![s] = @ - Want[o][s]]
       /\ available' = IF target = "RELEASED"
                       THEN [available EXCEPT ![s] = @ + Want[o][s]] ELSE available
       /\ hold' = [hold EXCEPT ![o][s] = target]
  ELSE UNCHANGED inventory

Finish(o, s, target) ==
  IF hold[o][s] = "RESERVED"
  THEN /\ reserved' = [reserved EXCEPT ![s] = @ - Want[o][s]]
       /\ available' = IF target = "RELEASED"
                       THEN [available EXCEPT ![s] = @ + Want[o][s]] ELSE available
       /\ hold' = [hold EXCEPT ![o][s] = target]
  ELSE UNCHANGED inventory
-----------------------------------------------------------------------------
(* payment-service: each handler reads the row and then updates it.        *)

\* INSERT ... ON DUPLICATE KEY UPDATE id = id: the first call creates the row.
Save(o) == payment' = [payment EXCEPT ![o] = IF @ = "NONE" THEN "AUTHORIZED" ELSE @]

\* Mutant: the handler trusts the status it has read.
UpdateUnguarded(o, new) == payment' = [payment EXCEPT ![o] = new]

\* UPDATE ... WHERE status IN ('AUTHORIZED','CAPTURED')
Update(o, new) ==
  payment' = [payment EXCEPT ![o] = IF @ \in {"AUTHORIZED", "CAPTURED"} THEN new ELSE @]

\* A client asks for a refund; its handler has read the row.
RefundRequested(o) ==
  /\ payment[o] \in {"AUTHORIZED", "CAPTURED"} /\ Cardinality(late) < MaxLate
  /\ late' = late \cup {[op |-> "refund", order |-> o]}
  /\ UNCHANGED <<status, inventory, payment, task>>
-----------------------------------------------------------------------------
(* order-service.                                                          *)
At(w, place) == task[w].at = place
Goto(w, t) == task' = [task EXCEPT ![w] = t]
Ends(w) == Goto(w, Idle)

\* The caller gives up; the server may act on the call later.
TimesOut(call) == Cardinality(late) < MaxLate /\ late' = late \cup {call}
SkuCall(o, op, s) == [op |-> op, order |-> o, sku |-> s]
PayCall(o, op) == [op |-> op, order |-> o]

\* POST /orders for an ACTIVE user: the row and its items in one transaction.
PostOrder(w, o) ==
  /\ At(w, "idle") /\ status[o] = "NONE" /\ Items(o) # {}
  /\ status' = [status EXCEPT ![o] = "CREATED"]
  /\ Goto(w, [at |-> "reserve", order |-> o, left |-> Items(o), held |-> {}])
  /\ UNCHANGED <<inventory, payment, late>>

\* What the catch block gives back: the failed call's key is among holds.
ReserveFails(w, s) ==
  Goto(w, [at |-> "release", order |-> task[w].order,
           left |-> task[w].held \cup {s}, released |-> TRUE])

ReserveItem(w) ==
  /\ At(w, "reserve")
  /\ \E s \in task[w].left : LET o == task[w].order IN
       \/ /\ ReserveAccepts(o, s) /\ Reserve(o, s)
          /\ Goto(w, [task[w] EXCEPT !.left = @ \ {s}, !.held = @ \cup {s}])
          /\ UNCHANGED late
       \/ /\ ~ReserveAccepts(o, s) /\ ReserveFails(w, s) /\ UNCHANGED <<inventory, late>>
       \/ TimesOut(SkuCall(o, "reserve", s)) /\ ReserveFails(w, s) /\ UNCHANGED inventory
  /\ UNCHANGED <<status, payment>>

ReleaseItem(w) ==
  /\ At(w, "release")
  /\ \E s \in task[w].left : LET o == task[w].order IN
       \/ /\ Finish(o, s, "RELEASED") /\ UNCHANGED late
          /\ Goto(w, [task[w] EXCEPT !.left = @ \ {s},
                        !.released = @ /\ FinishAccepts(o, s, "RELEASED")])
       \/ /\ TimesOut(SkuCall(o, "release", s)) /\ UNCHANGED inventory
          /\ Goto(w, [task[w] EXCEPT !.left = @ \ {s}, !.released = FALSE])
  /\ UNCHANGED <<status, payment>>

\* setStatus has no condition on the status it overwrites.
Compensated(w) ==
  /\ At(w, "release") /\ task[w].left = {}
  /\ status' = [status EXCEPT ![task[w].order] =
                  IF task[w].released THEN "FAILED" ELSE "REVIEW_REQUIRED"]
  /\ Ends(w) /\ UNCHANGED <<inventory, payment, late>>

Reserved(w) ==
  /\ At(w, "reserve") /\ task[w].left = {}
  /\ status' = [status EXCEPT ![task[w].order] = "PAYMENT_PENDING"]
  /\ Goto(w, [at |-> "load", order |-> task[w].order])
  /\ UNCHANGED <<inventory, payment, late>>

\* POST /orders/{id}/reconcile
PostReconcile(w, o) ==
  /\ At(w, "idle") /\ status[o] # "NONE"
  /\ Goto(w, [at |-> "load", order |-> o])
  /\ UNCHANGED <<status, inventory, payment, late>>

MayPay(o) == status[o] = "PAYMENT_PENDING"

Load(w) ==
  /\ At(w, "load")
  /\ IF MayPay(task[w].order)
     THEN Goto(w, [at |-> "pay", order |-> task[w].order, attempts |-> PayAttempts])
     ELSE Ends(w)
  /\ UNCHANGED <<status, inventory, payment, late>>

Pay(w) ==
  /\ At(w, "pay")
  /\ LET o == task[w].order IN
       \/ Save(o) /\ Goto(w, [at |-> "confirm", order |-> o]) /\ UNCHANGED late
       \/ /\ TimesOut(PayCall(o, "pay")) /\ UNCHANGED payment
          /\ IF task[w].attempts > 1 THEN Goto(w, [task[w] EXCEPT !.attempts = @ - 1])
                                     ELSE Ends(w)
  /\ UNCHANGED <<status, inventory>>

ToCommit(o) == [at |-> "commit", order |-> o, left |-> Items(o)]

\* PaymentService.confirm reads the row ...
Confirm(w) ==
  /\ At(w, "confirm")
  /\ LET o == task[w].order IN
       \/ /\ CASE payment[o] = "CAPTURED"   -> Goto(w, ToCommit(o))
               [] payment[o] = "AUTHORIZED" -> Goto(w, [at |-> "capture", order |-> o])
               [] OTHER                     -> Ends(w)
          /\ UNCHANGED late
       \/ TimesOut(PayCall(o, "confirm")) /\ Ends(w)
  /\ UNCHANGED <<status, inventory, payment>>

\* ... and then captures, unless it was refunded in between.
Capture(w) ==
  /\ At(w, "capture")
  /\ LET o == task[w].order IN
       \/ /\ Update(o, "CAPTURED") /\ UNCHANGED late
          /\ IF payment'[o] = "CAPTURED" THEN Goto(w, ToCommit(o)) ELSE Ends(w)
       \/ TimesOut(PayCall(o, "capture")) /\ Ends(w) /\ UNCHANGED payment
  /\ UNCHANGED <<status, inventory>>

\* Mutant: a commit that timed out is only logged, as the notification is.
CommitTimeoutIgnored(w, s) == Goto(w, [task[w] EXCEPT !.left = @ \ {s}])

CommitTimesOut(w, s) == Ends(w)

CommitItem(w) ==
  /\ At(w, "commit")
  /\ \E s \in task[w].left : LET o == task[w].order IN
       \/ /\ Finish(o, s, "COMMITTED") /\ UNCHANGED late
          /\ IF FinishAccepts(o, s, "COMMITTED")
             THEN Goto(w, [task[w] EXCEPT !.left = @ \ {s}]) ELSE Ends(w)
       \/ TimesOut(SkuCall(o, "commit", s)) /\ CommitTimesOut(w, s) /\ UNCHANGED inventory
  /\ UNCHANGED <<status, payment>>

\* A failed notification is only logged.
Paid(w) ==
  /\ At(w, "commit") /\ task[w].left = {}
  /\ status' = [status EXCEPT ![task[w].order] = "PAID"]
  /\ Ends(w) /\ UNCHANGED <<inventory, payment, late>>

\* UPDATE ... WHERE status IN ('CREATED')
Cancel(o) ==
  /\ status[o] = "CREATED"
  /\ status' = [status EXCEPT ![o] = "CANCELLED"]
  /\ UNCHANGED <<inventory, payment, task, late>>

\* order-service stops in the middle of a request; nothing takes it up.
Stop(w) ==
  /\ ~At(w, "idle") /\ Ends(w)
  /\ UNCHANGED <<status, inventory, payment, late>>
-----------------------------------------------------------------------------
(* A server gets to a call whose client has gone.                          *)
ServeLate(c) ==
  /\ c \in late
  /\ \/ c.op = "reserve" /\ Reserve(c.order, c.sku) /\ UNCHANGED payment
     \/ c.op = "release" /\ Finish(c.order, c.sku, "RELEASED") /\ UNCHANGED payment
     \/ c.op = "commit" /\ Finish(c.order, c.sku, "COMMITTED") /\ UNCHANGED payment
     \/ c.op = "pay" /\ Save(c.order) /\ UNCHANGED inventory
     \/ c.op = "capture" /\ Update(c.order, "CAPTURED") /\ UNCHANGED inventory
     \/ c.op = "refund" /\ Update(c.order, "REFUNDED") /\ UNCHANGED inventory
     \/ c.op = "confirm" /\ UNCHANGED <<inventory, payment>>
  /\ late' = IF c.op = "confirm" /\ payment[c.order] = "AUTHORIZED"
             THEN (late \ {c}) \cup {PayCall(c.order, "capture")} ELSE late \ {c}
  /\ UNCHANGED <<status, task>>

Handle(w) ==
  \/ ReserveItem(w) \/ ReleaseItem(w) \/ Compensated(w) \/ Reserved(w)
  \/ Load(w) \/ Pay(w) \/ Confirm(w) \/ Capture(w) \/ CommitItem(w) \/ Paid(w)

Next ==
  \/ \E w \in Worker : Handle(w) \/ Stop(w)
  \/ \E w \in Worker, o \in Order : PostOrder(w, o) \/ PostReconcile(w, o)
  \/ \E o \in Order : Cancel(o) \/ RefundRequested(o)
  \/ \E c \in late : ServeLate(c)

Spec == Init /\ [][Next]_vars
-----------------------------------------------------------------------------
\* Every variable has its type.
TypeOK ==
  /\ status \in [Order -> {"NONE", "CREATED", "FAILED", "REVIEW_REQUIRED",
                           "PAYMENT_PENDING", "PAID", "CANCELLED"}]
  /\ available \in [Sku -> Nat] /\ reserved \in [Sku -> Nat]
  /\ hold \in [Order -> [Sku -> {"NONE", "RESERVED", "RELEASED", "COMMITTED"}]]
  /\ payment \in [Order -> {"NONE", "AUTHORIZED", "CAPTURED", "REFUNDED"}]
  /\ task \in [Worker -> Tasks] /\ late \subseteq Calls

Held(s, states) ==
  MapThenSumSet(LAMBDA o : IF hold[o][s] \in states THEN Want[o][s] ELSE 0, Order)

\* The stock of a SKU is what is available, what reservations hold and what
\* was sold: nothing is lost or counted twice by retries, late calls and
\* compensation (MemoryRepository).
StockAccounted ==
  \A s \in Sku : /\ reserved[s] = Held(s, {"RESERVED"})
                 /\ available[s] + Held(s, {"RESERVED", "COMMITTED"}) = Stock[s]

FailedHoldsNothing ==
  \A o \in Order, s \in Sku :
    status[o] = "FAILED" => hold[o][s] \in {"NONE", "RELEASED"}

PaymentHasStock ==
  \A o \in Order : payment[o] # "NONE" \/ status[o] \in {"PAYMENT_PENDING", "PAID"} =>
    \A s \in Items(o) : hold[o][s] \in {"RESERVED", "COMMITTED"}

PaidIsSettled ==
  \A o \in Order : status[o] = "PAID" =>
    /\ payment[o] \in {"CAPTURED", "REFUNDED"}
    /\ \A s \in Items(o) : hold[o][s] = "COMMITTED"

\* What an order's status says of its stock and payment is so.  FAILED holds
\* no stock, now or later: a reserve call that arrives after its compensation
\* takes nothing (docs/lab-commerce.md: an uncertain compensation is
\* REVIEW_REQUIRED).  An order in payment keeps its stock, reserved or sold,
\* whatever compensation, late release or second request there is, so that
\* reconcile can always finish the order it finds PAYMENT_PENDING.  PAID was
\* captured and its stock is sold, whichever of the create and reconcile
\* requests got there, and however their calls were delayed.
StatusIsTrue == FailedHoldsNothing /\ PaymentHasStock /\ PaidIsSettled

\* A refunded payment is never captured again (docs/lab-commerce.md), even by
\* a confirm call that read the row before the refund.
RefundIsFinal ==
  [][\A o \in Order : payment[o] = "REFUNDED" => payment'[o] = "REFUNDED"]_vars

\* A request that takes an order into payment, against docs/lab-commerce.md:
\* only an order that has not entered payment can be cancelled.
CancelledIsNotCharged ==
  [][\A o \in Order : status[o] = "CANCELLED" => status'[o] # "PAYMENT_PENDING"]_vars
=============================================================================
