------------------------- MODULE CardBillingProofs --------------------------
(***************************************************************************)
(* The theorems of CardBilling, for any transactions, handlers, terms and  *)
(* numbers of renewals and crashes.                                        *)
(***************************************************************************)
EXTENDS CardBilling, TLAPS

-----------------------------------------------------------------------------
(* Periods *)

LEMMA ProductGrows ==
  ASSUME NEW a \in Nat, NEW b \in Nat, NEW c \in Nat, NEW d \in Nat,
         a <= b, c <= d
  PROVE  a * c <= b * d /\ a * c \in Nat /\ b * d \in Nat
<1>1. \A x, y, z \in Nat : x <= y => x * z <= y * z /\ z * x <= z * y
  <2> TAKE x, y, z \in Nat
  <2> HAVE x <= y
  <2>1. PICK k \in Nat : y = x + k
    <3>1. y - x \in Nat /\ y = x + (y - x)
      OBVIOUS
    <3>2. QED
      BY <3>1
  <2>2. y * z = x * z + k * z /\ z * y = z * x + z * k
    BY <2>1
  <2>3. x * z \in Nat /\ k * z \in Nat /\ z * x \in Nat /\ z * k \in Nat
    OBVIOUS
  <2>4. QED
    BY <2>2, <2>3
<1>2. a * c <= b * c /\ b * c <= b * d
  BY <1>1
<1>3. a * c \in Nat /\ b * c \in Nat /\ b * d \in Nat
  OBVIOUS
<1>4. QED
  BY <1>2, <1>3

LEMMA EndInBounds ==
  ASSUME NEW term \in Terms, NEW n \in 0 .. MaxRenewals
  PROVE  term * (n + 1) \in Ends
<1>1. /\ term \in Nat /\ MaxTerm \in Nat /\ n + 1 \in Nat
      /\ MaxRenewals + 1 \in Nat /\ term <= MaxTerm /\ n + 1 <= MaxRenewals + 1
  BY BoundsAssumption DEF Terms
<1>2. term * (n + 1) <= MaxTerm * (MaxRenewals + 1)
      /\ term * (n + 1) \in Nat /\ MaxTerm * (MaxRenewals + 1) \in Nat
  BY <1>1, ProductGrows
<1>3. QED
  BY <1>2 DEF Ends

\* No period reaches further than a later one.
LEMMA EndGrows ==
  ASSUME NEW term \in Terms, NEW m \in 0 .. MaxRenewals,
         NEW n \in 0 .. MaxRenewals, m <= n
  PROVE  /\ term * (m + 1) <= term * (n + 1)
         /\ term * (m + 1) \in Nat /\ term * (n + 1) \in Nat
<1>1. term \in Nat /\ m + 1 \in Nat /\ n + 1 \in Nat /\ m + 1 <= n + 1
  BY BoundsAssumption DEF Terms
<1>2. QED
  BY <1>1, ProductGrows

-----------------------------------------------------------------------------
(* What tasks, events and transactions are made of *)

Transaction == [state : {"none", "open", "canceled", "completed"},
                term : Terms, given : BOOLEAN, renewals : 0 .. MaxRenewals]

LEMMA EventParts ==
  ASSUME NEW e \in Event
  PROVE  /\ e.txn \in Txns /\ e.n \in 0 .. MaxRenewals
         /\ e.kind \in {"completed", "failed"}
         /\ e.kind = "completed"
              => e = [txn |-> e.txn, kind |-> "completed", n |-> e.n]
         /\ e.kind = "failed" => e = Failed(e.txn)
  BY BoundsAssumption DEF Event, Failed

LEMMA TaskParts ==
  ASSUME NEW t \in Task
  PROVE  /\ t.pc \in {"look", "price", "record", "recur"} => t.event \in Event
         /\ t.pc \in {"confirm", "apply"} => t.event \in Event \cup {None}
         /\ t.pc = "apply" => t.end \in Ends
         /\ t.pc = "price" => t.status \in Statuses
         /\ t.pc \in {"ask", "reset", "rewrite"} => t.term \in Terms
         /\ t.pc \in {"ask", "claim"} => t.seen \in Txns \cup {None}
         /\ t.pc = "claim" => t.new \in Txns
  BY DEF Task

LEMMA Idler == Idle \in Task /\ Idle.pc = "idle"
  BY DEF Idle, Task

-----------------------------------------------------------------------------
(* What the handlers know of the transactions *)

\* A webhook is about an event Paddle tells of.
Tells(t) ==
    \/ t.pc \in {"look", "price", "record", "recur"}
    \/ t.pc \in {"confirm", "apply"} /\ t.event # None

\* The last payment of a transaction.
Current(e) == e.n = txn[e.txn].renewals

\* What a task took from the transactions is still true of them: its payment
\* is the last one, the checkout it replaces is canceled, the one it opens
\* exists, and the period it applies is the one that was paid.
Sound(t) ==
    /\ Tells(t) => /\ t.event \in happened
                   /\ t.pc # "look" => t.event.kind = "completed"
                   /\ t.event.kind = "completed" => Current(t.event)
    /\ t.pc = "ask" /\ t.seen # None => txn[t.seen].given
    /\ t.pc = "claim" =>
         /\ txn[t.new].state # "none"
         /\ t.seen # None => txn[t.seen].state = "canceled"
    /\ t.pc = "apply" /\ t.event # None => t.end = End(t.event)
TasksSound == \A h \in Handlers : Sound(task[h])

\* A payment is of a completed transaction, and the next one waits until it is
\* recorded.
EventsPaid ==
    \A e \in happened :
      e.kind = "completed" =>
        /\ txn[e.txn].state = "completed"
        /\ e.n <= txn[e.txn].renewals
        /\ e \in recorded \/ Current(e)
TxnsPaid ==
    \A t \in Txns :
      /\ txn[t].state = "completed"
           => txn[t].given /\ Completed(t) \in happened
      /\ txn[t].state # "completed" => txn[t].renewals = 0
      /\ txn[t].renewals # 0 => Completed(t) \in recorded

\* The transaction of the invoice is one its customer got.
InvoiceGiven == inv.txn # None => txn[inv.txn].given

Ledger == TasksSound /\ EventsPaid /\ TxnsPaid /\ InvoiceGiven

Invoice == [status : Statuses, txn : Txns \cup {None}, end : Ends,
            noticed : BOOLEAN]
Subscription == [active : BOOLEAN, end : Ends, linked : Txns \cup {None}]

\* A step that changes nothing at Paddle: what it records happened, what it
\* links is completed, and the tasks it leaves know what they need to.
LEMMA OwnSide ==
  ASSUME TypeOK, Ledger, UNCHANGED <<txn, happened>>,
         recorded \subseteq recorded', recorded' \subseteq happened,
         inv' \in Invoice, inv'.txn \in {inv.txn, None},
         sub' \in Subscription,
         \/ sub'.linked = sub.linked
         \/ sub'.linked \in Txns /\ txn[sub'.linked].state = "completed",
         byHand' \in BOOLEAN, crashes' \in 0 .. MaxCrashes,
         task' \in [Handlers -> Task],
         \A g \in Handlers : task'[g] = task[g] \/ Sound(task'[g])
  PROVE  TypeOK' /\ Ledger'
<1>1. TypeOK'
  BY DEF TypeOK, Invoice, Subscription
<1>2. TasksSound'
  <2> SUFFICES ASSUME NEW g \in Handlers PROVE Sound(task[g])'
    BY DEF TasksSound
  <2>1. PICK t \in Task : t = task'[g]
    OBVIOUS
  <2>2. Sound(t)
    BY <2>1 DEF Ledger, TasksSound
  <2>3. QED
    BY <2>1, <2>2 DEF Sound, Tells, Current, End
<1>3. EventsPaid'
  BY DEF Ledger, EventsPaid, Current
<1>4. TxnsPaid'
  BY DEF Ledger, TxnsPaid, Completed
<1>5. InvoiceGiven'
  BY DEF Ledger, InvoiceGiven
<1>6. QED
  BY <1>1, <1>2, <1>3, <1>4, <1>5 DEF Ledger

\* A step of a handler that changes nothing but its task.
LEMMA OwnTask ==
  ASSUME TypeOK, Ledger, UNCHANGED <<inv, sub, txn, happened, recorded>>,
         byHand' \in BOOLEAN, crashes' \in 0 .. MaxCrashes,
         NEW h \in Handlers, NEW t \in Task, Sound(t),
         task' = [task EXCEPT ![h] = t]
  PROVE  TypeOK' /\ Ledger'
<1>1. /\ inv' \in Invoice /\ inv'.txn = inv.txn
      /\ sub' \in Subscription /\ sub'.linked = sub.linked
      /\ recorded \subseteq recorded' /\ recorded' \subseteq happened
  BY DEF TypeOK, Invoice, Subscription
<1>2. /\ task' \in [Handlers -> Task]
      /\ \A g \in Handlers : task'[g] = task[g] \/ Sound(task'[g])
  BY DEF TypeOK
<1>3. QED
  BY <1>1, <1>2, OwnSide

\* Tasks that know nothing of the transactions.
LEMMA QuietTasks ==
  ASSUME NEW t, t.pc \in {"idle", "reset", "rewrite", "overdue", "void"}
  PROVE  Sound(t)
  BY DEF Sound, Tells
LEMMA SoundIdle == Sound(Idle)
  BY QuietTasks, Idler

\* What becomes of a task when its handler is done, or has nothing to do with
\* a payment.
LEMMA QuietSteps ==
  ASSUME TypeOK, Ledger, NEW h \in Handlers,
         \/ CheckoutRefused(h) \/ OverdueRead(h) \/ VoidRead(h)
         \/ DiscountRead(h) \/ Crash(h)
  PROVE  TypeOK' /\ Ledger'
<1>1. /\ UNCHANGED <<inv, sub, txn, happened, recorded>>
      /\ byHand' \in BOOLEAN /\ crashes' \in 0 .. MaxCrashes
  BY BoundsAssumption
     DEF TypeOK, CheckoutRefused, OverdueRead, VoidRead, DiscountRead, Crash,
         desk
<1>2. \E t \in Task :
        /\ task' = [task EXCEPT ![h] = t]
        /\ t.pc \in {"idle", "reset", "rewrite", "overdue", "void"}
  <2>1. CASE CheckoutRefused(h) \/ Crash(h)
    BY <2>1, Idler DEF CheckoutRefused, Crash, Go
  <2>2. CASE OverdueRead(h) \/ VoidRead(h)
    <3>1. [pc |-> "overdue"] \in Task /\ [pc |-> "void"] \in Task
      BY DEF Task
    <3>2. QED
      BY <2>2, <3>1 DEF OverdueRead, VoidRead, Go
  <2>3. CASE DiscountRead(h)
    <3>1. task[h].term \in Terms
      BY <2>3, TaskParts DEF DiscountRead, At, TypeOK
    <3>2. [pc |-> "rewrite", term |-> task[h].term] \in Task
      BY <3>1 DEF Task
    <3>3. QED
      BY <2>3, <3>2, Idler DEF DiscountRead, Go
  <2>4. QED
    BY <2>1, <2>2, <2>3
<1>3. PICK t \in Task :
        /\ task' = [task EXCEPT ![h] = t]
        /\ t.pc \in {"idle", "reset", "rewrite", "overdue", "void"}
  BY <1>2
<1>4. Sound(t)
  BY <1>3, QuietTasks
<1>5. QED
  BY <1>1, <1>3, <1>4, OwnTask

\* What the staff and the cron write to the invoice.
LEMMA StatusSteps ==
  ASSUME TypeOK, Ledger,
         \/ MarkPaidOnly \/ Notice \/ NotFound
         \/ \E h \in Handlers :
              OverdueWrite(h) \/ VoidWrite(h) \/ DiscountWrite(h)
  PROVE  TypeOK' /\ Ledger'
<1>1. inv \in Invoice
  BY DEF TypeOK, Invoice
<1>2. /\ UNCHANGED <<sub, txn, happened, recorded, crashes>>
      /\ byHand' \in BOOLEAN
  BY DEF TypeOK, MarkPaidOnly, Notice, NotFound, OverdueWrite, VoidWrite,
         DiscountWrite, desk
<1>3. inv' \in Invoice /\ inv'.txn \in {inv.txn, None}
  <2>1. CASE MarkPaidOnly \/ Notice \/ NotFound
    BY <1>1, <2>1
       DEF MarkPaidOnly, Notice, NotFound, Paid, Invoice, Statuses, PAYABLE
  <2>2. CASE \E h \in Handlers : OverdueWrite(h) \/ VoidWrite(h)
    BY <1>1, <2>2 DEF OverdueWrite, VoidWrite, Invoice, Statuses, PAYABLE
  <2>3. ASSUME NEW h \in Handlers, DiscountWrite(h)
        PROVE  inv' \in Invoice /\ inv'.txn \in {inv.txn, None}
    <3>1. task[h].term \in Terms
      BY <2>3, TaskParts DEF DiscountWrite, At, TypeOK
    <3>2. task[h].term \in Ends
      <4>1. PICK x \in Terms : x = task[h].term
        BY <3>1
      <4>2. x * (0 + 1) \in Ends /\ x * (0 + 1) = x
        <5>1. 0 \in 0 .. MaxRenewals /\ x \in Nat
          BY BoundsAssumption DEF Terms
        <5>2. x * (0 + 1) \in Ends
          BY <5>1, EndInBounds
        <5>3. QED
          BY <5>1, <5>2
      <4>3. QED
        BY <4>1, <4>2
    <3>3. QED
      BY <1>1, <2>3, <3>2 DEF DiscountWrite, Invoice, Statuses, PAYABLE
  <2>4. QED
    BY <2>1, <2>2, <2>3
<1>4. /\ task' \in [Handlers -> Task]
      /\ \A g \in Handlers : task'[g] = task[g] \/ task'[g].pc = "idle"
  <2>1. \/ task' = task
        \/ \E h \in Handlers : task' = [task EXCEPT ![h] = Idle]
    BY DEF MarkPaidOnly, Notice, NotFound, OverdueWrite, VoidWrite,
           DiscountWrite, Go
  <2>2. QED
    BY <2>1, Idler DEF TypeOK
<1>5. /\ sub' \in Subscription /\ sub'.linked = sub.linked
      /\ recorded \subseteq recorded' /\ recorded' \subseteq happened
      /\ crashes' \in 0 .. MaxCrashes
  BY <1>2 DEF TypeOK, Subscription
<1>6. \A g \in Handlers : task'[g] = task[g] \/ Sound(task'[g])
  BY <1>4, QuietTasks
<1>7. QED
  BY <1>2, <1>3, <1>4, <1>5, <1>6, OwnSide

\* What a step at Paddle leaves as it is, but for a renewal.
Onward ==
    \A x \in Txns :
      /\ txn[x].given => txn'[x].given
      /\ txn[x].state = "canceled" => txn'[x].state = "canceled"
      /\ txn[x].state # "none" => txn'[x].state # "none"
      /\ txn[x].state = "completed"
           => txn'[x].state = "completed" /\ txn'[x].term = txn[x].term
      /\ txn'[x].renewals = txn[x].renewals

LEMMA SoundKept ==
  ASSUME TypeOK, Ledger, Onward, happened \subseteq happened',
         NEW g \in Handlers, task'[g] = task[g]
  PROVE  Sound(task[g])'
<1>1. PICK t \in Task : t = task[g]
  BY DEF TypeOK
<1>2. Sound(t)
  BY <1>1 DEF Ledger, TasksSound
<1>3. Tells(t) => t.event \in Event /\ t.event.txn \in Txns
  BY TaskParts, EventParts DEF Tells
<1>4. /\ Tells(t)' = Tells(t)
      /\ Tells(t) => /\ t.event \in happened'
                     /\ t.pc # "look" => t.event.kind = "completed"
                     /\ t.event.kind = "completed" => Current(t.event)'
  BY <1>2, <1>3 DEF Sound, Tells, Current, Onward
<1>5. t.pc = "ask" /\ t.seen # None => txn'[t.seen].given
  BY <1>2, TaskParts DEF Sound, Onward
<1>6. t.pc = "claim" => /\ txn'[t.new].state # "none"
                        /\ t.seen # None => txn'[t.seen].state = "canceled"
  BY <1>2, TaskParts DEF Sound, Onward
<1>7. t.pc = "apply" /\ t.event # None => t.end = End(t.event)'
  <2>1. SUFFICES ASSUME t.pc = "apply", t.event # None
                 PROVE  t.end = End(t.event)'
    OBVIOUS
  <2>2. Tells(t) /\ t.event \in happened /\ t.event.kind = "completed"
    BY <1>2, <2>1 DEF Sound, Tells
  <2>3. txn[t.event.txn].state = "completed"
    BY <2>2 DEF Ledger, EventsPaid
  <2>4. txn'[t.event.txn].term = txn[t.event.txn].term
    BY <1>3, <2>2, <2>3 DEF Onward
  <2>5. QED
    BY <1>2, <2>1, <2>4 DEF Sound, End
<1>8. Sound(t)'
  BY <1>4, <1>5, <1>6, <1>7 DEF Sound
<1>9. QED
  BY <1>1, <1>8

LEMMA TasksKept ==
  ASSUME TypeOK, Ledger, Onward, happened \subseteq happened',
         task' = task \/ \E h \in Handlers : task' = [task EXCEPT ![h] = Idle]
  PROVE  TasksSound' /\ task' \in [Handlers -> Task]
<1>1. \A g \in Handlers : task'[g] = task[g] \/ task'[g] = Idle
  BY DEF TypeOK
<1>2. ASSUME NEW g \in Handlers PROVE Sound(task[g])'
  <2>1. CASE task'[g] = task[g]
    BY <2>1, SoundKept
  <2>2. CASE task'[g] = Idle
    BY <2>2 DEF Sound, Tells, Idle
  <2>3. QED
    BY <1>1, <2>1, <2>2
<1>3. task' \in [Handlers -> Task]
  BY Idler DEF TypeOK
<1>4. QED
  BY <1>2, <1>3 DEF TasksSound

\* A checkout reads the invoice, and asks Paddle for a transaction.
LEMMA CheckoutReadKeeps ==
  ASSUME TypeOK, Ledger, NEW h \in Handlers, NEW term \in Terms,
         CheckoutRead(h, term)
  PROVE  TypeOK' /\ Ledger'
<1> DEFINE t == [pc |-> "ask", seen |-> inv.txn, term |-> term]
<1>1. /\ UNCHANGED <<inv, sub, txn, happened, recorded>>
      /\ byHand' \in BOOLEAN /\ crashes' \in 0 .. MaxCrashes
      /\ task' = [task EXCEPT ![h] = t]
  BY DEF TypeOK, CheckoutRead, desk, Go
<1>2. inv.txn \in Txns \cup {None}
  BY DEF TypeOK
<1>3. t \in Task
  BY <1>2 DEF Task
<1>4. Sound(t)
  BY DEF Sound, Tells, Ledger, InvoiceGiven
<1>5. QED
  BY <1>1, <1>3, <1>4, OwnTask

\* A step that writes one transaction, which it neither pays nor renews.
LEMMA OneTxn ==
  ASSUME TypeOK, Ledger, NEW u \in Txns, NEW x \in Transaction,
         txn' = [txn EXCEPT ![u] = x],
         txn[u].given => x.given,
         x.given => x.state # "none",
         txn[u].state = "canceled" => x.state = "canceled",
         txn[u].state # "none" => x.state # "none",
         txn[u].state = "completed" <=> x.state = "completed",
         txn[u].state = "completed" => x.term = txn[u].term,
         x.renewals = txn[u].renewals
  PROVE  /\ Onward
         /\ txn' \in [Txns -> Transaction]
         /\ \A y \in Txns : txn'[y].given => txn'[y].state # "none"
         /\ UNCHANGED <<happened, recorded>> => EventsPaid' /\ TxnsPaid'
         /\ UNCHANGED inv => InvoiceGiven'
         /\ sub.linked # None => txn'[sub.linked].state = "completed"
<1>1. /\ txn' \in [Txns -> Transaction]
      /\ \A y \in Txns : txn'[y] = IF y = u THEN x ELSE txn[y]
  BY DEF TypeOK, Transaction
<1>2. Onward
  BY <1>1 DEF Onward
<1>3. \A y \in Txns : txn'[y].given => txn'[y].state # "none"
  BY <1>1 DEF TypeOK
<1>4. ASSUME UNCHANGED <<happened, recorded>> PROVE EventsPaid' /\ TxnsPaid'
  <2>1. EventsPaid'
    BY <1>2, <1>4, EventParts DEF Ledger, EventsPaid, Onward, Current, TypeOK
  <2>2. \A y \in Txns :
          /\ txn'[y].state = "completed" <=> txn[y].state = "completed"
          /\ txn'[y].renewals = txn[y].renewals
          /\ txn[y].given => txn'[y].given
    BY <1>1
  <2>3. TxnsPaid'
    BY <1>4, <2>2 DEF Ledger, TxnsPaid, Completed
  <2>4. QED
    BY <2>1, <2>3
<1>5. UNCHANGED inv => InvoiceGiven'
  BY <1>2 DEF Ledger, InvoiceGiven, Onward, TypeOK
<1>6. sub.linked # None => txn'[sub.linked].state = "completed"
  BY <1>2 DEF Onward, TypeOK
<1>7. QED
  BY <1>1, <1>2, <1>3, <1>4, <1>5, <1>6

LEMMA CheckoutAgainKeeps ==
  ASSUME TypeOK, Ledger, NEW h \in Handlers, CheckoutAgain(h)
  PROVE  TypeOK' /\ Ledger' /\ Onward
<1> DEFINE t == task[h].seen
           x == [txn[t] EXCEPT !.term = task[h].term, !.given = TRUE]
<1>1. t \in Txns /\ task[h].term \in Terms /\ txn[t].state = "open"
  BY TaskParts DEF TypeOK, CheckoutAgain, At
<1>2. txn[t] \in Transaction
  BY <1>1 DEF TypeOK, Transaction
<1>3. txn' = [txn EXCEPT ![t] = x]
  BY DEF CheckoutAgain
<1>4. /\ x \in Transaction /\ x.state = "open" /\ x.given
      /\ x.renewals = txn[t].renewals
  BY <1>1, <1>2 DEF Transaction
<1>5. task' = [task EXCEPT ![h] = Idle]
      /\ UNCHANGED <<inv, sub, happened, recorded, byHand, crashes>>
  BY DEF CheckoutAgain, Go
<1> HIDE DEF x, t
<1>6. /\ Onward /\ EventsPaid' /\ TxnsPaid' /\ InvoiceGiven'
      /\ txn' \in [Txns -> Transaction]
      /\ \A y \in Txns : txn'[y].given => txn'[y].state # "none"
      /\ sub.linked # None => txn'[sub.linked].state = "completed"
  BY <1>1, <1>3, <1>4, <1>5, OneTxn
<1>7. TasksSound' /\ task' \in [Handlers -> Task]
  BY <1>5, <1>6, TasksKept
<1>8. QED
  BY <1>5, <1>6, <1>7 DEF TypeOK, Ledger, Transaction

LEMMA CheckoutCreateKeeps ==
  ASSUME TypeOK, Ledger, NEW h \in Handlers, CheckoutCreate(h)
  PROVE  TypeOK' /\ Ledger' /\ Onward
<1> DEFINE s == task[h].seen
<1>1. PICK u \in Txns :
        /\ txn[u].state = "none"
        /\ txn' = [txn EXCEPT ![u].state = "open", ![u].term = task[h].term]
        /\ task' = [task EXCEPT ![h] = [pc |-> "claim", seen |-> s,
                                        new |-> u]]
  BY DEF CheckoutCreate, Go
<1> DEFINE x == [txn[u] EXCEPT !.state = "open", !.term = task[h].term]
           t == [pc |-> "claim", seen |-> s, new |-> u]
<1>2. /\ s \in Txns \cup {None} /\ task[h].term \in Terms
      /\ s # None => txn[s].state = "canceled"
  BY TaskParts DEF TypeOK, CheckoutCreate, At
<1>3. txn[u] \in Transaction
  BY DEF TypeOK, Transaction
<1>4. txn' = [txn EXCEPT ![u] = x]
  BY <1>1
<1>5. /\ x \in Transaction /\ x.state = "open" /\ x.given = txn[u].given
      /\ x.renewals = txn[u].renewals
  BY <1>2, <1>3 DEF Transaction
<1>6. UNCHANGED <<inv, sub, happened, recorded, byHand, crashes>>
  BY DEF CheckoutCreate
<1>7. t \in Task
  BY <1>2 DEF Task
<1> HIDE DEF x, s
<1>8. /\ Onward /\ EventsPaid' /\ TxnsPaid' /\ InvoiceGiven'
      /\ txn' \in [Txns -> Transaction]
      /\ \A y \in Txns : txn'[y].given => txn'[y].state # "none"
      /\ sub.linked # None => txn'[sub.linked].state = "completed"
  BY <1>1, <1>4, <1>5, <1>6, OneTxn
<1>9. ASSUME NEW g \in Handlers PROVE Sound(task[g])'
  <2>1. CASE g = h
    <3>1. task'[g] = t
      BY <1>1, <2>1 DEF TypeOK
    <3>2. txn'[u].state # "none" /\ (s # None => txn'[s].state = "canceled")
      BY <1>2, <1>4, <1>5, <1>8 DEF Onward, TypeOK
    <3>3. QED
      BY <3>1, <3>2 DEF Sound, Tells
  <2>2. CASE g # h
    BY <1>1, <1>6, <1>8, <2>2, SoundKept DEF TypeOK
  <2>3. QED
    BY <2>1, <2>2
<1>10. task' \in [Handlers -> Task]
  BY <1>1, <1>7 DEF TypeOK
<1>11. QED
  BY <1>6, <1>8, <1>9, <1>10 DEF TypeOK, Ledger, Transaction, TasksSound

LEMMA CheckoutClaimKeeps ==
  ASSUME TypeOK, Ledger, NEW h \in Handlers, CheckoutClaim(h)
  PROVE  TypeOK' /\ Ledger' /\ Onward
<1> DEFINE t == task[h].new
           x == [txn[t] EXCEPT !.given = TRUE]
<1>1. /\ task' = [task EXCEPT ![h] = Idle]
      /\ UNCHANGED <<sub, happened, recorded, byHand, crashes>>
  BY DEF CheckoutClaim, Go
<1>2. CASE UNCHANGED <<inv, txn>>
  <2>1. Onward
    BY <1>2 DEF Onward
  <2>2. byHand' \in BOOLEAN /\ crashes' \in 0 .. MaxCrashes
    BY <1>1 DEF TypeOK
  <2>3. TypeOK' /\ Ledger'
    BY <1>1, <1>2, <2>2, OwnTask, Idler, SoundIdle
  <2>4. QED
    BY <2>1, <2>3
<1>3. CASE inv' = [inv EXCEPT !.txn = t]
           /\ txn' = [txn EXCEPT ![t].given = TRUE]
  <2>1. t \in Txns /\ task[h] \in Task /\ At(h, "claim")
    BY TaskParts DEF TypeOK, CheckoutClaim, At
  <2>2. txn[t] \in Transaction /\ txn[t].state # "none"
    BY <2>1 DEF TypeOK, Transaction, Ledger, TasksSound, Sound, At
  <2>3. txn' = [txn EXCEPT ![t] = x]
    BY <1>3
  <2>4. /\ x \in Transaction /\ x.state = txn[t].state /\ x.given
        /\ x.renewals = txn[t].renewals /\ x.term = txn[t].term
    BY <2>2 DEF Transaction
  <2> HIDE DEF x, t
  <2>5. /\ Onward /\ EventsPaid' /\ TxnsPaid'
        /\ txn' \in [Txns -> Transaction]
        /\ \A y \in Txns : txn'[y].given => txn'[y].state # "none"
        /\ sub.linked # None => txn'[sub.linked].state = "completed"
    BY <1>1, <2>1, <2>2, <2>3, <2>4, OneTxn
  <2>6. TasksSound' /\ task' \in [Handlers -> Task]
    BY <1>1, <2>5, TasksKept
  <2>7. inv' \in Invoice /\ inv'.txn = t /\ InvoiceGiven'
    <3>1. inv \in Invoice
      BY DEF TypeOK, Invoice
    <3>2. inv' \in Invoice /\ inv'.txn = t
      BY <1>3, <2>1, <3>1 DEF Invoice
    <3>3. txn'[t] = x
      BY <2>1, <2>3 DEF TypeOK
    <3>4. QED
      BY <2>4, <3>2, <3>3 DEF InvoiceGiven
  <2>8. QED
    BY <1>1, <2>5, <2>6, <2>7 DEF TypeOK, Ledger, Transaction, Invoice
<1>4. QED
  BY <1>2, <1>3 DEF CheckoutClaim

\* A discount cancels the checkout that is open.
LEMMA DiscountCancelKeeps ==
  ASSUME TypeOK, Ledger, NEW h \in Handlers, NEW term \in Terms,
         DiscountCancel(h, term)
  PROVE  TypeOK' /\ Ledger' /\ Onward
<1> DEFINE t == inv.txn
           r == [pc |-> "reset", term |-> term]
           x == [txn[t] EXCEPT !.state = "canceled"]
<1>1. /\ task' = [task EXCEPT ![h] = r]
      /\ UNCHANGED <<inv, sub, happened, recorded, byHand, crashes>>
      /\ t # None => txn[t].state \in {"open", "canceled"}
  BY DEF DiscountCancel, Go
<1>2. r \in Task /\ r.pc = "reset"
  BY DEF Task
<1> HIDE DEF r
<1>3. Sound(r)
  BY <1>2, QuietTasks
<1>4. CASE t = None
  <2>1. UNCHANGED txn
    BY <1>4 DEF DiscountCancel
  <2>2. Onward
    BY <2>1 DEF Onward
  <2>3. byHand' \in BOOLEAN /\ crashes' \in 0 .. MaxCrashes
    BY <1>1 DEF TypeOK
  <2>4. QED
    BY <1>1, <1>2, <1>3, <2>1, <2>2, <2>3, OwnTask
<1>5. CASE t # None
  <2>1. t \in Txns /\ txn[t] \in Transaction
    BY <1>5 DEF TypeOK, Transaction
  <2>2. txn' = [txn EXCEPT ![t] = x]
    BY <1>5 DEF DiscountCancel
  <2>3. /\ x \in Transaction /\ x.state = "canceled"
        /\ x.given = txn[t].given
        /\ x.renewals = txn[t].renewals /\ x.term = txn[t].term
    BY <2>1 DEF Transaction
  <2> HIDE DEF x, t
  <2>4. /\ Onward /\ EventsPaid' /\ TxnsPaid' /\ InvoiceGiven'
        /\ txn' \in [Txns -> Transaction]
        /\ \A y \in Txns : txn'[y].given => txn'[y].state # "none"
        /\ sub.linked # None => txn'[sub.linked].state = "completed"
    BY <1>1, <1>5, <2>1, <2>2, <2>3, OneTxn
  <2>5. ASSUME NEW g \in Handlers PROVE Sound(task[g])'
    <3>1. CASE g = h
      <4>1. task'[g] = r
        BY <1>1, <3>1 DEF TypeOK
      <4>2. QED
        BY <1>2, <4>1 DEF Sound, Tells
    <3>2. CASE g # h
      BY <1>1, <2>4, <3>2, SoundKept DEF TypeOK
    <3>3. QED
      BY <3>1, <3>2
  <2>6. task' \in [Handlers -> Task]
    BY <1>1, <1>2 DEF TypeOK
  <2>7. QED
    BY <1>1, <2>4, <2>5, <2>6 DEF TypeOK, Ledger, Transaction, TasksSound
<1>6. QED
  BY <1>4, <1>5

\* The customer pays, or tries to.
LEMMA PayKeeps ==
  ASSUME TypeOK, Ledger, NEW u \in Txns, Pay(u)
  PROVE  TypeOK' /\ Ledger' /\ Onward
<1> DEFINE x == [txn[u] EXCEPT !.state = "completed"]
           e == Completed(u)
<1>1. /\ UNCHANGED <<inv, sub, recorded, byHand, task, crashes>>
      /\ txn[u].state = "open" /\ txn[u].given
      /\ txn' = [txn EXCEPT ![u] = x]
      /\ happened' = happened \cup {e}
  BY DEF Pay
<1>2. txn[u] \in Transaction
  BY DEF TypeOK, Transaction
<1>3. /\ x \in Transaction /\ x.state = "completed" /\ x.given = txn[u].given
      /\ x.renewals = txn[u].renewals /\ x.term = txn[u].term
  BY <1>2 DEF Transaction
<1>4. /\ e \in Event /\ e.kind = "completed" /\ e.txn = u /\ e.n = 0
  BY BoundsAssumption DEF Completed, Event
<1> HIDE DEF x
<1>5. /\ txn' \in [Txns -> Transaction]
      /\ \A y \in Txns : txn'[y] = IF y = u THEN x ELSE txn[y]
  BY <1>1, <1>3 DEF TypeOK, Transaction
<1>6. Onward
  BY <1>1, <1>3, <1>5 DEF Onward
<1>7. txn[u].renewals = 0
  BY <1>1 DEF Ledger, TxnsPaid
<1>8. TasksSound' /\ task' \in [Handlers -> Task]
  BY <1>1, <1>6, TasksKept
<1>9. EventsPaid'
  <2> SUFFICES ASSUME NEW f \in happened', f.kind = "completed"
               PROVE  /\ txn'[f.txn].state = "completed"
                      /\ f.n <= txn'[f.txn].renewals
                      /\ f \in recorded' \/ Current(f)'
    BY DEF EventsPaid
  <2>1. CASE f = e
    BY <1>3, <1>4, <1>5, <1>7, <2>1 DEF Current
  <2>2. CASE f \in happened
    BY <1>1, <1>6, <2>2, EventParts
       DEF Ledger, EventsPaid, Onward, Current, TypeOK
  <2>3. QED
    BY <1>1, <2>1, <2>2
<1>10. TxnsPaid'
  <2> SUFFICES ASSUME NEW y \in Txns
               PROVE  /\ txn'[y].state = "completed"
                           => txn'[y].given /\ Completed(y) \in happened'
                      /\ txn'[y].state # "completed" => txn'[y].renewals = 0
                      /\ txn'[y].renewals # 0 => Completed(y) \in recorded'
    BY DEF TxnsPaid, Completed
  <2>1. QED
    BY <1>1, <1>3, <1>5, <1>7 DEF Ledger, TxnsPaid
<1>11. InvoiceGiven'
  BY <1>1, <1>6 DEF Ledger, InvoiceGiven, Onward, TypeOK
<1>12. TypeOK'
  <2>1. \A y \in Txns : txn'[y].given => txn'[y].state # "none"
    BY <1>3, <1>5 DEF TypeOK
  <2>2. sub.linked # None => txn'[sub.linked].state = "completed"
    BY <1>6 DEF Onward, TypeOK
  <2>3. happened' \subseteq Event /\ recorded' \subseteq happened'
    BY <1>1, <1>4 DEF TypeOK
  <2>4. QED
    BY <1>1, <1>5, <2>1, <2>2, <2>3 DEF TypeOK, Transaction
<1>13. QED
  BY <1>6, <1>8, <1>9, <1>10, <1>11, <1>12 DEF Ledger

LEMMA FailKeeps ==
  ASSUME TypeOK, Ledger, NEW u \in Txns, Fail(u)
  PROVE  TypeOK' /\ Ledger' /\ Onward
<1> DEFINE e == Failed(u)
<1>1. /\ UNCHANGED <<inv, sub, txn, recorded, byHand, task, crashes>>
      /\ happened' = happened \cup {e}
  BY DEF Fail
<1>2. e \in Event /\ e.kind = "failed"
  BY DEF Failed, Event
<1>3. Onward
  BY <1>1 DEF Onward
<1>4. TasksSound' /\ task' \in [Handlers -> Task]
  BY <1>1, <1>3, TasksKept
<1>5. EventsPaid'
  BY <1>1, <1>2 DEF Ledger, EventsPaid, Current
<1>6. TxnsPaid' /\ InvoiceGiven'
  BY <1>1 DEF Ledger, TxnsPaid, InvoiceGiven, Completed
<1>7. TypeOK'
  BY <1>1, <1>2 DEF TypeOK
<1>8. QED
  BY <1>3, <1>4, <1>5, <1>6, <1>7 DEF Ledger

\* A renewal, with no request on its way and every payment recorded.
LEMMA RenewKeeps ==
  ASSUME TypeOK, Ledger, NEW u \in Txns, Renew(u)
  PROVE  TypeOK' /\ Ledger'
<1> DEFINE n == txn[u].renewals + 1
           x == [txn[u] EXCEPT !.renewals = n]
           e == [txn |-> u, kind |-> "completed", n |-> n]
<1>1. /\ UNCHANGED <<inv, sub, recorded, byHand, task, crashes>>
      /\ txn[u].state = "completed" /\ txn[u].renewals < MaxRenewals
      /\ \A g \in Handlers : At(g, "idle")
      /\ {f \in happened : f.kind = "completed"} \subseteq recorded
      /\ txn' = [txn EXCEPT ![u] = x]
      /\ happened' = happened \cup {e}
  BY DEF Renew
<1>2. txn[u] \in Transaction
  BY DEF TypeOK, Transaction
<1>3. n \in 0 .. MaxRenewals
  BY <1>1, <1>2, BoundsAssumption DEF Transaction
<1>4. e \in Event /\ e.kind = "completed" /\ e.txn = u /\ e.n = n
  BY <1>3 DEF Event
<1>a. n = txn[u].renewals + 1
  OBVIOUS
<1> HIDE DEF n
<1>5. /\ x \in Transaction /\ x.state = txn[u].state
      /\ x.given = txn[u].given
      /\ x.renewals = n /\ x.term = txn[u].term
  BY <1>2, <1>3 DEF Transaction
<1> HIDE DEF x, e
<1>6. /\ txn' \in [Txns -> Transaction]
      /\ \A y \in Txns : txn'[y] = IF y = u THEN x ELSE txn[y]
  BY <1>1, <1>5 DEF TypeOK, Transaction
<1>7. TasksSound' /\ task' \in [Handlers -> Task]
  <2>1. \A g \in Handlers : task'[g].pc = "idle"
    BY <1>1 DEF At
  <2>2. TasksSound'
    BY <2>1 DEF TasksSound, Sound, Tells
  <2>3. QED
    BY <1>1, <2>2 DEF TypeOK
<1>8. EventsPaid'
  <2> SUFFICES ASSUME NEW f \in happened', f.kind = "completed"
               PROVE  /\ txn'[f.txn].state = "completed"
                      /\ f.n <= txn'[f.txn].renewals
                      /\ f \in recorded' \/ Current(f)'
    BY DEF EventsPaid
  <2>1. CASE f = e
    <3>1. f.txn = u /\ f.n = n /\ n <= n
      BY <1>3, <1>4, <2>1
    <3>2. QED
      BY <1>1, <1>5, <1>6, <3>1 DEF Current
  <2>2. CASE f \in happened
    <3>1. f.txn \in Txns /\ f.n \in 0 .. MaxRenewals
      BY <2>2, EventParts DEF TypeOK
    <3>2. /\ txn[f.txn].state = "completed" /\ f.n <= txn[f.txn].renewals
          /\ f \in recorded'
      BY <1>1, <2>2 DEF Ledger, EventsPaid
    <3>3. txn[f.txn] \in Transaction
      BY <3>1 DEF TypeOK, Transaction
    <3>4. txn'[f.txn].state = "completed"
      BY <1>1, <1>5, <1>6, <3>1, <3>2
    <3>5. f.n <= txn'[f.txn].renewals
      <4>1. CASE f.txn = u
        BY <1>a, <1>2, <1>3, <1>5, <1>6, <3>1, <3>2, <4>1, BoundsAssumption
           DEF Transaction
      <4>2. CASE f.txn # u
        BY <1>6, <3>1, <3>2, <4>2
      <4>3. QED
        BY <4>1, <4>2
    <3>6. QED
      BY <3>2, <3>4, <3>5
  <2>3. QED
    BY <1>1, <2>1, <2>2
<1>9. TxnsPaid'
  <2> SUFFICES ASSUME NEW y \in Txns
               PROVE  /\ txn'[y].state = "completed"
                           => txn'[y].given /\ Completed(y) \in happened'
                      /\ txn'[y].state # "completed" => txn'[y].renewals = 0
                      /\ txn'[y].renewals # 0 => Completed(y) \in recorded'
    BY DEF TxnsPaid, Completed
  <2>1. Completed(u) \in recorded
    <3>1. Completed(u) \in happened /\ Completed(u).kind = "completed"
      BY <1>1 DEF Ledger, TxnsPaid, Completed
    <3>2. QED
      BY <1>1, <3>1
  <2>2. CASE y = u
    BY <1>1, <1>5, <1>6, <2>1, <2>2 DEF Ledger, TxnsPaid
  <2>3. CASE y # u
    BY <1>1, <1>6, <2>3 DEF Ledger, TxnsPaid
  <2>4. QED
    BY <2>2, <2>3
<1>10. InvoiceGiven'
  BY <1>1, <1>5, <1>6 DEF Ledger, InvoiceGiven, TypeOK
<1>11. TypeOK'
  <2>1. \A y \in Txns : txn'[y].given => txn'[y].state # "none"
    BY <1>5, <1>6 DEF TypeOK
  <2>2. sub.linked # None => txn'[sub.linked].state = "completed"
    BY <1>5, <1>6 DEF TypeOK
  <2>3. happened' \subseteq Event /\ recorded' \subseteq happened'
    BY <1>1, <1>4 DEF TypeOK
  <2>4. QED
    BY <1>1, <1>6, <2>1, <2>2, <2>3 DEF TypeOK, Transaction
<1>12. QED
  BY <1>7, <1>8, <1>9, <1>10, <1>11 DEF Ledger

-----------------------------------------------------------------------------
(* The webhooks *)

LEMMA Told ==
  ASSUME TypeOK, Ledger, NEW h \in Handlers, Tells(task[h])
  PROVE  LET e == task[h].event IN
         /\ e \in Event /\ e \in happened /\ e.txn \in Txns
         /\ End(e) \in Ends /\ End(e) \in Nat
         /\ task[h].pc # "look" => e.kind = "completed"
         /\ e.kind = "completed" =>
              Current(e) /\ txn[e.txn].state = "completed"
<1> DEFINE e == task[h].event
<1>1. /\ e \in happened
      /\ task[h].pc # "look" => e.kind = "completed"
      /\ e.kind = "completed" => Current(e)
  BY DEF Ledger, TasksSound, Sound
<1>2. e \in Event
  BY <1>1 DEF TypeOK
<1>3. e.txn \in Txns /\ e.n \in 0 .. MaxRenewals
  BY <1>2, EventParts
<1>4. e.kind = "completed" => txn[e.txn].state = "completed"
  BY <1>1 DEF Ledger, EventsPaid
<1>5. txn[e.txn].term \in Terms
  BY <1>3 DEF TypeOK
<1>6. End(e) \in Ends
  BY <1>3, <1>5, EndInBounds DEF End
<1>7. End(e) \in Nat
  BY <1>6, BoundsAssumption DEF Ends
<1>8. QED
  BY <1>1, <1>2, <1>3, <1>4, <1>6, <1>7

\* A task that has an event in hand passes it on.
LEMMA Passed ==
  ASSUME NEW e \in happened, happened \subseteq Event,
         e.kind = "completed" => Current(e)
  PROVE  /\ [pc |-> "look", event |-> e] \in Task
         /\ Sound([pc |-> "look", event |-> e])
         /\ e.kind = "completed" =>
              /\ [pc |-> "record", event |-> e] \in Task
              /\ Sound([pc |-> "record", event |-> e])
              /\ [pc |-> "recur", event |-> e] \in Task
              /\ Sound([pc |-> "recur", event |-> e])
              /\ [pc |-> "confirm", event |-> e] \in Task
              /\ Sound([pc |-> "confirm", event |-> e])
              /\ \A s \in Statuses :
                   /\ [pc |-> "price", event |-> e, status |-> s] \in Task
                   /\ Sound([pc |-> "price", event |-> e, status |-> s])
<1>1. e \in Event
  OBVIOUS
<1>2. /\ [pc |-> "look", event |-> e] \in Task
      /\ [pc |-> "record", event |-> e] \in Task
      /\ [pc |-> "recur", event |-> e] \in Task
      /\ [pc |-> "confirm", event |-> e] \in Task
      /\ \A s \in Statuses :
           [pc |-> "price", event |-> e, status |-> s] \in Task
  BY <1>1 DEF Task
<1>3. Sound([pc |-> "look", event |-> e])
  BY DEF Sound, Tells
<1>4. ASSUME e.kind = "completed"
      PROVE  /\ Sound([pc |-> "record", event |-> e])
             /\ Sound([pc |-> "recur", event |-> e])
             /\ Sound([pc |-> "confirm", event |-> e])
             /\ \A s \in Statuses :
                  Sound([pc |-> "price", event |-> e, status |-> s])
  BY <1>4 DEF Sound, Tells
<1>5. QED
  BY <1>2, <1>3, <1>4

LEMMA DeliverKeeps ==
  ASSUME TypeOK, Ledger, NEW h \in Handlers, NEW e \in happened, Deliver(h, e)
  PROVE  TypeOK' /\ Ledger'
<1> DEFINE t == [pc |-> "look", event |-> e]
<1>1. /\ UNCHANGED <<inv, sub, txn, happened, recorded>>
      /\ byHand' \in BOOLEAN /\ crashes' \in 0 .. MaxCrashes
      /\ task' = [task EXCEPT ![h] = t]
      /\ e \notin recorded
  BY DEF TypeOK, Deliver, desk, Go
<1>2. e.kind = "completed" => Current(e)
  BY <1>1 DEF Ledger, EventsPaid
<1>3. t \in Task /\ Sound(t)
  BY <1>2, Passed DEF TypeOK
<1>4. QED
  BY <1>1, <1>3, OwnTask

LEMMA LookKeeps ==
  ASSUME TypeOK, Ledger, NEW h \in Handlers, Look(h)
  PROVE  TypeOK' /\ Ledger'
<1> DEFINE e == task[h].event
<1>1. /\ UNCHANGED <<inv, sub, txn, happened, recorded>>
      /\ byHand' \in BOOLEAN /\ crashes' \in 0 .. MaxCrashes
      /\ e.kind = "completed"
  BY DEF TypeOK, Look, desk
<1>2. e \in happened /\ Current(e)
  BY <1>1, Told DEF Look, At, Tells
<1>3. inv.status \in Statuses /\ happened \subseteq Event
  BY DEF TypeOK
<1>4. \/ task' = [task EXCEPT ![h] = Idle]
      \/ task' = [task EXCEPT ![h] = [pc |-> "recur", event |-> e]]
      \/ task' = [task EXCEPT ![h] = [pc |-> "price", event |-> e,
                                      status |-> inv.status]]
  BY DEF Look, Go
<1> HIDE DEF e
<1>5. /\ [pc |-> "recur", event |-> e] \in Task
      /\ Sound([pc |-> "recur", event |-> e])
      /\ [pc |-> "price", event |-> e, status |-> inv.status] \in Task
      /\ Sound([pc |-> "price", event |-> e, status |-> inv.status])
  BY <1>1, <1>2, <1>3, Passed
<1>6. \E t \in Task : Sound(t) /\ task' = [task EXCEPT ![h] = t]
  BY <1>4, <1>5, Idler, SoundIdle
<1>7. QED
  BY <1>1, <1>6, OwnTask

LEMMA PriceKeeps ==
  ASSUME TypeOK, Ledger, NEW h \in Handlers, Price(h)
  PROVE  TypeOK' /\ Ledger'
<1> DEFINE e == task[h].event
<1>1. /\ UNCHANGED <<sub, txn, happened, recorded, byHand, crashes>>
      /\ e.kind = "completed" /\ e \in happened /\ Current(e)
      /\ End(e) \in Ends
  BY Told DEF Price, desk, At, Tells
<1>2. happened \subseteq Event /\ inv \in Invoice
  BY DEF TypeOK, Invoice
<1>3. \/ task' = [task EXCEPT ![h] = Idle] /\ UNCHANGED inv
      \/ /\ task' = [task EXCEPT ![h] = [pc |-> "record", event |-> e]]
         /\ UNCHANGED inv
      \/ /\ task' = [task EXCEPT ![h] = [pc |-> "confirm", event |-> e]]
         /\ inv' = [inv EXCEPT !.end = End(e)]
  BY DEF Price, Go
<1> HIDE DEF e
<1>4. /\ [pc |-> "record", event |-> e] \in Task
      /\ Sound([pc |-> "record", event |-> e])
      /\ [pc |-> "confirm", event |-> e] \in Task
      /\ Sound([pc |-> "confirm", event |-> e])
  BY <1>1, <1>2, Passed
<1>5. PICK t \in Task : Sound(t) /\ task' = [task EXCEPT ![h] = t]
  BY <1>3, <1>4, Idler, SoundIdle
<1>6. inv' \in Invoice /\ inv'.txn = inv.txn
  BY <1>1, <1>2, <1>3 DEF Invoice
<1>7. /\ task' \in [Handlers -> Task]
      /\ \A g \in Handlers : task'[g] = task[g] \/ Sound(task'[g])
  BY <1>5 DEF TypeOK
<1>8. /\ sub' \in Subscription /\ sub'.linked = sub.linked
      /\ recorded \subseteq recorded' /\ recorded' \subseteq happened
      /\ byHand' \in BOOLEAN /\ crashes' \in 0 .. MaxCrashes
  BY <1>1 DEF TypeOK, Subscription
<1>9. QED
  BY <1>1, <1>6, <1>7, <1>8, OwnSide

\* The steps that record an event: Record, Recur and Unlink.
LEMMA RecordSteps ==
  ASSUME TypeOK, Ledger, NEW h \in Handlers,
         Record(h) \/ Recur(h) \/ Unlink(h)
  PROVE  TypeOK' /\ Ledger'
<1> DEFINE e == task[h].event
<1>1. /\ UNCHANGED <<txn, happened, byHand, crashes>>
      /\ task' = [task EXCEPT ![h] = Idle]
  BY DEF Record, Recur, Unlink, Go
<1>2. /\ e \in happened /\ e.txn \in Txns /\ End(e) \in Ends
      /\ task[h].pc # "look" => txn[e.txn].state = "completed"
  BY Told DEF Record, Recur, Unlink, At, Tells
<1>3. /\ recorded' = recorded \/ recorded' = recorded \cup {e}
  BY DEF Record, Recur, Unlink
<1>4. /\ \/ inv' = inv
         \/ inv' = [inv EXCEPT !.txn = None]
      /\ \/ sub' = sub
         \/ task[h].pc # "look" /\ sub' = [sub EXCEPT !.linked = e.txn]
         \/ sub' = [sub EXCEPT !.active = TRUE, !.end = End(e)]
  <2>1. CASE Record(h)
    BY <2>1 DEF Record, At
  <2>2. CASE Recur(h)
    BY <2>2 DEF Recur
  <2>3. CASE Unlink(h)
    <3>1. inv \in Invoice
      BY DEF TypeOK, Invoice
    <3>2. inv = [inv EXCEPT !.txn = inv.txn]
      BY <3>1 DEF Invoice
    <3>3. QED
      BY <2>3, <3>2 DEF Unlink
  <2>4. QED
    BY <2>1, <2>2, <2>3
<1> HIDE DEF e
<1>5. inv \in Invoice /\ sub \in Subscription
  BY DEF TypeOK, Invoice, Subscription
<1>6. inv' \in Invoice /\ inv'.txn \in {inv.txn, None}
  BY <1>4, <1>5 DEF Invoice
<1>7. /\ sub' \in Subscription
      /\ \/ sub'.linked = sub.linked
         \/ sub'.linked \in Txns /\ txn[sub'.linked].state = "completed"
  BY <1>2, <1>4, <1>5 DEF Subscription
<1>8. recorded \subseteq recorded' /\ recorded' \subseteq happened
      /\ byHand' \in BOOLEAN /\ crashes' \in 0 .. MaxCrashes
  BY <1>1, <1>2, <1>3 DEF TypeOK
<1>9. /\ task' \in [Handlers -> Task]
      /\ \A g \in Handlers : task'[g] = task[g] \/ Sound(task'[g])
  BY <1>1, Idler, SoundIdle DEF TypeOK
<1>10. QED
  BY <1>1, <1>6, <1>7, <1>8, <1>9, OwnSide

LEMMA ConfirmReadKeeps ==
  ASSUME TypeOK, Ledger, NEW h \in Handlers,
         ConfirmBegin(h) \/ ConfirmRead(h)
  PROVE  TypeOK' /\ Ledger'
<1> DEFINE e == task[h].event
           end == IF e = None THEN inv.end ELSE End(e)
           a == [pc |-> "apply", event |-> e, end |-> end,
                 paid |-> inv.status = "PAID"]
<1>1. /\ UNCHANGED <<inv, sub, txn, happened, recorded>>
      /\ byHand' \in BOOLEAN /\ crashes' \in 0 .. MaxCrashes
  BY DEF TypeOK, ConfirmBegin, ConfirmRead, desk
<1>2. CASE ConfirmBegin(h)
  <2> DEFINE b == [pc |-> "confirm", event |-> None]
  <2>1. b \in Task /\ task' = [task EXCEPT ![h] = b]
    BY <1>2 DEF Task, ConfirmBegin, Go
  <2>2. Sound(b)
    BY DEF Sound, Tells
  <2>3. QED
    BY <1>1, <2>1, <2>2, OwnTask
<1>3. CASE ConfirmRead(h)
  <2>1. e \in Event \cup {None} /\ inv.end \in Ends
    BY <1>3, TaskParts DEF ConfirmRead, At, TypeOK
  <2>2. e # None => /\ e \in happened /\ e.kind = "completed" /\ Current(e)
                    /\ End(e) \in Ends
    BY <1>3, Told DEF ConfirmRead, At, Tells
  <2>3. end \in Ends
    BY <2>1, <2>2
  <2>4. a \in Task
    <3> DEFINE b == inv.status = "PAID"
    <3>1. b \in BOOLEAN
      OBVIOUS
    <3> HIDE DEF e, end, b
    <3>2. [pc |-> "apply", event |-> e, end |-> end, paid |-> b] \in Task
      BY <2>1, <2>3, <3>1 DEF Task
    <3>3. QED
      BY <3>2 DEF b
  <2>5. Sound(a)
    BY <2>2 DEF Sound, Tells
  <2>6. Confirmed(h, e) \in Task /\ Sound(Confirmed(h, e))
    <3>1. CASE e = None
      BY <3>1, Idler, SoundIdle DEF Confirmed
    <3>2. CASE e # None
      <4> HIDE DEF e
      <4>1. happened \subseteq Event
        BY DEF TypeOK
      <4>2. /\ [pc |-> "record", event |-> e] \in Task
            /\ Sound([pc |-> "record", event |-> e])
        BY <2>2, <3>2, <4>1, Passed
      <4>3. QED
        BY <3>2, <4>2 DEF Confirmed
    <3>3. QED
      BY <3>1, <3>2
  <2>7. \/ task' = [task EXCEPT ![h] = Idle]
        \/ task' = [task EXCEPT ![h] = Confirmed(h, e)]
        \/ task' = [task EXCEPT ![h] = a]
    BY <1>3 DEF ConfirmRead, Go
  <2> HIDE DEF a
  <2>8. \E t \in Task : Sound(t) /\ task' = [task EXCEPT ![h] = t]
    BY <2>4, <2>5, <2>6, <2>7, Idler, SoundIdle
  <2>9. QED
    BY <1>1, <2>8, OwnTask
<1>4. QED
  BY <1>2, <1>3

LEMMA ConfirmApplyKeeps ==
  ASSUME TypeOK, Ledger, NEW h \in Handlers, ConfirmApply(h)
  PROVE  TypeOK' /\ Ledger'
<1> DEFINE e == task[h].event
<1>1. /\ UNCHANGED <<txn, happened, recorded, crashes>>
      /\ byHand' \in BOOLEAN
      /\ task[h].end \in Ends /\ e \in Event \cup {None}
      /\ e # None => e \in happened /\ e.kind = "completed" /\ Current(e)
  BY TaskParts, Told DEF TypeOK, ConfirmApply, At, Tells
<1>2. /\ inv \in Invoice /\ sub \in Subscription /\ happened \subseteq Event
  BY DEF TypeOK, Invoice, Subscription
<1>3. inv' \in {inv, Paid}
      /\ sub' \in {sub, [sub EXCEPT !.active = TRUE, !.end = task[h].end]}
  BY DEF ConfirmApply
<1>4. inv' \in Invoice /\ inv'.txn = inv.txn
  BY <1>2, <1>3 DEF Paid, Invoice, Statuses
<1>5. sub' \in Subscription /\ sub'.linked = sub.linked
  BY <1>1, <1>2, <1>3 DEF Subscription
<1>6. Confirmed(h, e) \in Task /\ Sound(Confirmed(h, e))
  <2>1. CASE e = None
    BY <2>1, Idler, SoundIdle DEF Confirmed
  <2>2. CASE e # None
    <3> HIDE DEF e
    <3>1. /\ [pc |-> "record", event |-> e] \in Task
          /\ Sound([pc |-> "record", event |-> e])
      BY <1>1, <1>2, <2>2, Passed
    <3>2. QED
      BY <2>2, <3>1 DEF Confirmed
  <2>3. QED
    BY <2>1, <2>2
<1>7. \/ task' = [task EXCEPT ![h] = Idle]
      \/ task' = [task EXCEPT ![h] = Confirmed(h, e)]
  BY DEF ConfirmApply, Go
<1> HIDE DEF e
<1>8. /\ task' \in [Handlers -> Task]
      /\ \A g \in Handlers : task'[g] = task[g] \/ Sound(task'[g])
  BY <1>6, <1>7, Idler, SoundIdle DEF TypeOK
<1>9. /\ recorded \subseteq recorded' /\ recorded' \subseteq happened
      /\ crashes' \in 0 .. MaxCrashes
  BY <1>1 DEF TypeOK
<1>10. QED
  BY <1>1, <1>4, <1>5, <1>8, <1>9, OwnSide

-----------------------------------------------------------------------------
LEMMA LedgerHolds == Spec => [](TypeOK /\ Ledger)
<1>1. Init => TypeOK /\ Ledger
  <2> SUFFICES ASSUME Init PROVE TypeOK /\ Ledger
    OBVIOUS
  <2>1. 0 \in Ends /\ 1 \in Ends /\ 0 \in 0 .. MaxRenewals /\ 1 \in Terms
    <3>1. 0 \in 0 .. MaxRenewals /\ 1 \in Terms /\ 1 * (0 + 1) = 1
      BY BoundsAssumption DEF Terms
    <3>2. 1 * (0 + 1) \in Ends
      BY <3>1, EndInBounds
    <3>3. 1 \in Ends
      BY <3>1, <3>2
    <3>4. MaxTerm * (MaxRenewals + 1) \in Nat
      BY BoundsAssumption
    <3>5. QED
      BY <3>1, <3>3, <3>4 DEF Ends
  <2>2. txn \in [Txns -> Transaction]
        /\ \A t \in Txns : /\ txn[t].state = "none" /\ ~ txn[t].given
                           /\ txn[t].renewals = 0
    BY <2>1 DEF Init, Transaction
  <2>3. inv \in Invoice /\ inv.txn = None
    BY <2>1 DEF Init, Invoice, Statuses, PAYABLE
  <2>4. sub \in Subscription /\ sub.linked = None
    BY <2>1 DEF Init, Subscription
  <2>5. task \in [Handlers -> Task] /\ \A h \in Handlers : Sound(task[h])
    BY Idler, SoundIdle DEF Init
  <2>6. crashes \in 0 .. MaxCrashes
    BY BoundsAssumption DEF Init
  <2>7. TypeOK
    BY <2>2, <2>3, <2>4, <2>5, <2>6
       DEF Init, TypeOK, Transaction, Invoice, Subscription
  <2>8. Ledger
    BY <2>2, <2>3, <2>5
       DEF Init, Ledger, TasksSound, EventsPaid, TxnsPaid, InvoiceGiven
  <2>9. QED
    BY <2>7, <2>8
<1>2. TypeOK /\ Ledger /\ [Next]_vars => TypeOK' /\ Ledger'
  <2> SUFFICES ASSUME TypeOK, Ledger, [Next]_vars PROVE TypeOK' /\ Ledger'
    OBVIOUS
  <2>1. ASSUME NEW h \in Handlers, Works(h) PROVE TypeOK' /\ Ledger'
    BY <2>1, CheckoutAgainKeeps, CheckoutCreateKeeps, CheckoutClaimKeeps,
       QuietSteps, StatusSteps, LookKeeps, PriceKeeps, RecordSteps,
       ConfirmReadKeeps, ConfirmApplyKeeps DEF Works
  <2>2. ASSUME NEW h \in Handlers,
               \/ Crash(h) \/ ConfirmBegin(h) \/ OverdueRead(h) \/ VoidRead(h)
               \/ \E e \in happened : Deliver(h, e)
               \/ \E term \in Terms :
                    CheckoutRead(h, term) \/ DiscountCancel(h, term)
        PROVE  TypeOK' /\ Ledger'
    BY <2>2, QuietSteps, ConfirmReadKeeps, DeliverKeeps, CheckoutReadKeeps,
       DiscountCancelKeeps
  <2>3. ASSUME MarkPaidOnly \/ Notice \/ NotFound PROVE TypeOK' /\ Ledger'
    BY <2>3, StatusSteps
  <2>4. ASSUME NEW t \in Txns, Pay(t) \/ Fail(t) \/ Renew(t)
        PROVE  TypeOK' /\ Ledger'
    BY <2>4, PayKeeps, FailKeeps, RenewKeeps
  <2>5. ASSUME UNCHANGED vars PROVE TypeOK' /\ Ledger'
    BY <2>5
       DEF vars, TypeOK, Ledger, TasksSound, Sound, Tells, Current, End,
           EventsPaid, TxnsPaid, InvoiceGiven, Completed
  <2>6. QED
    BY <2>1, <2>2, <2>3, <2>4, <2>5 DEF Next
<1>3. QED
  BY <1>1, <1>2, PTL DEF Spec

\* TypeOK is an invariant: no period leaves its bounds, what is recorded
\* happened, and the subscription is linked to a completed transaction only.
THEOREM TypeCorrect == Spec => []TypeOK
  BY LedgerHolds, PTL

-----------------------------------------------------------------------------
(* What is true of an invoice the staff and failed payments have left alone: *)
(* all that is paid is paid with the one transaction of the invoice, so that *)
(* every event still on its way is the last payment of that transaction, and *)
(* whoever applies one of them applies all of them.                          *)

OneOpen ==
    \A t \in Txns : txn[t].given /\ txn[t].state # "canceled" => t = inv.txn

Applied(e) == sub.active /\ sub.end >= End(e)
InvoicePaid ==
    inv.status = "PAID" =>
      /\ inv.txn # None /\ txn[inv.txn].state = "completed"
      /\ Applied(Completed(inv.txn))

\* A webhook that is about to record a payment has seen it applied, and one
\* about to extend the period is of the linked subscription.
Proper(t) ==
    /\ \/ t.pc = "price" /\ t.status = "PAID"
       \/ t.pc = "record"
       => Applied(t.event)
    /\ t.pc = "recur" => sub.linked = t.event.txn
TasksProper == \A h \in Handlers : Proper(task[h])

RecordedDone ==
    \A e \in recorded :
      /\ sub.active /\ sub.linked = e.txn /\ sub.end >= End(e)

Payment == OneOpen /\ InvoicePaid /\ TasksProper /\ RecordedDone

\* What was touched stays so.
LEMMA TouchedStays ==
  ASSUME [Next]_vars, Untouched'
  PROVE  Untouched
<1> DEFINE Grows == (byHand => byHand') /\ recorded \subseteq recorded'
<1>1. ASSUME NEW h \in Handlers,
             \/ CheckoutAgain(h) \/ CheckoutCreate(h) \/ CheckoutRefused(h)
             \/ CheckoutClaim(h)
      PROVE  Grows
  BY <1>1 DEF CheckoutAgain, CheckoutCreate, CheckoutRefused, CheckoutClaim,
              desk
<1>2. ASSUME NEW h \in Handlers,
             Look(h) \/ Price(h) \/ ConfirmRead(h) \/ ConfirmApply(h)
      PROVE  Grows
  <2>1. Look(h) \/ Price(h) => UNCHANGED <<byHand, recorded>>
    BY DEF Look, Price, desk
  <2>2. ConfirmRead(h) => UNCHANGED <<byHand, recorded>>
    BY DEF ConfirmRead, desk
  <2>3. ConfirmApply(h) => Grows
    BY DEF ConfirmApply
  <2>4. QED
    BY <1>2, <2>1, <2>2, <2>3
<1>3. ASSUME NEW h \in Handlers, Record(h) \/ Recur(h) \/ Unlink(h)
      PROVE  Grows
  BY <1>3 DEF Record, Recur, Unlink
<1>4. ASSUME NEW h \in Handlers,
             \/ OverdueWrite(h) \/ VoidWrite(h)
             \/ DiscountRead(h) \/ DiscountWrite(h)
      PROVE  Grows
  BY <1>4 DEF OverdueWrite, VoidWrite, DiscountRead, DiscountWrite, desk
<1>5. ASSUME NEW h \in Handlers,
             Crash(h) \/ ConfirmBegin(h) \/ OverdueRead(h) \/ VoidRead(h)
      PROVE  Grows
  BY <1>5 DEF Crash, ConfirmBegin, OverdueRead, VoidRead, desk
<1>6. ASSUME NEW h \in Handlers, NEW e \in happened, Deliver(h, e)
      PROVE  Grows
  BY <1>6 DEF Deliver, desk
<1>7. ASSUME NEW h \in Handlers, NEW term \in Terms,
             CheckoutRead(h, term) \/ DiscountCancel(h, term)
      PROVE  Grows
  BY <1>7 DEF CheckoutRead, DiscountCancel, desk
<1>8. ASSUME MarkPaidOnly \/ Notice \/ NotFound PROVE Grows
  BY <1>8 DEF MarkPaidOnly, Notice, NotFound, desk
<1>9. ASSUME NEW t \in Txns, Pay(t) \/ Fail(t) \/ Renew(t) PROVE Grows
  BY <1>9 DEF Pay, Fail, Renew
<1>10. UNCHANGED vars => Grows
  BY DEF vars
<1>11. Grows
  <2> HIDE DEF Grows
  <2> QED
    BY <1>1, <1>2, <1>3, <1>4, <1>5, <1>6, <1>7, <1>8, <1>9, <1>10
       DEF Next, Works
<1>12. QED
  BY <1>11 DEF Untouched, Failed

\* Every payment is of the transaction of the invoice, and it has one last
\* payment, which reaches as far as any of them.
LEMMA PaidOnce ==
  ASSUME TypeOK, Ledger, OneOpen,
         NEW e \in happened, e.kind = "completed"
  PROVE  /\ e.txn = inv.txn /\ inv.txn \in Txns /\ inv.txn # None
         /\ txn[inv.txn].state = "completed"
<1>1. e.txn \in Txns
  BY EventParts DEF TypeOK
<1>2. txn[e.txn].state = "completed" /\ txn[e.txn].given
  BY <1>1 DEF Ledger, EventsPaid, TxnsPaid
<1>3. QED
  BY <1>1, <1>2, NoneAssumption DEF OneOpen

LEMMA LastPayment ==
  ASSUME TypeOK, Ledger, OneOpen,
         NEW e \in happened, e.kind = "completed", Current(e),
         NEW f \in happened, f.kind = "completed"
  PROVE  /\ End(f) <= End(e) /\ End(f) \in Nat /\ End(e) \in Nat
         /\ Current(f) => f = e
<1>1. e \in Event /\ f \in Event
  BY DEF TypeOK
<1>2. e.txn = inv.txn /\ f.txn = inv.txn /\ inv.txn \in Txns
  BY PaidOnce
<1>3. /\ e.n \in 0 .. MaxRenewals /\ f.n \in 0 .. MaxRenewals
      /\ txn[inv.txn].term \in Terms
  BY <1>1, <1>2, EventParts DEF TypeOK
<1>4. f.n <= e.n
  BY <1>2 DEF Ledger, EventsPaid, Current
<1>5. End(f) <= End(e) /\ End(f) \in Nat /\ End(e) \in Nat
  BY <1>2, <1>3, <1>4, EndGrows DEF End
<1>6. Current(f) => f.n = e.n
  BY <1>2 DEF Current
<1>7. f.n = e.n => f = e
  BY <1>1, <1>2, EventParts
<1>8. QED
  BY <1>5, <1>6, <1>7

LEMMA RecordedPayments ==
  ASSUME TypeOK, Untouched, NEW e \in recorded
  PROVE  e \in happened /\ e.kind = "completed"
<1>1. e \in Event /\ e \in happened
  BY DEF TypeOK
<1>2. e.kind = "failed" => e = Failed(e.txn) /\ e.txn \in Txns
  BY <1>1, EventParts
<1>3. e.kind # "failed"
  BY <1>2 DEF Untouched
<1>4. QED
  BY <1>1, <1>3, EventParts

\* A step that changes neither what is paid nor what is recorded, and that
\* confirms nothing.
LEMMA NothingPaid ==
  ASSUME TypeOK, Payment, UNCHANGED <<txn, sub, recorded>>,
         inv'.txn = inv.txn, inv'.status = "PAID" => inv.status = "PAID",
         task' \in [Handlers -> Task],
         \A g \in Handlers : task'[g] = task[g] \/ Proper(task'[g])
  PROVE  Payment'
<1>1. OneOpen'
  BY DEF Payment, OneOpen
<1>2. InvoicePaid'
  BY DEF Payment, InvoicePaid, Applied, End, Completed
<1>3. TasksProper'
  <2> SUFFICES ASSUME NEW g \in Handlers PROVE Proper(task[g])'
    BY DEF TasksProper
  <2>1. PICK t \in Task : t = task'[g]
    OBVIOUS
  <2>2. Proper(t)
    BY <2>1 DEF Payment, TasksProper
  <2>3. QED
    BY <2>1, <2>2 DEF Proper, Applied, End
<1>4. RecordedDone'
  BY DEF Payment, RecordedDone, End
<1>5. QED
  BY <1>1, <1>2, <1>3, <1>4 DEF Payment

LEMMA ProperTasks ==
  ASSUME NEW t, t.pc \notin {"price", "record", "recur"}
  PROVE  Proper(t)
  BY DEF Proper

\* A step of a handler that changes nothing but its task.
LEMMA OwnTaskPaid ==
  ASSUME TypeOK, Payment, UNCHANGED <<inv, txn, sub, recorded>>,
         NEW h \in Handlers, NEW t \in Task, Proper(t),
         task' = [task EXCEPT ![h] = t]
  PROVE  Payment'
<1>1. /\ task' \in [Handlers -> Task]
      /\ \A g \in Handlers : task'[g] = task[g] \/ Proper(task'[g])
  BY DEF TypeOK
<1>2. QED
  BY <1>1, NothingPaid

\* A step that writes a transaction, and leaves the period as it is.
LEMMA PeriodStays ==
  ASSUME TypeOK, Ledger, Untouched, Payment, Onward,
         UNCHANGED <<sub, recorded>>, OneOpen', inv'.status = inv.status,
         inv'.txn = inv.txn \/ inv.status # "PAID",
         task' \in [Handlers -> Task],
         \A g \in Handlers :
           task'[g] = task[g] \/ task'[g].pc \in {"idle", "claim", "reset"}
  PROVE  Payment'
<1>1. \A e \in happened :
        e.kind = "completed" =>
          /\ End(e)' = End(e)
          /\ e.txn \in Txns
  BY EventParts DEF Ledger, EventsPaid, Onward, End, TypeOK
<1>2. InvoicePaid'
  <2> SUFFICES ASSUME inv'.status = "PAID"
               PROVE  /\ inv'.txn # None /\ txn'[inv'.txn].state = "completed"
                      /\ Applied(Completed(inv.txn))'
    BY DEF InvoicePaid
  <2>1. /\ inv'.txn = inv.txn /\ inv.txn # None /\ inv.txn \in Txns
        /\ txn[inv.txn].state = "completed"
        /\ Applied(Completed(inv.txn))
    BY DEF Payment, InvoicePaid, TypeOK
  <2>2. /\ txn'[inv.txn].state = "completed"
        /\ txn'[inv.txn].term = txn[inv.txn].term
    BY <2>1 DEF Onward
  <2>3. QED
    BY <2>1, <2>2 DEF Applied, End, Completed
<1>3. TasksProper'
  <2> SUFFICES ASSUME NEW g \in Handlers PROVE Proper(task[g])'
    BY DEF TasksProper
  <2>1. CASE task'[g] = task[g]
    <3>1. PICK t \in Task : t = task[g]
      BY DEF TypeOK
    <3>2. Proper(t)
      BY <3>1 DEF Payment, TasksProper
    <3>3. t.pc \in {"price", "record", "recur"} =>
            t.event \in happened /\ t.event.kind = "completed"
      BY <3>1, Told DEF Tells
    <3>4. Proper(t)'
      BY <1>1, <3>2, <3>3 DEF Proper, Applied
    <3>5. QED
      BY <2>1, <3>1, <3>4
  <2>2. CASE task'[g].pc \in {"idle", "claim", "reset"}
    BY <2>2 DEF Proper
  <2>3. QED
    BY <2>1, <2>2
<1>4. RecordedDone'
  BY <1>1, RecordedPayments DEF Payment, RecordedDone
<1>5. QED
  BY <1>2, <1>3, <1>4 DEF Payment

\* A payment is applied: every event still on its way is this one, and no
\* payment before it reaches further.
LEMMA PeriodSet ==
  ASSUME TypeOK, Ledger, Untouched, Payment,
         NEW e \in happened, e.kind = "completed", Current(e),
         UNCHANGED txn,
         sub' = [sub EXCEPT !.active = TRUE, !.end = End(e)],
         inv'.txn = inv.txn,
         \/ recorded' = recorded
         \/ recorded' = recorded \cup {e} /\ sub.linked = e.txn,
         task' \in [Handlers -> Task],
         \A g \in Handlers :
           \/ task'[g] = task[g]
           \/ task'[g] = Idle
           \/ task'[g] = [pc |-> "record", event |-> e]
  PROVE  Payment'
<1>1. sub'.active /\ sub'.end = End(e) /\ sub'.linked = sub.linked
  BY DEF TypeOK
<1>2. /\ e.txn = inv.txn /\ inv.txn \in Txns /\ inv.txn # None
      /\ txn[inv.txn].state = "completed" /\ OneOpen
  BY PaidOnce DEF Payment
<1>3. OneOpen'
  BY DEF Payment, OneOpen
<1>4. \A f \in happened :
        f.kind = "completed" => /\ Applied(f)'
                                /\ f.txn = e.txn
                                /\ End(f)' = End(f)
  <2> TAKE f \in happened
  <2> HAVE f.kind = "completed"
  <2>1. End(f) <= End(e) /\ End(f) \in Nat /\ End(e) \in Nat
    BY <1>2, LastPayment
  <2>2. End(f)' = End(f)
    BY DEF End
  <2>3. Applied(f)'
    BY <1>1, <2>1, <2>2 DEF Applied
  <2>4. f.txn = e.txn
    BY <1>2, PaidOnce
  <2>5. QED
    BY <2>2, <2>3, <2>4
<1>5. InvoicePaid'
  <2>1. Completed(inv.txn) \in happened
    BY <1>2 DEF Ledger, TxnsPaid
  <2>2. PICK f \in happened : f = Completed(inv.txn)
    BY <2>1
  <2>3. f.kind = "completed"
    BY <2>2 DEF Completed
  <2>4. Applied(f)'
    BY <1>4, <2>3
  <2>5. f = Completed(inv.txn)'
    BY <2>2 DEF Completed
  <2>6. Applied(Completed(inv.txn))'
    BY <2>4, <2>5 DEF Applied, End
  <2>7. QED
    BY <1>2, <2>6 DEF InvoicePaid
<1>6. TasksProper'
  <2> SUFFICES ASSUME NEW g \in Handlers PROVE Proper(task[g])'
    BY DEF TasksProper
  <2>1. CASE task'[g] = task[g]
    <3>1. PICK t \in Task : t = task[g]
      BY DEF TypeOK
    <3>2. Proper(t)
      BY <3>1 DEF Payment, TasksProper
    <3>3. t.pc \in {"price", "record", "recur"} =>
            t.event \in happened /\ t.event.kind = "completed"
      BY <3>1, Told DEF Tells
    <3>4. Proper(t)'
      BY <1>1, <1>4, <3>2, <3>3 DEF Proper
    <3>5. QED
      BY <2>1, <3>1, <3>4
  <2>2. CASE task'[g] = Idle
    BY <2>2 DEF Proper, Idle
  <2>3. CASE task'[g] = [pc |-> "record", event |-> e]
    BY <1>4, <2>3 DEF Proper, Applied, End
  <2>4. QED
    BY <2>1, <2>2, <2>3
<1>7. RecordedDone'
  <2> SUFFICES ASSUME NEW f \in recorded'
               PROVE  /\ sub'.active /\ sub'.linked = f.txn
                      /\ sub'.end >= End(f)'
    BY DEF RecordedDone
  <2>1. f \in happened /\ f.kind = "completed"
    BY RecordedPayments
  <2>2. sub.linked = e.txn
    BY <1>4, <2>1 DEF Payment, RecordedDone
  <2>3. QED
    BY <1>1, <1>4, <2>1, <2>2 DEF Applied
<1>8. QED
  BY <1>3, <1>5, <1>6, <1>7 DEF Payment

-----------------------------------------------------------------------------
(* The steps, while the invoice is untouched *)

\* Those that only read, or write a status.
LEMMA ReadingPays ==
  ASSUME TypeOK, Payment, NEW h \in Handlers,
         \/ CheckoutRefused(h) \/ OverdueRead(h) \/ VoidRead(h)
         \/ DiscountRead(h) \/ Crash(h) \/ ConfirmBegin(h)
         \/ \E term \in Terms : CheckoutRead(h, term)
         \/ \E e \in happened : Deliver(h, e)
  PROVE  Payment'
<1>1. UNCHANGED <<inv, txn, sub, recorded>>
  BY DEF CheckoutRefused, OverdueRead, VoidRead, DiscountRead, Crash,
         ConfirmBegin, CheckoutRead, Deliver, desk
<1>2. \E t \in Task : /\ t.pc \notin {"price", "record", "recur"}
                      /\ task' = [task EXCEPT ![h] = t]
  <2>1. CASE CheckoutRefused(h) \/ Crash(h)
    BY <2>1, Idler DEF CheckoutRefused, Crash, Go
  <2>2. CASE OverdueRead(h) \/ VoidRead(h)
    <3>1. [pc |-> "overdue"] \in Task /\ [pc |-> "void"] \in Task
      BY DEF Task
    <3>2. QED
      BY <2>2, <3>1 DEF OverdueRead, VoidRead, Go
  <2>3. CASE DiscountRead(h)
    <3> DEFINE t == [pc |-> "rewrite", term |-> task[h].term]
    <3>1. task[h].term \in Terms
      BY <2>3, TaskParts DEF DiscountRead, At, TypeOK
    <3>2. t \in Task /\ t.pc = "rewrite"
      BY <3>1 DEF Task
    <3>3. \/ task' = [task EXCEPT ![h] = t]
          \/ task' = [task EXCEPT ![h] = Idle]
      BY <2>3 DEF DiscountRead, Go
    <3> HIDE DEF t
    <3>4. QED
      BY <3>2, <3>3, Idler
  <2>4. CASE ConfirmBegin(h)
    <3> DEFINE t == [pc |-> "confirm", event |-> None]
    <3>1. t \in Task /\ t.pc = "confirm" /\ task' = [task EXCEPT ![h] = t]
      BY <2>4 DEF ConfirmBegin, Go, Task
    <3> HIDE DEF t
    <3>2. QED
      BY <3>1
  <2>5. CASE \E term \in Terms : CheckoutRead(h, term)
    <3>1. PICK term \in Terms : CheckoutRead(h, term)
      BY <2>5
    <3> DEFINE t == [pc |-> "ask", seen |-> inv.txn, term |-> term]
    <3>2. inv.txn \in Txns \cup {None}
      BY DEF TypeOK
    <3>3. t \in Task /\ t.pc = "ask" /\ task' = [task EXCEPT ![h] = t]
      BY <3>1, <3>2 DEF CheckoutRead, Go, Task
    <3> HIDE DEF t
    <3>4. QED
      BY <3>3
  <2>6. CASE \E e \in happened : Deliver(h, e)
    <3>1. PICK e \in happened : Deliver(h, e)
      BY <2>6
    <3> DEFINE t == [pc |-> "look", event |-> e]
    <3>2. e \in Event
      BY DEF TypeOK
    <3>3. t \in Task /\ t.pc = "look" /\ task' = [task EXCEPT ![h] = t]
      BY <3>1, <3>2 DEF Deliver, Go, Task
    <3> HIDE DEF t
    <3>4. QED
      BY <3>3
  <2>7. QED
    BY <2>1, <2>2, <2>3, <2>4, <2>5, <2>6
<1>3. PICK t \in Task : /\ t.pc \notin {"price", "record", "recur"}
                        /\ task' = [task EXCEPT ![h] = t]
  BY <1>2
<1>4. Proper(t)
  BY <1>3, ProperTasks
<1>5. QED
  BY <1>1, <1>3, <1>4, OwnTaskPaid

LEMMA StatusPays ==
  ASSUME TypeOK, Payment,
         Notice \/ NotFound \/ \E h \in Handlers : OverdueWrite(h)
  PROVE  Payment'
<1>1. /\ UNCHANGED <<sub, txn, recorded>>
      /\ inv'.txn = inv.txn /\ inv'.status # "PAID"
  BY DEF Notice, NotFound, OverdueWrite, desk, TypeOK
<1>2. task' = task \/ \E h \in Handlers : task' = [task EXCEPT ![h] = Idle]
  BY DEF Notice, NotFound, OverdueWrite, Go
<1>3. /\ task' \in [Handlers -> Task]
      /\ \A g \in Handlers : task'[g] = task[g] \/ task'[g] = Idle
  BY <1>2, Idler DEF TypeOK
<1>4. Proper(Idle)
  BY DEF Proper, Idle
<1>5. \A g \in Handlers : task'[g] = task[g] \/ Proper(task'[g])
  BY <1>3, <1>4
<1>6. QED
  BY <1>1, <1>3, <1>5, NothingPaid

\* A first payment finds no link and the invoice that names it; if the invoice
\* is paid, it was paid with this payment.
LEMMA LookPays ==
  ASSUME TypeOK, Ledger, Untouched, Payment, NEW h \in Handlers, Look(h)
  PROVE  Payment'
<1> DEFINE e == task[h].event
           r == [pc |-> "recur", event |-> e]
           q == [pc |-> "price", event |-> e, status |-> inv.status]
<1>1. /\ UNCHANGED <<inv, sub, txn, happened, recorded>>
      /\ e.kind = "completed"
  BY DEF Look, desk
<1>2. e \in happened /\ e \in Event /\ Current(e) /\ e.txn \in Txns
  BY <1>1, Told DEF Look, At, Tells
<1>3. \/ task' = [task EXCEPT ![h] = Idle]
      \/ sub.linked = e.txn /\ task' = [task EXCEPT ![h] = r]
      \/ /\ sub.linked # e.txn /\ inv.txn = e.txn
         /\ task' = [task EXCEPT ![h] = q]
  BY DEF Look, Go
<1>4. Idle \in Task /\ Proper(Idle)
  BY Idler DEF Proper, Idle
<1>5. r \in Task /\ (sub.linked = e.txn => Proper(r))
  <2> HIDE DEF e
  <2>1. r \in Task
    BY <1>2 DEF Task
  <2>2. QED
    BY <2>1 DEF Proper
<1>6. q \in Task /\ (sub.linked # e.txn /\ inv.txn = e.txn => Proper(q))
  <2>1. q \in Task
    <3>1. inv.status \in Statuses
      BY DEF TypeOK
    <3> HIDE DEF e
    <3>2. QED
      BY <1>2, <3>1 DEF Task
  <2>2. ASSUME sub.linked # e.txn, inv.txn = e.txn, inv.status = "PAID"
        PROVE  Applied(e)
    <3>1. txn[e.txn].renewals = 0
      <4>1. ASSUME txn[e.txn].renewals # 0 PROVE FALSE
        <5>1. Completed(e.txn) \in recorded
          BY <1>2, <4>1 DEF Ledger, TxnsPaid
        <5>2. sub.linked = Completed(e.txn).txn
          BY <5>1 DEF Payment, RecordedDone
        <5>3. QED
          BY <2>2, <5>2 DEF Completed
      <4>2. QED
        BY <4>1
    <3>2. e.n = 0
      BY <1>2, <3>1 DEF Current
    <3>3. e = Completed(inv.txn)
      BY <1>1, <1>2, <2>2, <3>2, EventParts DEF Completed
    <3>4. QED
      BY <2>2, <3>3 DEF Payment, InvoicePaid
  <2>3. QED
    BY <2>1, <2>2 DEF Proper
<1> HIDE DEF e, r, q
<1>7. QED
  BY <1>1, <1>3, <1>4, <1>5, <1>6, OwnTaskPaid

LEMMA PricePays ==
  ASSUME TypeOK, Ledger, Payment, NEW h \in Handlers, Price(h)
  PROVE  Payment'
<1> DEFINE e == task[h].event
           r == [pc |-> "record", event |-> e]
           c == [pc |-> "confirm", event |-> e]
<1>1. UNCHANGED <<sub, txn, happened, recorded>>
  BY DEF Price, desk
<1>2. e \in Event /\ At(h, "price")
  BY Told DEF Price, At, Tells
<1>3. \/ task' = [task EXCEPT ![h] = Idle]
      \/ task[h].status = "PAID" /\ task' = [task EXCEPT ![h] = r]
      \/ task' = [task EXCEPT ![h] = c]
  BY DEF Price, Go
<1>4. inv'.txn = inv.txn /\ inv'.status = inv.status
  BY DEF Price, TypeOK
<1>5. r \in Task /\ (task[h].status = "PAID" => Proper(r))
  <2>1. task[h].status = "PAID" => Applied(e)
    BY <1>2 DEF Payment, TasksProper, Proper, At
  <2> HIDE DEF e
  <2>2. r \in Task
    BY <1>2 DEF Task
  <2>3. QED
    BY <2>1, <2>2 DEF Proper
<1>6. c \in Task /\ Proper(c)
  <2> HIDE DEF e
  <2>1. c \in Task
    BY <1>2 DEF Task
  <2>2. QED
    BY <2>1 DEF Proper
<1>7. Idle \in Task /\ Proper(Idle)
  BY Idler DEF Proper, Idle
<1> HIDE DEF e, r, c
<1>8. PICK t \in Task : Proper(t) /\ task' = [task EXCEPT ![h] = t]
  BY <1>3, <1>5, <1>6, <1>7
<1>9. /\ task' \in [Handlers -> Task]
      /\ \A g \in Handlers : task'[g] = task[g] \/ Proper(task'[g])
  BY <1>8 DEF TypeOK
<1>10. QED
  BY <1>1, <1>4, <1>9, NothingPaid

LEMMA ConfirmReadPays ==
  ASSUME TypeOK, Ledger, Payment, NEW h \in Handlers, ConfirmRead(h)
  PROVE  Payment'
<1> DEFINE e == task[h].event
           end == IF e = None THEN inv.end ELSE End(e)
           a == [pc |-> "apply", event |-> e, end |-> end,
                 paid |-> inv.status = "PAID"]
           r == [pc |-> "record", event |-> e]
<1>1. UNCHANGED <<inv, sub, txn, recorded>> /\ At(h, "confirm")
  BY DEF ConfirmRead, desk
<1>2. e \in Event \cup {None} /\ inv.end \in Ends
  BY <1>1, TaskParts DEF At, TypeOK
<1>3. e # None => e \in Event /\ End(e) \in Ends
  BY <1>1, Told DEF At, Tells
<1>4. \/ task' = [task EXCEPT ![h] = Idle]
      \/ e # None /\ Applied(e) /\ task' = [task EXCEPT ![h] = r]
      \/ task' = [task EXCEPT ![h] = a]
  BY DEF ConfirmRead, Confirmed, Applied, Go
<1>5. e # None /\ Applied(e) => r \in Task /\ Proper(r)
  <2> HIDE DEF e
  <2> SUFFICES ASSUME e # None, Applied(e) PROVE r \in Task /\ Proper(r)
    OBVIOUS
  <2>1. r \in Task
    BY <1>3 DEF Task
  <2>2. QED
    BY <2>1 DEF Proper
<1>6. a \in Task /\ Proper(a)
  <2>1. end \in Ends
    BY <1>2, <1>3
  <2> DEFINE b == inv.status = "PAID"
  <2>2. b \in BOOLEAN
    OBVIOUS
  <2> HIDE DEF e, end, b
  <2>3. [pc |-> "apply", event |-> e, end |-> end, paid |-> b] \in Task
    BY <1>2, <2>1, <2>2 DEF Task
  <2>4. a \in Task
    BY <2>3 DEF b
  <2>5. Proper(a)
    BY DEF Proper
  <2>6. QED
    BY <2>4, <2>5
<1>7. Idle \in Task /\ Proper(Idle)
  BY Idler DEF Proper, Idle
<1> HIDE DEF e, a, r
<1>8. PICK t \in Task : Proper(t) /\ task' = [task EXCEPT ![h] = t]
  BY <1>4, <1>5, <1>6, <1>7
<1>9. QED
  BY <1>1, <1>8, OwnTaskPaid

\* The steps that apply a payment, and those that record one.
LEMMA ConfirmApplyPays ==
  ASSUME TypeOK, Ledger, Untouched, Payment, Untouched',
         NEW h \in Handlers, ConfirmApply(h)
  PROVE  Payment'
<1> DEFINE e == task[h].event
           r == [pc |-> "record", event |-> e]
<1>1. UNCHANGED <<txn, recorded>> /\ At(h, "apply") /\ e # None
  BY DEF ConfirmApply, Untouched
<1>2. e \in happened /\ e \in Event /\ e.kind = "completed" /\ Current(e)
  BY <1>1, Told DEF At, Tells
<1>3. task[h].end = End(e)
  BY <1>1 DEF Ledger, TasksSound, Sound, At
<1>4. \/ /\ inv' \in {inv, Paid} /\ task' = [task EXCEPT ![h] = r]
         /\ sub' = [sub EXCEPT !.active = TRUE, !.end = End(e)]
      \/ task' = [task EXCEPT ![h] = Idle] /\ UNCHANGED <<inv, sub>>
  BY <1>1, <1>3 DEF ConfirmApply, Go, Confirmed
<1>5. CASE task' = [task EXCEPT ![h] = Idle] /\ UNCHANGED <<inv, sub>>
  <2>1. Idle \in Task /\ Proper(Idle)
    BY Idler DEF Proper, Idle
  <2>2. QED
    BY <1>1, <1>5, <2>1, OwnTaskPaid
<1>6. CASE /\ inv' \in {inv, Paid} /\ task' = [task EXCEPT ![h] = r]
           /\ sub' = [sub EXCEPT !.active = TRUE, !.end = End(e)]
  <2>1. inv'.txn = inv.txn
    BY <1>6 DEF Paid, TypeOK
  <2>2. PICK f \in happened : f = e
    BY <1>2
  <2> HIDE DEF e
  <2>3. r \in Task
    BY <1>2 DEF Task
  <2>4. /\ task' \in [Handlers -> Task]
        /\ \A g \in Handlers :
             \/ task'[g] = task[g]
             \/ task'[g] = Idle
             \/ task'[g] = [pc |-> "record", event |-> f]
    <3> HIDE DEF r
    <3>1. /\ task' \in [Handlers -> Task]
          /\ \A g \in Handlers : task'[g] = task[g] \/ task'[g] = r
      BY <1>6, <2>3 DEF TypeOK
    <3>2. r = [pc |-> "record", event |-> f]
      BY <2>2 DEF r
    <3>3. QED
      BY <3>1, <3>2
  <2>5. /\ f.kind = "completed" /\ Current(f)
        /\ sub' = [sub EXCEPT !.active = TRUE, !.end = End(f)]
    BY <1>2, <1>6, <2>2
  <2>6. QED
    BY <1>1, <2>1, <2>4, <2>5, PeriodSet
<1>7. QED
  BY <1>4, <1>5, <1>6

LEMMA RecurPays ==
  ASSUME TypeOK, Ledger, Untouched, Payment, NEW h \in Handlers, Recur(h)
  PROVE  Payment'
<1> DEFINE e == task[h].event
<1>1. /\ UNCHANGED <<inv, txn>> /\ At(h, "recur")
      /\ task' = [task EXCEPT ![h] = Idle]
  BY DEF Recur, Go
<1>2. e \in happened /\ e \in Event /\ e.kind = "completed" /\ Current(e)
  BY <1>1, Told DEF At, Tells
<1>3. sub.linked = e.txn
  BY <1>1 DEF Payment, TasksProper, Proper, At
<1>4. Idle \in Task /\ Proper(Idle)
  BY Idler DEF Proper, Idle
<1>5. CASE e \in recorded
  BY <1>1, <1>4, <1>5, OwnTaskPaid DEF Recur
<1>6. CASE e \notin recorded
  <2>1. /\ sub' = [sub EXCEPT !.active = TRUE, !.end = End(e)]
        /\ recorded' = recorded \cup {e}
    BY <1>6 DEF Recur
  <2>2. PICK f \in happened : f = e
    BY <1>2
  <2> HIDE DEF e
  <2>3. /\ task' \in [Handlers -> Task]
        /\ \A g \in Handlers : task'[g] = task[g] \/ task'[g] = Idle
    BY <1>1, <1>4 DEF TypeOK
  <2>4. /\ f.kind = "completed" /\ Current(f) /\ sub.linked = f.txn
        /\ sub' = [sub EXCEPT !.active = TRUE, !.end = End(f)]
        /\ recorded' = recorded \cup {f}
    BY <1>2, <1>3, <2>1, <2>2
  <2>5. QED
    BY <1>1, <2>3, <2>4, PeriodSet
<1>7. QED
  BY <1>5, <1>6

LEMMA RecordPays ==
  ASSUME TypeOK, Ledger, Untouched, Payment, NEW h \in Handlers, Record(h)
  PROVE  Payment'
<1> DEFINE e == task[h].event
<1>1. /\ UNCHANGED <<inv, txn>> /\ At(h, "record")
      /\ task' = [task EXCEPT ![h] = Idle]
  BY DEF Record, Go
<1>2. e \in happened /\ e \in Event /\ e.kind = "completed" /\ Current(e)
  BY <1>1, Told DEF At, Tells
<1>3. Applied(e)
  BY <1>1 DEF Payment, TasksProper, Proper, At
<1>4. Idle \in Task /\ Proper(Idle)
  BY Idler DEF Proper, Idle
<1>5. CASE e \in recorded
  BY <1>1, <1>4, <1>5, OwnTaskPaid DEF Record
<1>6. CASE e \notin recorded
  <2>1. /\ sub' = [sub EXCEPT !.linked = e.txn]
        /\ recorded' = recorded \cup {e}
    BY <1>6 DEF Record
  <2> HIDE DEF e
  <2>2. e.txn = inv.txn /\ inv.txn \in Txns
    BY <1>2, PaidOnce DEF Payment
  <2>3. sub'.linked = inv.txn /\ sub'.active = sub.active /\ sub'.end = sub.end
    BY <2>1, <2>2 DEF TypeOK
  <2>4. OneOpen'
    BY <1>1 DEF Payment, OneOpen
  <2>5. InvoicePaid'
    BY <1>1, <2>3 DEF Payment, InvoicePaid, Applied, End, Completed
  <2>6. TasksProper'
    <3> SUFFICES ASSUME NEW g \in Handlers PROVE Proper(task[g])'
      BY DEF TasksProper
    <3>1. CASE g = h
      <4>1. task'[g] = Idle
        BY <1>1, <3>1 DEF TypeOK
      <4>2. QED
        BY <4>1 DEF Proper, Idle
    <3>2. CASE g # h
      <4>1. PICK t \in Task : t = task[g]
        BY DEF TypeOK
      <4>2. task'[g] = t
        BY <1>1, <3>2, <4>1 DEF TypeOK
      <4>3. Proper(t)
        BY <4>1 DEF Payment, TasksProper
      <4>4. t.pc = "recur" => t.event.txn = inv.txn
        BY <4>1, Told, PaidOnce DEF Tells, Payment
      <4>5. QED
        BY <1>1, <2>3, <4>2, <4>3, <4>4 DEF Proper, Applied, End
    <3>3. QED
      BY <3>1, <3>2
  <2>7. RecordedDone'
    <3> SUFFICES ASSUME NEW f \in recorded'
                 PROVE  /\ sub'.active /\ sub'.linked = f.txn
                        /\ sub'.end >= End(f)'
      BY DEF RecordedDone
    <3>1. End(f)' = End(f)
      BY <1>1 DEF End
    <3>2. CASE f = e
      BY <1>3, <2>2, <2>3, <3>1, <3>2 DEF Applied
    <3>3. CASE f \in recorded
      <4>1. f.txn = inv.txn
        BY <3>3, RecordedPayments, PaidOnce DEF Payment
      <4>2. QED
        BY <2>3, <3>1, <3>3, <4>1 DEF Payment, RecordedDone
    <3>4. QED
      BY <2>1, <3>2, <3>3
  <2>8. QED
    BY <2>4, <2>5, <2>6, <2>7 DEF Payment
<1>7. QED
  BY <1>5, <1>6

\* The steps that write a transaction.
LEMMA CheckoutPays ==
  ASSUME TypeOK, Ledger, Untouched, Payment, NEW h \in Handlers,
         CheckoutAgain(h) \/ CheckoutCreate(h)
  PROVE  Payment'
<1>1. Onward /\ task' \in [Handlers -> Task]
  BY CheckoutAgainKeeps, CheckoutCreateKeeps DEF TypeOK
<1>2. /\ UNCHANGED <<inv, sub, recorded>>
      /\ \A g \in Handlers :
           task'[g] = task[g] \/ task'[g].pc \in {"idle", "claim"}
  <2>1. CASE CheckoutAgain(h)
    BY <2>1, Idler DEF CheckoutAgain, Go, TypeOK
  <2>2. CASE CheckoutCreate(h)
    BY <2>2 DEF CheckoutCreate, Go, TypeOK
  <2>3. QED
    BY <2>1, <2>2
<1>3. OneOpen'
  <2>1. CASE CheckoutAgain(h)
    <3> DEFINE s == task[h].seen
    <3>1. /\ At(h, "ask") /\ s \in Txns /\ txn[s].state = "open"
          /\ txn' = [txn EXCEPT ![s].term = task[h].term, ![s].given = TRUE]
      BY <2>1, TaskParts DEF CheckoutAgain, At, TypeOK
    <3>2. txn[s].given
      BY <3>1, NoneAssumption DEF Ledger, TasksSound, Sound, At
    <3>3. \A t \in Txns : /\ txn'[t].given => txn[t].given
                          /\ txn'[t].state = txn[t].state
      <4>1. txn[s] \in Transaction
        BY <3>1 DEF TypeOK, Transaction
      <4> DEFINE x == [txn[s] EXCEPT !.term = task[h].term, !.given = TRUE]
      <4>2. x.state = txn[s].state
        BY <4>1 DEF Transaction
      <4>3. txn' = [txn EXCEPT ![s] = x]
        BY <3>1
      <4> HIDE DEF x, s
      <4>4. QED
        BY <3>1, <3>2, <4>2, <4>3 DEF TypeOK
    <3>4. QED
      BY <1>2, <3>3 DEF Payment, OneOpen
  <2>2. CASE CheckoutCreate(h)
    <3>1. PICK u \in Txns :
            /\ txn[u].state = "none"
            /\ txn' = [txn EXCEPT ![u].state = "open",
                                  ![u].term = task[h].term]
      BY <2>2 DEF CheckoutCreate
    <3> DEFINE x == [txn[u] EXCEPT !.state = "open", !.term = task[h].term]
    <3>2. txn[u] \in Transaction /\ ~ txn[u].given
      BY <3>1 DEF TypeOK, Transaction
    <3>3. x.given = txn[u].given
      BY <3>2 DEF Transaction
    <3>4. txn' = [txn EXCEPT ![u] = x]
      BY <3>1
    <3> HIDE DEF x
    <3>5. \A t \in Txns : txn'[t].given => t # u /\ txn'[t] = txn[t]
      BY <3>2, <3>3, <3>4 DEF TypeOK
    <3>6. QED
      BY <1>2, <3>5 DEF Payment, OneOpen
  <2>3. QED
    BY <2>1, <2>2
<1>4. QED
  BY <1>1, <1>2, <1>3, PeriodStays

\* The first to claim the invoice finds what it looked at: nothing, or a
\* transaction that is canceled.
LEMMA ClaimPays ==
  ASSUME TypeOK, Ledger, Untouched, Payment, NEW h \in Handlers,
         CheckoutClaim(h)
  PROVE  Payment'
<1> DEFINE n == task[h].new
           s == task[h].seen
<1>1. /\ task' = [task EXCEPT ![h] = Idle] /\ UNCHANGED <<sub, recorded>>
      /\ At(h, "claim")
  BY DEF CheckoutClaim, Go
<1>2. /\ task' \in [Handlers -> Task]
      /\ \A g \in Handlers : task'[g] = task[g] \/ task'[g].pc = "idle"
  BY <1>1, Idler DEF TypeOK
<1>3. Onward
  BY CheckoutClaimKeeps
<1>4. s \in Txns \cup {None} /\ n \in Txns
      /\ (s # None => txn[s].state = "canceled")
  BY <1>1, TaskParts DEF At, TypeOK, Ledger, TasksSound, Sound
<1>5. CASE ~ FirstWins(h)
  <2>1. UNCHANGED <<inv, txn>>
    BY <1>5 DEF CheckoutClaim
  <2>2. OneOpen'
    BY <2>1 DEF Payment, OneOpen
  <2>3. QED
    BY <1>1, <1>2, <1>3, <2>1, <2>2, PeriodStays
<1>6. CASE FirstWins(h)
  <2>1. /\ inv' = [inv EXCEPT !.txn = n]
        /\ txn' = [txn EXCEPT ![n].given = TRUE]
        /\ inv.txn = s
    BY <1>6 DEF CheckoutClaim, FirstWins
  <2>2. inv'.txn = n /\ inv'.status = inv.status
    BY <2>1 DEF TypeOK
  <2>3. inv.status # "PAID"
    BY <1>4, <2>1 DEF Payment, InvoicePaid
  <2>4. \A t \in Txns : t # n => txn'[t] = txn[t]
    BY <2>1 DEF TypeOK
  <2>5. OneOpen'
    BY <1>4, <2>1, <2>2, <2>4, NoneAssumption DEF Payment, OneOpen
  <2>6. QED
    BY <1>1, <1>2, <1>3, <2>2, <2>3, <2>5, PeriodStays
<1>7. QED
  BY <1>5, <1>6

LEMMA CancelPays ==
  ASSUME TypeOK, Ledger, Untouched, Payment, NEW h \in Handlers,
         NEW term \in Terms, DiscountCancel(h, term)
  PROVE  Payment'
<1>1. Onward /\ task' \in [Handlers -> Task]
  BY DiscountCancelKeeps DEF TypeOK
<1>2. /\ UNCHANGED <<inv, sub, recorded>>
      /\ \A g \in Handlers : task'[g] = task[g] \/ task'[g].pc = "reset"
  BY DEF DiscountCancel, Go, TypeOK
<1>3. OneOpen'
  <2>1. CASE inv.txn = None
    BY <1>2, <2>1 DEF DiscountCancel, Payment, OneOpen
  <2>2. CASE inv.txn # None
    <3>1. txn' = [txn EXCEPT ![inv.txn].state = "canceled"]
      BY <2>2 DEF DiscountCancel
    <3>2. \A t \in Txns : t # inv.txn => txn'[t] = txn[t]
      BY <3>1 DEF TypeOK
    <3>3. QED
      BY <1>2, <3>2 DEF Payment, OneOpen
  <2>3. QED
    BY <2>1, <2>2
<1>4. QED
  BY <1>1, <1>2, <1>3, PeriodStays

LEMMA PayPays ==
  ASSUME TypeOK, Ledger, Untouched, Payment, NEW u \in Txns,
         Pay(u) \/ Fail(u)
  PROVE  Payment'
<1>1. Onward
  BY PayKeeps, FailKeeps
<1>2. UNCHANGED <<inv, sub, recorded, task>>
  BY DEF Pay, Fail
<1>3. OneOpen'
  <2>1. CASE Fail(u)
    BY <2>1 DEF Fail, Payment, OneOpen
  <2>2. CASE Pay(u)
    <3>1. /\ txn[u].given /\ txn[u].state = "open"
          /\ txn' = [txn EXCEPT ![u].state = "completed"]
      BY <2>2 DEF Pay
    <3>2. \A t \in Txns : t # u => txn'[t] = txn[t]
      BY <3>1 DEF TypeOK
    <3>3. u = inv.txn
      BY <3>1 DEF Payment, OneOpen
    <3>4. QED
      BY <1>2, <3>2, <3>3 DEF Payment, OneOpen
  <2>3. QED
    BY <2>1, <2>2
<1>4. task' \in [Handlers -> Task]
  BY <1>2 DEF TypeOK
<1>5. QED
  BY <1>1, <1>2, <1>3, <1>4, PeriodStays

LEMMA RenewPays ==
  ASSUME TypeOK, Ledger, Payment, NEW u \in Txns, Renew(u)
  PROVE  Payment'
<1>1. /\ UNCHANGED <<inv, sub, recorded, task>>
      /\ txn' = [txn EXCEPT ![u].renewals = @ + 1]
      /\ \A g \in Handlers : At(g, "idle")
  BY DEF Renew
<1>2. \A t \in Txns : /\ txn'[t].state = txn[t].state
                      /\ txn'[t].given = txn[t].given
                      /\ txn'[t].term = txn[t].term
  <2> DEFINE x == [txn[u] EXCEPT !.renewals = @ + 1]
  <2>1. txn[u] \in Transaction
    BY DEF TypeOK, Transaction
  <2>2. /\ x.state = txn[u].state /\ x.given = txn[u].given
        /\ x.term = txn[u].term
    BY <2>1 DEF Transaction
  <2>3. txn' = [txn EXCEPT ![u] = x]
    BY <1>1
  <2> HIDE DEF x
  <2>4. QED
    BY <2>2, <2>3 DEF TypeOK
<1>3. OneOpen'
  BY <1>1, <1>2 DEF Payment, OneOpen
<1>4. InvoicePaid'
  BY <1>1, <1>2 DEF Payment, InvoicePaid, Applied, End, Completed, TypeOK
<1>5. TasksProper'
  BY <1>1 DEF TasksProper, Proper, At
<1>6. RecordedDone'
  BY <1>1, <1>2, EventParts DEF Payment, RecordedDone, End, TypeOK
<1>7. QED
  BY <1>3, <1>4, <1>5, <1>6 DEF Payment

-----------------------------------------------------------------------------
LEMMA PaymentHolds == Spec => [](Untouched => Payment)
<1>1. Init => Payment
  BY Idler
     DEF Init, Payment, OneOpen, InvoicePaid, TasksProper, Proper,
         RecordedDone
<1>2. /\ TypeOK /\ Ledger /\ (Untouched => Payment) /\ [Next]_vars
      => (Untouched => Payment)'
  <2> SUFFICES ASSUME TypeOK, Ledger, Untouched => Payment, [Next]_vars,
                      Untouched'
               PROVE  Payment'
    OBVIOUS
  <2>1. Untouched /\ Payment
    BY TouchedStays
  <2>2. ASSUME NEW h \in Handlers, Works(h) PROVE Payment'
    <3>1. CASE VoidWrite(h) \/ DiscountWrite(h) \/ Unlink(h)
      <4>1. ~ (VoidWrite(h) \/ DiscountWrite(h))
        BY DEF Untouched, VoidWrite, DiscountWrite
      <4>2. ASSUME Unlink(h) PROVE FALSE
        <5> DEFINE e == task[h].event
        <5>1. e \in recorded' /\ e.kind = "failed" /\ At(h, "look")
          BY <4>2 DEF Unlink
        <5>2. e \in Event
          BY <5>1, Told DEF At, Tells
        <5>3. e = Failed(e.txn) /\ e.txn \in Txns
          BY <5>1, <5>2, EventParts
        <5> HIDE DEF e
        <5>4. PICK t \in Txns : t = e.txn
          BY <5>3
        <5>5. Failed(t) \in recorded'
          BY <5>1, <5>3, <5>4
        <5>6. QED
          BY <5>5 DEF Untouched, Failed
      <4>3. QED
        BY <3>1, <4>1, <4>2
    <3>2. QED
      BY <2>1, <2>2, <3>1, CheckoutPays, ClaimPays, ReadingPays, LookPays,
         PricePays, RecordPays, RecurPays, ConfirmReadPays, ConfirmApplyPays,
         StatusPays DEF Works
  <2>3. ASSUME NEW h \in Handlers,
               \/ Crash(h) \/ ConfirmBegin(h) \/ OverdueRead(h) \/ VoidRead(h)
               \/ \E e \in happened : Deliver(h, e)
               \/ \E term \in Terms : CheckoutRead(h, term)
        PROVE  Payment'
    BY <2>1, <2>3, ReadingPays
  <2>4. ASSUME NEW h \in Handlers, NEW term \in Terms, DiscountCancel(h, term)
        PROVE  Payment'
    BY <2>1, <2>4, CancelPays
  <2>5. ~ MarkPaidOnly
    BY DEF MarkPaidOnly, Untouched
  <2>6. ASSUME Notice \/ NotFound PROVE Payment'
    BY <2>1, <2>6, StatusPays
  <2>7. ASSUME NEW t \in Txns, Pay(t) \/ Fail(t) \/ Renew(t) PROVE Payment'
    BY <2>1, <2>7, PayPays, RenewPays
  <2>8. ASSUME UNCHANGED vars PROVE Payment'
    <3>1. /\ UNCHANGED <<inv, txn, sub, recorded, task>>
          /\ task' \in [Handlers -> Task]
      BY <2>8 DEF vars, TypeOK
    <3>2. QED
      BY <2>1, <3>1, NothingPaid
  <2>9. QED
    BY <2>2, <2>3, <2>4, <2>5, <2>6, <2>7, <2>8 DEF Next
<1>3. QED
  BY <1>1, <1>2, LedgerHolds, PTL DEF Spec

\* However many checkouts are begun at a time, and however their steps
\* interleave, at most one of the transactions customers got can be paid.
THEOREM InvoicePaidOnce == Spec => []PaysOnce
<1>1. (Untouched => Payment) => PaysOnce
  BY DEF Payment, OneOpen, PaysOnce
<1>2. QED
  BY <1>1, PaymentHolds, PTL

\* Whatever crashes, is delivered again or overlaps, an event is recorded with
\* its payment applied and its subscription linked.
THEOREM RecordedApplied == Spec => []RecordedIsApplied
<1>1. (Untouched => Payment) => RecordedIsApplied
  BY DEF Payment, RecordedDone, RecordedIsApplied
<1>2. QED
  BY <1>1, PaymentHolds, PTL
=============================================================================
