---------------------------- MODULE CardBilling ----------------------------
(***************************************************************************)
(* One invoice of a workspace, the card checkouts opened for it, and the   *)
(* webhooks that tell what became of them (paddle.service.ts), beside the  *)
(* platform staff and the cron that write the same invoice                 *)
(* (invoice.service.ts).                                                   *)
(*                                                                         *)
(* Time is counted in years from the day of the first payment, and a       *)
(* period is known by the year it ends.  A Paddle transaction that is paid *)
(* starts the Paddle subscription of its name.  A webhook is delivered     *)
(* again and again, to any handler, until one has recorded it.             *)
(***************************************************************************)
EXTENDS Naturals

CONSTANTS
    Txns,         \* Paddle transactions that can come into being
    Handlers,     \* requests and cron passes served at a time
    MaxTerm,      \* longest term, in years
    MaxRenewals,  \* (bound)
    MaxCrashes,   \* (bound)
    None

ASSUME BoundsAssumption ==
    MaxTerm \in Nat \ {0} /\ MaxRenewals \in Nat /\ MaxCrashes \in Nat
ASSUME NoneAssumption == None \notin Txns

PAYABLE == {"ISSUED", "PAYMENT_REPORTED", "OVERDUE"}
Statuses == PAYABLE \cup {"PAID", "VOID"}
Terms == 1 .. MaxTerm
Ends  == 0 .. MaxTerm * (MaxRenewals + 1)
Event == [txn : Txns, kind : {"completed"}, n : 0 .. MaxRenewals]
         \cup [txn : Txns, kind : {"failed"}, n : {0}]

VARIABLES
    inv,       \* the invoice
    sub,       \* the subscription of the workspace
    txn,       \* the transactions, at Paddle
    happened,  \* events Paddle tells of
    recorded,  \* PaddleWebhookEvent
    byHand,    \* staff has confirmed, voided or rewritten the invoice
    task,      \* what each handler is doing
    crashes

vars == <<inv, sub, txn, happened, recorded, byHand, task, crashes>>
desk == <<sub, txn, happened, recorded, crashes>>

Idle == [pc |-> "idle"]
Task ==
    [pc : {"idle", "overdue", "void"}]
    \cup [pc : {"reset", "rewrite"}, term : Terms]
    \cup [pc : {"look", "record", "recur"}, event : Event]
    \cup [pc : {"price"}, event : Event, status : Statuses]
    \cup [pc : {"confirm"}, event : Event \cup {None}]
    \cup [pc : {"apply"}, event : Event \cup {None}, end : Ends, paid : BOOLEAN]
    \cup [pc : {"ask"}, seen : Txns \cup {None}, term : Terms]
    \cup [pc : {"claim"}, seen : Txns \cup {None}, new : Txns]

TypeOK ==
    /\ inv \in [status : Statuses, txn : Txns \cup {None}, end : Ends,
               noticed : BOOLEAN]  \* paymentReportedAt or paymentVerifiedAt
    /\ sub \in [active : BOOLEAN, end : Ends, linked : Txns \cup {None}]
    /\ txn \in [Txns -> [state : {"none", "open", "canceled", "completed"},
                         term : Terms, given : BOOLEAN,
                         renewals : 0 .. MaxRenewals]]
    /\ happened \subseteq Event /\ recorded \subseteq happened
    /\ byHand \in BOOLEAN
    /\ task \in [Handlers -> Task]
    /\ crashes \in 0 .. MaxCrashes
    /\ \A t \in Txns : txn[t].given => txn[t].state # "none"
    /\ sub.linked # None => txn[sub.linked].state = "completed"

-----------------------------------------------------------------------------
At(h, pc) == task[h].pc = pc
Go(h, t)  == task' = [task EXCEPT ![h] = t]
\* The end of the period e pays for.
End(e)    == txn[e.txn].term * (e.n + 1)
Completed(t) == [txn |-> t, kind |-> "completed", n |-> 0]
Failed(t)    == [txn |-> t, kind |-> "failed", n |-> 0]

Init ==
    /\ inv = [status |-> "ISSUED", txn |-> None, end |-> 1, noticed |-> FALSE]
    /\ sub = [active |-> FALSE, end |-> 0, linked |-> None]
    /\ txn = [t \in Txns |-> [state |-> "none", term |-> 1, given |-> FALSE,
                              renewals |-> 0]]
    /\ happened = {} /\ recorded = {}
    /\ byHand = FALSE
    /\ task = [h \in Handlers |-> Idle]
    /\ crashes = 0

-----------------------------------------------------------------------------
(* createInvoiceCheckout *)

CheckoutRead(h, term) ==
    /\ At(h, "idle")
    /\ inv.status \in {"ISSUED", "OVERDUE"}
    /\ sub.linked = None
    /\ Go(h, [pc |-> "ask", seen |-> inv.txn, term |-> term])
    /\ UNCHANGED <<desk, inv, byHand>>

\* The transaction of the invoice is still open: it gets the new term.
CheckoutAgain(h) ==
    LET t == task[h].seen IN
      /\ At(h, "ask") /\ t # None
      /\ txn[t].state = "open"
      /\ txn' = [txn EXCEPT ![t].term = task[h].term, ![t].given = TRUE]
      /\ Go(h, Idle)
      /\ UNCHANGED <<inv, sub, happened, recorded, byHand, crashes>>

CheckoutCreate(h) ==
    LET t == task[h].seen IN
      /\ At(h, "ask")
      /\ t # None => txn[t].state = "canceled"
      /\ \E new \in Txns :
           /\ txn[new].state = "none"
           /\ txn' = [txn EXCEPT ![new].state = "open",
                                 ![new].term = task[h].term]
           /\ Go(h, [pc |-> "claim", seen |-> t, new |-> new])
      /\ UNCHANGED <<inv, sub, happened, recorded, byHand, crashes>>

CheckoutRefused(h) ==
    /\ At(h, "ask") /\ task[h].seen # None
    /\ txn[task[h].seen].state = "completed"
    /\ Go(h, Idle)
    /\ UNCHANGED <<desk, inv, byHand>>

\* The browser gets the transaction of the winner only.  The mistake is to
\* write over the other one.
LastWins(h)   == TRUE
FirstWins(h)  == inv.txn = task[h].seen
CheckoutClaim(h) ==
    LET t == task[h].new IN
      /\ At(h, "claim")
      /\ IF FirstWins(h)
           THEN /\ inv' = [inv EXCEPT !.txn = t]
                /\ txn' = [txn EXCEPT ![t].given = TRUE]
           ELSE UNCHANGED <<inv, txn>>
      /\ Go(h, Idle)
      /\ UNCHANGED <<sub, happened, recorded, byHand, crashes>>

-----------------------------------------------------------------------------
(* processCompletedTransaction *)

\* The mistake is to claim the event before the payment is applied.
ClaimFirst(h, e) ==
    /\ At(h, "idle")
    /\ e \in happened \ recorded
    /\ recorded' = recorded \cup {e}
    /\ Go(h, [pc |-> "look", event |-> e])
    /\ UNCHANGED <<inv, sub, txn, happened, byHand, crashes>>
Deliver(h, e) ==
    /\ At(h, "idle")
    /\ e \in happened \ recorded
    /\ Go(h, [pc |-> "look", event |-> e])
    /\ UNCHANGED <<desk, inv, byHand>>

\* A payment of the linked subscription, or the first one of the invoice.
Look(h) ==
    LET e == task[h].event IN
      /\ At(h, "look") /\ e.kind = "completed"
      /\ Go(h, IF sub.linked = e.txn
                 THEN IF End(e) > sub.end THEN [pc |-> "recur", event |-> e]
                                          ELSE Idle
               ELSE IF inv.txn = e.txn
                 THEN [pc |-> "price", event |-> e, status |-> inv.status]
               ELSE Idle)
      /\ UNCHANGED <<desk, inv, byHand>>

\* The invoice takes the term that was paid; if it was confirmed already, by
\* a delivery that crashed, say, the link and the event are what is left to do.
\* The mistake is to go on with an open invoice only.
PriceOpen(h) ==
    LET e == task[h].event
        open == inv.txn = e.txn /\ inv.status \in {"ISSUED", "OVERDUE"} IN
      /\ At(h, "price")
      /\ IF open
           THEN /\ inv' = [inv EXCEPT !.end = End(e)]
                /\ Go(h, [pc |-> "confirm", event |-> e])
           ELSE Go(h, Idle) /\ UNCHANGED inv
      /\ UNCHANGED <<desk, byHand>>
Price(h) ==
    LET e == task[h].event
        open == inv.txn = e.txn /\ inv.status \in {"ISSUED", "OVERDUE"} IN
      /\ At(h, "price")
      /\ IF task[h].status = "PAID"
           THEN Go(h, [pc |-> "record", event |-> e]) /\ UNCHANGED inv
         ELSE IF open
           THEN /\ inv' = [inv EXCEPT !.end = End(e)]
                /\ Go(h, [pc |-> "confirm", event |-> e])
         ELSE Go(h, Idle) /\ UNCHANGED inv
      /\ UNCHANGED <<desk, byHand>>

\* Link and event are written together.
Record(h) ==
    LET e == task[h].event IN
      /\ At(h, "record")
      /\ IF e \in recorded
           THEN UNCHANGED <<sub, recorded>>
           ELSE /\ sub' = [sub EXCEPT !.linked = e.txn]
                /\ recorded' = recorded \cup {e}
      /\ Go(h, Idle)
      /\ UNCHANGED <<inv, txn, happened, byHand, crashes>>

\* processRecurringPayment
Recur(h) ==
    LET e == task[h].event IN
      /\ At(h, "recur")
      /\ IF e \in recorded
           THEN UNCHANGED <<sub, recorded>>
           ELSE /\ sub' = [sub EXCEPT !.active = TRUE, !.end = End(e)]
                /\ recorded' = recorded \cup {e}
      /\ Go(h, Idle)
      /\ UNCHANGED <<inv, txn, happened, byHand, crashes>>

\* processFailedTransaction: the invoice is free for another checkout.
Unlink(h) ==
    LET e == task[h].event IN
      /\ At(h, "look") /\ e.kind = "failed"
      /\ inv' = [inv EXCEPT !.txn = IF @ = e.txn /\ e \notin recorded
                                       THEN None ELSE @]
      /\ recorded' = recorded \cup {e}
      /\ Go(h, Idle)
      /\ UNCHANGED <<sub, txn, happened, byHand, crashes>>

-----------------------------------------------------------------------------
(* confirmPaidAndApply, for a webhook or for the staff *)

ConfirmBegin(h) ==
    /\ At(h, "idle")
    /\ Go(h, [pc |-> "confirm", event |-> None])
    /\ UNCHANGED <<desk, inv, byHand>>

Confirmed(h, e) == IF e = None THEN Idle ELSE [pc |-> "record", event |-> e]

\* Invoice and subscription are read before the lock is taken.
ConfirmRead(h) ==
    LET e == task[h].event
        end == IF e = None THEN inv.end ELSE End(e) IN
      /\ At(h, "confirm")
      /\ Go(h, IF inv.status = "VOID" THEN Idle
               ELSE IF inv.status = "PAID" /\ sub.active /\ sub.end >= end
                 THEN Confirmed(h, e)
               ELSE [pc |-> "apply", event |-> e, end |-> end,
                     paid |-> inv.status = "PAID"])
      /\ UNCHANGED <<desk, inv, byHand>>

\* Another request may have confirmed it: the period is applied all the same.
Paid == [inv EXCEPT !.status = "PAID", !.noticed = TRUE]
ConfirmApply(h) ==
    LET e == task[h].event
        goes == task[h].paid \/ inv.status \in PAYABLE \cup {"PAID"} IN
      /\ At(h, "apply")
      /\ IF goes
           THEN /\ inv' = IF task[h].paid THEN inv ELSE Paid
                /\ sub' = [sub EXCEPT !.active = TRUE, !.end = task[h].end]
                /\ Go(h, Confirmed(h, e))
           ELSE Go(h, Idle) /\ UNCHANGED <<inv, sub>>
      /\ byHand' = (byHand \/ e = None)
      /\ UNCHANGED <<txn, happened, recorded, crashes>>

-----------------------------------------------------------------------------
(* Other writers of the invoice *)

\* markPaidOnly, submitPaymentNotice and markPaymentNotFound compare the
\* status again in their update.
MarkPaidOnly ==
    /\ inv.status \in PAYABLE
    /\ inv' = Paid
    /\ byHand' = TRUE
    /\ UNCHANGED <<desk, task>>
Notice ==
    /\ inv.status \in {"ISSUED", "OVERDUE"}
    /\ inv' = [inv EXCEPT !.status = "PAYMENT_REPORTED", !.noticed = TRUE]
    /\ UNCHANGED <<desk, byHand, task>>
NotFound ==
    /\ inv.status = "PAYMENT_REPORTED"
    /\ inv' = [inv EXCEPT !.status = "ISSUED"]
    /\ UNCHANGED <<desk, byHand, task>>

\* markOverdue and the cron, and void, write by id what they checked before.
OverdueRead(h) ==
    /\ At(h, "idle") /\ inv.status \in {"ISSUED", "PAYMENT_REPORTED"}
    /\ Go(h, [pc |-> "overdue"])
    /\ UNCHANGED <<desk, inv, byHand>>
VoidRead(h) ==
    /\ At(h, "idle") /\ inv.status # "PAID"
    /\ Go(h, [pc |-> "void"])
    /\ UNCHANGED <<desk, inv, byHand>>
OverdueWrite(h) ==
    /\ At(h, "overdue")
    /\ inv' = [inv EXCEPT !.status = "OVERDUE"]
    /\ Go(h, Idle)
    /\ UNCHANGED <<desk, byHand>>
VoidWrite(h) ==
    /\ At(h, "void")
    /\ inv' = [inv EXCEPT !.status = "VOID"]
    /\ byHand' = TRUE
    /\ Go(h, Idle)
    /\ UNCHANGED desk

\* updateDiscountedInvoice cancels the open checkout, updateDiscountedTerm
\* reads the invoice again and resets it.
DiscountCancel(h, term) ==
    LET t == inv.txn IN
      /\ At(h, "idle")
      /\ t # None => txn[t].state \in {"open", "canceled"}
      /\ txn' = IF t = None THEN txn ELSE [txn EXCEPT ![t].state = "canceled"]
      /\ Go(h, [pc |-> "reset", term |-> term])
      /\ UNCHANGED <<inv, sub, happened, recorded, byHand, crashes>>
DiscountRead(h) ==
    /\ At(h, "reset")
    /\ Go(h, IF /\ inv.status \in {"ISSUED", "OVERDUE"} /\ ~ inv.noticed
                /\ task[h].term > 1
               THEN [pc |-> "rewrite", term |-> task[h].term] ELSE Idle)
    /\ UNCHANGED <<desk, inv, byHand>>
DiscountWrite(h) ==
    /\ At(h, "rewrite")
    /\ inv' = [inv EXCEPT !.status = "ISSUED", !.txn = None,
                          !.end = task[h].term]
    /\ byHand' = TRUE
    /\ Go(h, Idle)
    /\ UNCHANGED desk

-----------------------------------------------------------------------------
(* Paddle, the customer, and crashes *)

Pay(t) ==
    /\ txn[t].state = "open" /\ txn[t].given
    /\ txn' = [txn EXCEPT ![t].state = "completed"]
    /\ happened' = happened \cup {Completed(t)}
    /\ UNCHANGED <<inv, sub, recorded, byHand, task, crashes>>

\* A card is refused.  The checkout stays open for another try.
Fail(t) ==
    /\ txn[t].state = "open" /\ txn[t].given
    /\ happened' = happened \cup {Failed(t)}
    /\ UNCHANGED <<inv, sub, txn, recorded, byHand, task, crashes>>

\* A term later.  No request and no event of the last payment is on its way.
Renew(t) ==
    /\ txn[t].state = "completed" /\ txn[t].renewals < MaxRenewals
    /\ \A h \in Handlers : At(h, "idle")
    /\ {e \in happened : e.kind = "completed"} \subseteq recorded
    /\ txn' = [txn EXCEPT ![t].renewals = @ + 1]
    /\ happened' = happened \cup {[txn |-> t, kind |-> "completed",
                                   n |-> txn[t].renewals + 1]}
    /\ UNCHANGED <<inv, sub, recorded, byHand, task, crashes>>

Crash(h) ==
    /\ crashes < MaxCrashes /\ ~ At(h, "idle")
    /\ crashes' = crashes + 1
    /\ Go(h, Idle)
    /\ UNCHANGED <<inv, sub, txn, happened, recorded, byHand>>

Works(h) ==
    \/ CheckoutAgain(h) \/ CheckoutCreate(h) \/ CheckoutRefused(h)
    \/ CheckoutClaim(h)
    \/ Look(h) \/ Price(h) \/ Record(h) \/ Recur(h) \/ Unlink(h)
    \/ ConfirmRead(h) \/ ConfirmApply(h)
    \/ OverdueWrite(h) \/ VoidWrite(h) \/ DiscountRead(h) \/ DiscountWrite(h)

Next ==
    \/ \E h \in Handlers :
         \/ Works(h) \/ Crash(h)
         \/ ConfirmBegin(h) \/ OverdueRead(h) \/ VoidRead(h)
         \/ \E e \in happened : Deliver(h, e)
         \/ \E term \in Terms : CheckoutRead(h, term) \/ DiscountCancel(h, term)
    \/ MarkPaidOnly \/ Notice \/ NotFound
    \/ \E t \in Txns : Pay(t) \/ Fail(t) \/ Renew(t)

Spec == Init /\ [][Next]_vars

\* A request that does not crash ends, and Paddle delivers until an event is
\* recorded.  Nobody has to pay or to decide.
FairSpec ==
    /\ Spec
    /\ \A h \in Handlers : WF_vars(Works(h))
    /\ \A t \in Txns :
         SF_vars(\E h \in Handlers : Deliver(h, Completed(t)))

-----------------------------------------------------------------------------
(* Properties.  Staff writes the invoice with checks that are older than the *)
(* write, and a failed payment frees it while its checkout is still open:    *)
(* what the webhooks do is stated for the invoices neither has touched.      *)

Untouched == ~ byHand /\ \A t \in Txns : Failed(t) \notin recorded

\* However many checkouts are begun at a time, one of them at most can be
\* paid, so that the customer does not pay the invoice twice.
PaysOnce ==
    Untouched =>
      \A t, u \in {t \in Txns : txn[t].given /\ txn[t].state # "canceled"} :
        t = u

\* An event is recorded only with its payment applied: once Paddle stops to
\* deliver it, the workspace has what was paid, and is linked to the Paddle
\* subscription that will renew it.
RecordedIsApplied ==
    Untouched =>
      \A e \in recorded :
        /\ sub.active /\ sub.linked = e.txn /\ sub.end >= End(e)

\* A first payment Paddle tells of is applied in the end, through crashes
\* between the invoice, the subscription and the event, and deliveries that
\* overlap; only an invoice reported as paid otherwise waits for the staff.
EveryPaymentIsApplied ==
    \A t \in Txns :
      Completed(t) \in happened ~> \/ Completed(t) \in recorded
                                  \/ inv.status = "PAYMENT_REPORTED"
                                  \/ ~ Untouched

\* What the code says and does not keep once the staff writes the same
\* invoice (see the README): "A paid invoice cannot be voided", and "once
\* payment is confirmed, FieldKeel updates the subscription".
PaidIsNotVoided == [][inv.status = "PAID" => inv'.status # "VOID"]_vars
PaidPeriodIsKept ==
    \A e \in recorded : e.kind = "completed" => sub.end >= End(e)
=============================================================================
