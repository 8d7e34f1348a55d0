----------------------------- MODULE MailOutbox -----------------------------
(***************************************************************************)
(* The ledger of subscription mails (SubscriptionNotification) and the     *)
(* workers that drain it: replicas of the API, or passes of one replica    *)
(* that overlap.                                                           *)
(*                                                                         *)
(* Times are ticks to go and ticks gone by, not dates.  A worker knows its *)
(* claim by the leaseUntil it wrote; two claims of a row never write the   *)
(* same one, so the claim is known here by its worker.  A worker reads the *)
(* row back after its claim.  As long as the claim is its own nobody else  *)
(* writes the row, and once it is not, the worker's writes change nothing: *)
(* what it read back is what the row holds.                                *)
(***************************************************************************)
EXTENDS Integers

CONSTANTS
    Rows,
    Workers,
    Lease,       \* RETRY_MS, in ticks: a claim, and the pause after a failure
    SafeRetry,   \* SAFE_RETRY_MS
    KeyLife,     \* how long Resend knows an idempotency key
    MaxStall,    \* a worker's pause between claim and request (bound)
    MaxCrashes,  \* (bound)
    NoWorker,
    NotYet       \* no attempt so far

ASSUME TimesAssumption ==
    /\ Lease \in Nat /\ SafeRetry \in Nat \ {0} /\ KeyLife \in Nat
    /\ MaxStall \in Nat /\ MaxCrashes \in Nat
    /\ SafeRetry + MaxStall <= KeyLife
ASSUME NamesAssumption ==
    NoWorker \notin Workers /\ NotYet \notin 0 .. KeyLife

Providers == {"resend", "smtp"}
Settled   == {"SENT", "CANCELLED", "REVIEW"}
Reminders == {"platformReminder", "memberReminder"}
Kinds     == {"notice", "statusNotice"} \cup Reminders

VARIABLES
    row,        \* the ledger
    wanted,     \* whether the recipient is eligible and the reminder is due
    task,       \* what each worker is doing
    provider,   \* EMAIL_PROVIDER of each worker's process
    known,      \* ticks since Resend saw the key of each row
    inbox,      \* mails the recipient got
    crashes

vars == <<row, wanted, task, provider, known, inbox, crashes>>

Idle == [pc |-> "idle"]

Age  == (0 .. KeyLife) \cup {NotYet}
Row  == [kind : Kinds,
         state : {"QUEUED", "SENDING"} \cup Settled,
         wait : 0 .. Lease,      \* to nextAttemptAt, or to leaseUntil
         holder : Workers \cup {NoWorker},
         age : Age,              \* since firstAttemptAt
         tried : Providers \cup {"none"}]
Task == [pc : {"idle"}]
        \cup [pc : {"claim"}, row : Rows]
        \cup [pc : {"check", "send"}, row : Rows,
              first : BOOLEAN,            \* no attempt before this claim
              stall : 0 .. MaxStall]      \* since the claim
        \cup [pc : {"record"}, row : Rows, first : BOOLEAN,
              result : {"sent", "failed", "skipped"}]

TypeOK ==
    /\ row \in [Rows -> Row]
    /\ wanted \in [Rows -> {"yes", "past", "gone"}]
    /\ task \in [Workers -> Task]
    /\ provider \in [Workers -> Providers]
    /\ known \in [Rows -> Age]
    /\ inbox \in [Rows -> 0 .. 2]
    /\ crashes \in 0 .. MaxCrashes
    /\ \A r \in Rows : row[r].state = "SENDING" <=> row[r].holder # NoWorker

-----------------------------------------------------------------------------
At(w, pc) == task[w].pc = pc
Mine(w)   ==
    /\ ~ At(w, "idle")
    /\ row[task[w].row].state = "SENDING" /\ row[task[w].row].holder = w
Ends(w)   == task' = [task EXCEPT ![w] = Idle]

Init ==
    /\ row \in [Rows -> {[kind |-> k, state |-> "QUEUED", wait |-> 0,
                          holder |-> NoWorker, age |-> NotYet,
                          tried |-> "none"] : k \in Kinds}]
    /\ wanted = [r \in Rows |-> "yes"]
    /\ task = [w \in Workers |-> Idle]
    /\ provider \in [Workers -> Providers]
    /\ known = [r \in Rows |-> NotYet]
    /\ inbox = [r \in Rows |-> 0]
    /\ crashes = 0

-----------------------------------------------------------------------------
(* drain *)

\* The mistake is to forget the rows of a worker that died.
QueuedOnly(r) == row[r].wait = 0 /\ row[r].state = "QUEUED"
Eligible(r)   == row[r].wait = 0 /\ row[r].state \in {"QUEUED", "SENDING"}

Scan(w, r) ==
    /\ At(w, "idle") /\ Eligible(r)
    /\ task' = [task EXCEPT ![w] = [pc |-> "claim", row |-> r]]
    /\ UNCHANGED <<row, wanted, provider, known, inbox, crashes>>

Taken(w) == [row EXCEPT ![task[w].row].state = "SENDING",
                        ![task[w].row].wait = Lease,
                        ![task[w].row].holder = w]

Claim(w) ==
    /\ At(w, "claim")
    /\ IF Eligible(task[w].row)
         THEN /\ row' = Taken(w)
              /\ task' = [task EXCEPT ![w] =
                            [pc |-> "check", row |-> task[w].row, stall |-> 0,
                             first |-> row[task[w].row].age = NotYet]]
         ELSE Ends(w) /\ UNCHANGED row
    /\ UNCHANGED <<wanted, provider, known, inbox, crashes>>

\* finish
Finish(w, state) ==
    /\ row' = IF Mine(w)
                THEN [row EXCEPT ![task[w].row].state = state,
                                 ![task[w].row].holder = NoWorker]
                ELSE row
    /\ Ends(w)
    /\ UNCHANGED <<wanted, provider, known, inbox, crashes>>

\* A reminder is superseded unless the period end it was queued for is the
\* current one.  The key of a member's row ends in ":member:" and the id, and
\* only ":owner:" is cut off before it is compared, so it never is.
Reminder(w) == task[w].first /\ row[task[w].row].kind \in Reminders
Superseded(w) ==
    /\ Reminder(w)
    /\ \/ wanted[task[w].row] = "past"
       \/ row[task[w].row].kind = "memberReminder"

\* Whether the mail went out is not known and cannot be made sure of: the
\* provider has changed, or may have forgotten the key.  The mistake is to
\* trust the key for good.
AnyTime(w) ==
    /\ ~ task[w].first
    /\ provider[w] # "resend" \/ row[task[w].row].tried # provider[w]
Uncertain(w) ==
    /\ ~ task[w].first
    /\ \/ provider[w] # "resend"
       \/ row[task[w].row].tried # provider[w]
       \/ row[task[w].row].age - task[w].stall >= SafeRetry

Cancel(w) ==
    /\ At(w, "check")
    /\ wanted[task[w].row] = "gone" \/ Superseded(w)
    /\ Finish(w, "CANCELLED")

Review(w) ==
    /\ At(w, "check")
    /\ wanted[task[w].row] # "gone" /\ ~ Superseded(w) /\ Uncertain(w)
    /\ Finish(w, "REVIEW")

\* firstAttemptAt is the time of the claim.
Attempt(w) ==
    /\ At(w, "check")
    /\ wanted[task[w].row] # "gone" /\ ~ Superseded(w) /\ ~ Uncertain(w)
    /\ IF Mine(w)
         THEN /\ row' = [row EXCEPT
                           ![task[w].row].age = IF task[w].first
                                                  THEN task[w].stall ELSE @,
                           ![task[w].row].tried = provider[w]]
              /\ task' = [task EXCEPT ![w].pc = "send"]
         ELSE Ends(w) /\ UNCHANGED row
    /\ UNCHANGED <<wanted, provider, known, inbox, crashes>>

\* sendPrepared: the request may arrive or not, and so may the answer.  SMTP
\* delivers every request; Resend one for each key it knows.
Send(w, result, arrives) ==
    LET r == task[w].row
        fresh == provider[w] = "smtp" \/ known[r] \in {NotYet, KeyLife} IN
      /\ At(w, "send")
      /\ result = "sent" => arrives
      /\ result = "skipped" => ~ arrives
      /\ inbox' = [inbox EXCEPT ![r] =
                     IF arrives /\ fresh /\ @ < 2 THEN @ + 1 ELSE @]
      /\ known' = [known EXCEPT ![r] =
                     IF arrives /\ fresh /\ provider[w] = "resend" THEN 0
                                                                   ELSE @]
      /\ task' = [task EXCEPT ![w] =
                    [pc |-> "record", row |-> r, first |-> task[w].first,
                     result |-> result]]
      /\ UNCHANGED <<row, wanted, provider, crashes>>

\* A skipped attempt does not count as one.
Record(w) ==
    LET r == task[w].row IN
      /\ At(w, "record")
      /\ row' = IF Mine(w)
                  THEN [row EXCEPT
                          ![r].state = IF task[w].result = "sent" THEN "SENT"
                                                              ELSE "QUEUED",
                          ![r].holder = NoWorker,
                          ![r].wait = Lease,
                          ![r].age = IF task[w].result = "skipped"
                                          /\ task[w].first THEN NotYet ELSE @]
                  ELSE row
      /\ Ends(w)
      /\ UNCHANGED <<wanted, provider, known, inbox, crashes>>

-----------------------------------------------------------------------------
(* Around the workers *)

\* The recipient leaves, or the workspace is deleted.
Leave(r) ==
    /\ wanted' = [wanted EXCEPT ![r] = "gone"]
    /\ wanted[r] # "gone"
    /\ UNCHANGED <<row, task, provider, known, inbox, crashes>>

\* queueSubscriptionChange: when the workspace becomes active, the notices of
\* its former status and the reminders that still wait are cancelled; what is
\* on its way goes on.
MoveOn(r) ==
    /\ row[r].kind # "notice"
    /\ wanted' = [wanted EXCEPT ![r] = IF @ = "yes" THEN "past" ELSE @]
    /\ row' = [row EXCEPT ![r].state = IF @ = "QUEUED" THEN "CANCELLED" ELSE @]
    /\ UNCHANGED <<task, provider, known, inbox, crashes>>

\* The day of a reminder passes.
Miss(r) ==
    /\ row[r].kind \in Reminders /\ wanted[r] = "yes"
    /\ wanted' = [wanted EXCEPT ![r] = "past"]
    /\ UNCHANGED <<row, task, provider, known, inbox, crashes>>

\* A replica dies, and comes back with another configuration.
Crash(w) ==
    /\ crashes < MaxCrashes
    /\ crashes' = crashes + 1
    /\ \E p \in Providers : provider' = [provider EXCEPT ![w] = p]
    /\ Ends(w)
    /\ UNCHANGED <<row, wanted, known, inbox>>

Older(a) == IF a = NotYet \/ a = KeyLife THEN a ELSE a + 1

\* No worker pauses between its claim and its request for longer than the
\* hour between SAFE_RETRY_MS and the life of a key.
Tick ==
    /\ \A w \in Workers : At(w, "check") \/ At(w, "send")
                            => task[w].stall < MaxStall
    /\ row' = [r \in Rows |->
                 [row[r] EXCEPT !.wait = IF @ = 0 THEN 0 ELSE @ - 1,
                                !.age = Older(@)]]
    /\ known' = [r \in Rows |-> Older(known[r])]
    /\ task' = [w \in Workers |->
                  IF At(w, "check") \/ At(w, "send")
                    THEN [task[w] EXCEPT !.stall = @ + 1] ELSE task[w]]
    /\ UNCHANGED <<wanted, provider, inbox, crashes>>

Works(w) ==
    \/ Claim(w) \/ Cancel(w) \/ Review(w) \/ Attempt(w) \/ Record(w)
    \/ \E result \in {"sent", "failed", "skipped"}, arrives \in BOOLEAN :
         Send(w, result, arrives)

Next ==
    \/ \E w \in Workers :
         Works(w) \/ Crash(w) \/ (\E r \in Rows : Scan(w, r))
    \/ \E r \in Rows : Leave(r) \/ MoveOn(r) \/ Miss(r)
    \/ Tick

Spec == Init /\ [][Next]_vars

\* The job runs every five minutes, and finishes what it began; a row whose
\* time has come is scanned again and again, and a worker is not always
\* slower than its claim; mail is configured in the end, so that not every
\* request is skipped.
FairSpec ==
    /\ Spec
    /\ WF_vars(Tick)
    /\ \A w \in Workers : WF_vars(Works(w))
    /\ \A r \in Rows : SF_vars(\E w \in Workers : Scan(w, r))
    /\ SF_vars(\E w \in Workers :
                  Mine(w) /\ (Cancel(w) \/ Review(w) \/ Attempt(w)))
    /\ SF_vars(\E w \in Workers, result \in {"sent", "failed"},
                  arrives \in BOOLEAN : Send(w, result, arrives))

-----------------------------------------------------------------------------
(* Properties *)

\* However workers overlap, die, pause or change their provider, and whatever
\* answers are lost, nobody gets the same mail twice.
NoDoubleMail == \A r \in Rows : inbox[r] <= 1

\* Every mail is delivered, cancelled or left to an operator in the end; none
\* stays with a worker that died.
EveryMailSettles ==
    \A r \in Rows : row[r].state \notin Settled ~> row[r].state \in Settled

\* subscription-lifecycle-emails.md: owners are reminded before a trial or a
\* period ends.  They are not: the reminder of a member is cancelled as
\* superseded on its first attempt, however current it is.
CancelledForCause ==
    \A r \in Rows : row[r].state = "CANCELLED" => wanted[r] # "yes"
=============================================================================
