-------------------------- MODULE MailOutboxProofs --------------------------
(***************************************************************************)
(* The theorems of MailOutbox, for any rows, workers and times.            *)
(***************************************************************************)
EXTENDS MailOutbox, TLAPS

-----------------------------------------------------------------------------
(* What rows and tasks are made of *)

LEMMA TaskParts ==
  ASSUME NEW x \in Task
  PROVE  /\ x.pc \in {"idle", "claim", "check", "send", "record"}
         /\ x.pc # "idle" => x.row \in Rows
         /\ x.pc \in {"check", "send"} => x.first \in BOOLEAN
         /\ x.pc \in {"check", "send"} => x.stall \in 0 .. MaxStall
         /\ x.pc = "record" => x.first \in BOOLEAN
         /\ x.pc = "record" => x.result \in {"sent", "failed", "skipped"}
  BY DEF Task

\* A worker that may write its row writes one of the ledger.
LEMMA OwnRow ==
  ASSUME TypeOK, NEW w \in Workers, ~ At(w, "idle")
  PROVE  task[w].row \in Rows
  BY TaskParts DEF TypeOK, At

LEMMA Idler == Idle \in Task /\ Idle.pc = "idle"
  BY DEF Idle, Task

LEMMA FullLease == Lease \in 0 .. Lease
  BY TimesAssumption

\* A row that is taken or finished.
LEMMA RowTaken ==
  ASSUME NEW x \in Row, NEW w \in Workers
  PROVE  LET y == [x EXCEPT !.state = "SENDING", !.wait = Lease, !.holder = w]
         IN  /\ y \in Row
             /\ y.age = x.age /\ y.tried = x.tried
             /\ y.state = "SENDING" /\ y.holder = w
  BY FullLease DEF Row
LEMMA RowFinished ==
  ASSUME NEW x \in Row, NEW s \in Settled
  PROVE  LET y == [x EXCEPT !.state = s, !.holder = NoWorker]
         IN  /\ y \in Row
             /\ y.age = x.age /\ y.tried = x.tried
             /\ y.state = s /\ y.holder = NoWorker
  BY DEF Row, Settled
\* Time passes over an age as over a number, up to what is told apart.
LEMMA Aged ==
  ASSUME NEW a \in Age
  PROVE  /\ Older(a) \in Age
         /\ Older(a) = NotYet <=> a = NotYet
         /\ a # NotYet => a \in 0 .. KeyLife /\ Older(a) \in 0 .. KeyLife
         /\ a # NotYet => Older(a) = IF a = KeyLife THEN a ELSE a + 1
  BY TimesAssumption, NamesAssumption DEF Age, Older
LEMMA RowAged ==
  ASSUME NEW x \in Row
  PROVE  LET y == [x EXCEPT !.wait = IF @ = 0 THEN 0 ELSE @ - 1,
                            !.age = Older(@)]
         IN  /\ y \in Row
             /\ y.age = Older(x.age) /\ y.tried = x.tried
             /\ y.state = x.state /\ y.holder = x.holder
<1> DEFINE n == IF x.wait = 0 THEN 0 ELSE x.wait - 1
           a == Older(x.age)
<1>1. n \in 0 .. Lease /\ a \in Age
  BY TimesAssumption, Aged DEF Row
<1> HIDE DEF n, a
<1>2. LET y == [x EXCEPT !.wait = n, !.age = a]
      IN  /\ y \in Row
          /\ y.age = a /\ y.tried = x.tried
          /\ y.state = x.state /\ y.holder = x.holder
  BY <1>1 DEF Row
<1>3. QED
  BY <1>2 DEF n, a

\* Whether a provider sends what it is asked to, or has done so already.
Fresh(w) == provider[w] = "smtp" \/ known[task[w].row] \in {NotYet, KeyLife}

-----------------------------------------------------------------------------
(* What the steps of a worker do to its row and to its task *)

LEMMA ClaimDone ==
  ASSUME TypeOK, NEW w \in Workers, Claim(w), Eligible(task[w].row)
  PROVE  LET r == task[w].row IN
         /\ r \in Rows
         /\ \E y \in Row : /\ row' = [row EXCEPT ![r] = y]
                           /\ y.age = row[r].age /\ y.tried = row[r].tried
                           /\ y.state = "SENDING" /\ y.holder = w
         /\ \E t \in Task : /\ task' = [task EXCEPT ![w] = t]
                            /\ t.pc = "check" /\ t.row = r
                            /\ t.first <=> row[r].age = NotYet
<1> DEFINE r == task[w].row
           f == row[r].age = NotYet
           y == [row[r] EXCEPT !.state = "SENDING", !.wait = Lease,
                               !.holder = w]
           t == [pc |-> "check", row |-> r, stall |-> 0, first |-> f]
<1>1. r \in Rows
  BY OwnRow DEF Claim, At
<1>2. row' = [row EXCEPT ![r] = y] /\ task' = [task EXCEPT ![w] = t]
  BY DEF Claim, Taken
<1>3. row[r] \in Row
  BY <1>1 DEF TypeOK
<1>4. /\ y \in Row
      /\ y.age = row[r].age /\ y.tried = row[r].tried
      /\ y.state = "SENDING" /\ y.holder = w
  BY <1>3, RowTaken
<1>5. f \in BOOLEAN
  OBVIOUS
<1> HIDE DEF y, f
<1>6. t \in Task /\ t.pc = "check" /\ t.row = r /\ t.first = f
  BY <1>1, <1>5, TimesAssumption DEF Task
<1> HIDE DEF t, r
<1>7. t.first <=> row[r].age = NotYet
  BY <1>6 DEF f
<1>8. QED
  BY <1>1, <1>2, <1>4, <1>6, <1>7 DEF r

LEMMA FinishDone ==
  ASSUME TypeOK, NEW w \in Workers, ~ At(w, "idle"),
         NEW s \in Settled, Finish(w, s)
  PROVE  LET r == task[w].row IN
         /\ r \in Rows
         /\ task' = [task EXCEPT ![w] = Idle]
         /\ \/ row' = row
            \/ \E y \in Row : /\ row' = [row EXCEPT ![r] = y]
                              /\ y.age = row[r].age /\ y.tried = row[r].tried
                              /\ y.state = s /\ y.holder = NoWorker
         /\ UNCHANGED <<wanted, provider, known, inbox, crashes>>
<1> DEFINE r == task[w].row
           y == [row[r] EXCEPT !.state = s, !.holder = NoWorker]
<1>1. r \in Rows
  BY OwnRow
<1>2. row[r] \in Row
  BY <1>1 DEF TypeOK
<1>3. /\ y \in Row
      /\ y.age = row[r].age /\ y.tried = row[r].tried
      /\ y.state = s /\ y.holder = NoWorker
  BY <1>2, RowFinished
<1>4. row' = row \/ row' = [row EXCEPT ![r] = y]
  BY DEF Finish
<1> HIDE DEF y
<1>5. QED
  BY <1>1, <1>3, <1>4 DEF Finish, Ends

LEMMA AttemptDone ==
  ASSUME TypeOK, NEW w \in Workers, Attempt(w), Mine(w)
  PROVE  LET r == task[w].row
             a == IF task[w].first THEN task[w].stall ELSE row[r].age IN
         /\ r \in Rows
         /\ \E y \in Row : /\ row' = [row EXCEPT ![r] = y]
                           /\ y.age = a /\ y.tried = provider[w]
                           /\ y.state = row[r].state
                           /\ y.holder = row[r].holder
         /\ \E t \in Task : /\ task' = [task EXCEPT ![w] = t]
                            /\ t.pc = "send" /\ t.row = r
                            /\ t.first = task[w].first
                            /\ t.stall = task[w].stall
<1> DEFINE r == task[w].row
           a == IF task[w].first THEN task[w].stall ELSE row[r].age
           y == [row[r] EXCEPT !.age = a, !.tried = provider[w]]
           t == [task[w] EXCEPT !.pc = "send"]
<1>0. At(w, "check") /\ task[w] \in Task /\ provider[w] \in Providers
  BY DEF TypeOK, Attempt
<1>1. r \in Rows
  BY <1>0, OwnRow DEF At
<1>2. row' = [row EXCEPT ![r] = y] /\ task' = [task EXCEPT ![w] = t]
  BY DEF Attempt
<1>3. row[r] \in Row
  BY <1>1 DEF TypeOK
<1>4. a \in Age
  BY <1>0, <1>3, TaskParts, TimesAssumption DEF At, Age, Row
<1> HIDE DEF a
<1>5. /\ y \in Row
      /\ y.age = a /\ y.tried = provider[w]
      /\ y.state = row[r].state /\ y.holder = row[r].holder
  BY <1>0, <1>3, <1>4 DEF Row
<1> HIDE DEF y
<1>6. /\ t \in Task /\ t.pc = "send" /\ t.row = r
      /\ t.first = task[w].first /\ t.stall = task[w].stall
  BY <1>0 DEF Task, At
<1> HIDE DEF t
<1>7. QED
  BY <1>1, <1>2, <1>5, <1>6 DEF a

LEMMA SendDone ==
  ASSUME TypeOK, NEW w \in Workers,
         NEW result \in {"sent", "failed", "skipped"}, NEW arrives \in BOOLEAN,
         Send(w, result, arrives)
  PROVE  LET r == task[w].row IN
         /\ r \in Rows
         /\ \E t \in Task : /\ task' = [task EXCEPT ![w] = t]
                            /\ t.pc = "record" /\ t.row = r
                            /\ t.first = task[w].first /\ t.result = result
<1> DEFINE r == task[w].row
           t == [pc |-> "record", row |-> r, first |-> task[w].first,
                 result |-> result]
<1>0. At(w, "send") /\ task[w] \in Task
  BY DEF TypeOK, Send
<1>1. r \in Rows /\ task[w].first \in BOOLEAN
  BY <1>0, TaskParts DEF At
<1>2. task' = [task EXCEPT ![w] = t]
  BY DEF Send
<1>3. /\ t \in Task /\ t.pc = "record" /\ t.row = r
      /\ t.first = task[w].first /\ t.result = result
  BY <1>1 DEF Task
<1> HIDE DEF t
<1>4. QED
  BY <1>1, <1>2, <1>3

LEMMA RecordDone ==
  ASSUME TypeOK, NEW w \in Workers, Record(w), Mine(w)
  PROVE  LET r == task[w].row
             back == task[w].result = "skipped" /\ task[w].first IN
         /\ r \in Rows
         /\ \E y \in Row : /\ row' = [row EXCEPT ![r] = y]
                           /\ y.age = IF back THEN NotYet ELSE row[r].age
                           /\ y.tried = row[r].tried
                           /\ y.state # "SENDING"
                           /\ y.holder = NoWorker
<1> DEFINE r == task[w].row
           a == IF task[w].result = "skipped" /\ task[w].first
                  THEN NotYet ELSE row[r].age
           s == IF task[w].result = "sent" THEN "SENT" ELSE "QUEUED"
           y == [row[r] EXCEPT !.state = s, !.holder = NoWorker,
                               !.wait = Lease, !.age = a]
<1>1. r \in Rows
  BY OwnRow DEF Record, At
<1>2. row' = [row EXCEPT ![r] = y]
  BY DEF Record
<1>3. row[r] \in Row
  BY <1>1 DEF TypeOK
<1>4. a \in Age /\ s \in {"SENT", "QUEUED"}
  BY <1>3 DEF Age, Row
<1> HIDE DEF a, s
<1>5. /\ y \in Row
      /\ y.age = a /\ y.tried = row[r].tried
      /\ y.state = s /\ y.holder = NoWorker
  BY <1>3, <1>4, FullLease DEF Row, Settled
<1> HIDE DEF y
<1>6. QED
  BY <1>1, <1>2, <1>4, <1>5 DEF a

\* The tick of the clock, over rows and tasks.
LEMMA TickDone ==
  ASSUME TypeOK, Tick
  PROVE  /\ row' \in [Rows -> Row]
         /\ \A r \in Rows : /\ row'[r].age = Older(row[r].age)
                            /\ row'[r].tried = row[r].tried
                            /\ row'[r].state = row[r].state
                            /\ row'[r].holder = row[r].holder
         /\ task' \in [Workers -> Task]
         /\ \A w \in Workers :
              /\ task'[w].pc = task[w].pc
              /\ ~ At(w, "idle") => task'[w].row = task[w].row
              /\ At(w, "check") \/ At(w, "send") \/ At(w, "record")
                   => task'[w].first = task[w].first
              /\ At(w, "check") \/ At(w, "send")
                   => task'[w].stall = task[w].stall + 1
              /\ At(w, "record") => task'[w].result = task[w].result
<1>1. \A r \in Rows :
        /\ row'[r] \in Row
        /\ row'[r].age = Older(row[r].age) /\ row'[r].tried = row[r].tried
        /\ row'[r].state = row[r].state /\ row'[r].holder = row[r].holder
  <2> TAKE r \in Rows
  <2>1. row[r] \in Row
    BY DEF TypeOK
  <2>2. row'[r] = [row[r] EXCEPT !.wait = IF @ = 0 THEN 0 ELSE @ - 1,
                                 !.age = Older(@)]
    BY DEF Tick
  <2>3. QED
    BY <2>1, <2>2, RowAged
<1>2. \A w \in Workers :
        /\ task'[w] \in Task
        /\ task'[w].pc = task[w].pc
        /\ ~ At(w, "idle") => task'[w].row = task[w].row
        /\ At(w, "check") \/ At(w, "send") \/ At(w, "record")
             => task'[w].first = task[w].first
        /\ At(w, "check") \/ At(w, "send")
             => task'[w].stall = task[w].stall + 1
        /\ At(w, "record") => task'[w].result = task[w].result
  <2> TAKE w \in Workers
  <2>1. task[w] \in Task
    BY DEF TypeOK
  <2>2. CASE At(w, "check") \/ At(w, "send")
    <3>1. task'[w] = [task[w] EXCEPT !.stall = @ + 1]
      BY <2>2 DEF Tick
    <3>2. task[w].stall \in 0 .. MaxStall /\ task[w].stall < MaxStall
      BY <2>1, <2>2, TaskParts DEF Tick, At
    <3> DEFINE n == task[w].stall + 1
    <3>3. n \in 0 .. MaxStall
      BY <3>2, TimesAssumption
    <3> HIDE DEF n
    <3>4. LET t == [task[w] EXCEPT !.stall = n]
          IN  /\ t \in Task
              /\ t.pc = task[w].pc /\ t.row = task[w].row
              /\ t.first = task[w].first /\ t.stall = n
      BY <2>1, <2>2, <3>3 DEF Task, At
    <3>5. QED
      BY <2>2, <3>1, <3>4 DEF n, At
  <2>3. CASE ~ (At(w, "check") \/ At(w, "send"))
    BY <2>1, <2>3 DEF Tick
  <2>4. QED
    BY <2>2, <2>3
<1>3. QED
  BY <1>1, <1>2 DEF Tick

-----------------------------------------------------------------------------
\* TypeOK is an invariant: a row has a holder exactly while it is SENDING, and
\* no age or stall leaves its bounds.
THEOREM TypeCorrect == Spec => []TypeOK
<1>1. Init => TypeOK
  <2> SUFFICES ASSUME Init PROVE TypeOK
    OBVIOUS
  <2>1. ASSUME NEW r \in Rows
        PROVE  row[r] \in Row /\ row[r].state = "QUEUED"
               /\ row[r].holder = NoWorker
    <3>1. PICK k \in Kinds :
            row[r] = [kind |-> k, state |-> "QUEUED", wait |-> 0,
                      holder |-> NoWorker, age |-> NotYet, tried |-> "none"]
      BY DEF Init
    <3>2. 0 \in 0 .. Lease /\ NotYet \in Age
      BY TimesAssumption DEF Age
    <3>3. QED
      BY <3>1, <3>2 DEF Row
  <2>2. row \in [Rows -> Row]
    BY <2>1 DEF Init
  <2>3. crashes \in 0 .. MaxCrashes
    BY TimesAssumption DEF Init
  <2>4. QED
    BY <2>1, <2>2, <2>3, NamesAssumption, Idler DEF Init, TypeOK, Age
<1>2. TypeOK /\ [Next]_vars => TypeOK'
  <2> SUFFICES ASSUME TypeOK, [Next]_vars PROVE TypeOK'
    OBVIOUS
  <2> USE NamesAssumption
  <2>1. ASSUME NEW w \in Workers, NEW r \in Rows, Scan(w, r) PROVE TypeOK'
    <3>1. [pc |-> "claim", row |-> r] \in Task
      BY DEF Task
    <3>2. QED
      BY <2>1, <3>1 DEF TypeOK, Scan
  <2>2. ASSUME NEW w \in Workers, Claim(w) PROVE TypeOK'
    <3>1. CASE Eligible(task[w].row)
      BY <2>2, <3>1, ClaimDone DEF TypeOK, Claim
    <3>2. CASE ~ Eligible(task[w].row)
      BY <2>2, <3>2, Idler DEF TypeOK, Claim, Ends
    <3>3. QED
      BY <3>1, <3>2
  <2>3. ASSUME NEW w \in Workers, NEW s \in Settled, ~ At(w, "idle"),
               Finish(w, s)
        PROVE  TypeOK'
    <3>1. s # "SENDING"
      BY DEF Settled
    <3>2. QED
      BY <2>3, <3>1, FinishDone, Idler DEF TypeOK
  <2>4. ASSUME NEW w \in Workers, Cancel(w) \/ Review(w) PROVE TypeOK'
    BY <2>3, <2>4 DEF Cancel, Review, At, Settled
  <2>5. ASSUME NEW w \in Workers, Attempt(w) PROVE TypeOK'
    <3>1. CASE Mine(w)
      BY <2>5, <3>1, AttemptDone DEF TypeOK, Attempt
    <3>2. CASE ~ Mine(w)
      BY <2>5, <3>2, Idler DEF TypeOK, Attempt, Ends
    <3>3. QED
      BY <3>1, <3>2
  <2>6. ASSUME NEW w \in Workers, NEW result \in {"sent", "failed", "skipped"},
               NEW arrives \in BOOLEAN, Send(w, result, arrives)
        PROVE  TypeOK'
    <3>1. PICK t \in Task : task' = [task EXCEPT ![w] = t]
      BY <2>6, SendDone
    <3>a. task' \in [Workers -> Task]
      BY <3>1 DEF TypeOK
    <3>2. inbox' \in [Rows -> 0 .. 2]
      <4> DEFINE r == task[w].row
                 n == IF arrives /\ Fresh(w) /\ inbox[r] < 2
                        THEN inbox[r] + 1 ELSE inbox[r]
      <4>1. inbox' = [inbox EXCEPT ![r] = n]
        BY <2>6 DEF Send, Fresh
      <4>2. n \in 0 .. 2
        BY <2>6, SendDone DEF TypeOK
      <4> HIDE DEF n
      <4>3. QED
        BY <4>1, <4>2 DEF TypeOK
    <3>3. known' \in [Rows -> Age]
      <4> DEFINE r == task[w].row
                 n == IF arrives /\ Fresh(w) /\ provider[w] = "resend"
                        THEN 0 ELSE known[r]
      <4>1. known' = [known EXCEPT ![r] = n]
        BY <2>6 DEF Send, Fresh
      <4>2. n \in Age
        BY <2>6, SendDone, TimesAssumption DEF TypeOK, Age
      <4> HIDE DEF n
      <4>3. QED
        BY <4>1, <4>2 DEF TypeOK
    <3>4. QED
      BY <2>6, <3>a, <3>2, <3>3 DEF TypeOK, Send
  <2>7. ASSUME NEW w \in Workers, Record(w) PROVE TypeOK'
    <3>1. task' \in [Workers -> Task]
      BY <2>7, Idler DEF TypeOK, Record, Ends
    <3>2. CASE Mine(w)
      <4>1. PICK y \in Row :
              /\ row' = [row EXCEPT ![task[w].row] = y]
              /\ y.state # "SENDING" /\ y.holder = NoWorker
        BY <2>7, <3>2, RecordDone
      <4>2. UNCHANGED <<wanted, provider, known, inbox, crashes>>
        BY <2>7 DEF Record
      <4>3. row' \in [Rows -> Row]
        BY <4>1 DEF TypeOK
      <4>4. \A r \in Rows :
              row'[r].state = "SENDING" <=> row'[r].holder # NoWorker
        BY <4>1 DEF TypeOK
      <4>5. QED
        BY <3>1, <4>2, <4>3, <4>4 DEF TypeOK
    <3>3. CASE ~ Mine(w)
      BY <2>7, <3>1, <3>3 DEF TypeOK, Record
    <3>4. QED
      BY <3>2, <3>3
  <2>8. ASSUME NEW r \in Rows, Leave(r) \/ Miss(r) PROVE TypeOK'
    BY <2>8 DEF TypeOK, Leave, Miss
  <2>9. ASSUME NEW r \in Rows, MoveOn(r) PROVE TypeOK'
    <3> DEFINE s == IF row[r].state = "QUEUED" THEN "CANCELLED"
                                               ELSE row[r].state
               y == [row[r] EXCEPT !.state = s]
    <3>1. row' = [row EXCEPT ![r] = y]
      BY <2>9 DEF MoveOn
    <3>2. row[r] \in Row
      BY DEF TypeOK
    <3>3. /\ s \in {"QUEUED", "SENDING"} \cup Settled
          /\ s = "SENDING" <=> row[r].state = "SENDING"
      BY <3>2 DEF Row, Settled
    <3> HIDE DEF s
    <3>4. y \in Row /\ y.state = s /\ y.holder = row[r].holder
      BY <3>2, <3>3 DEF Row
    <3> HIDE DEF y
    <3>5. QED
      BY <2>9, <3>1, <3>3, <3>4 DEF TypeOK, MoveOn
  <2>10. ASSUME NEW w \in Workers, Crash(w) PROVE TypeOK'
    <3>1. provider' \in [Workers -> Providers]
      BY <2>10 DEF TypeOK, Crash
    <3>2. crashes' \in 0 .. MaxCrashes
      BY <2>10, TimesAssumption DEF TypeOK, Crash
    <3>3. QED
      BY <2>10, <3>1, <3>2, Idler DEF TypeOK, Crash, Ends
  <2>11. ASSUME Tick PROVE TypeOK'
    <3>1. known' \in [Rows -> Age]
      BY <2>11, Aged DEF TypeOK, Tick
    <3>2. QED
      <4>1. \A r \in Rows :
              row'[r].state = "SENDING" <=> row'[r].holder # NoWorker
        BY <2>11, TickDone DEF TypeOK
      <4>2. QED
        BY <2>11, <3>1, <4>1, TickDone DEF TypeOK, Tick
  <2>12. ASSUME UNCHANGED vars PROVE TypeOK'
    BY <2>12 DEF TypeOK, vars
  <2>13. QED
    BY <2>1, <2>2, <2>4, <2>5, <2>6, <2>7, <2>8, <2>9, <2>10, <2>11, <2>12
       DEF Next, Works
<1>3. QED
  BY <1>1, <1>2, PTL DEF Spec

-----------------------------------------------------------------------------
(* Why nobody gets a mail twice.  The first attempt of a row is one worker's *)
(* own: firstAttemptAt is written before its request goes out, and whoever   *)
(* claims the row after it is not first.  Whoever is not first sends with    *)
(* Resend, to which the key is still known.                                  *)

\* On its way to the provider, or back from it.
Trying(w) == task[w].pc \in {"send", "record"}

\* A claim that stands knows whether there was an attempt before it.
ClaimKnowsFirst ==
    \A w \in Workers :
      At(w, "check") /\ Mine(w) =>
        (task[w].first <=> row[task[w].row].age = NotYet)

\* An attempt is dated before it is made.
AttemptDated ==
    \A w \in Workers : Trying(w) => row[task[w].row].age # NotYet

\* A row has one first attempt, and while its claim stands no other one.
OneFirst ==
    \A v, w \in Workers :
      /\ Trying(v) /\ task[v].first
      /\ Trying(w) /\ task[w].first
      /\ task[v].row = task[w].row
      => v = w
FirstAlone ==
    \A v, w \in Workers :
      /\ Trying(w) /\ task[w].first /\ Mine(w)
      /\ Trying(v) /\ task[v].row = task[w].row
      => v = w

\* Before a first attempt, and after one that was skipped, nothing was sent.
NothingSent(r) == inbox[r] = 0 /\ known[r] = NotYet
Unsent(w) ==
    /\ task[w].first
    /\ \/ At(w, "send")
       \/ At(w, "record") /\ task[w].result = "skipped"
Untried ==
    \A w \in Workers : Mine(w) /\ Unsent(w) => NothingSent(task[w].row)
NothingYet ==
    \A r \in Rows : row[r].age = NotYet => NothingSent(r)

\* A later attempt goes through Resend, as did the first one.
SameProvider ==
    \A w \in Workers :
      At(w, "send") => /\ row[task[w].row].tried = provider[w]
                       /\ task[w].first \/ provider[w] = "resend"

\* What was sent, Resend knows or nobody sends again.
SentOnce ==
    \A r \in Rows :
      inbox[r] # 0 =>
        /\ inbox[r] = 1
        /\ \/ row[r].tried = "resend" /\ known[r] # NotYet
           \/ /\ row[r].tried = "smtp"
              /\ \A w \in Workers : At(w, "send") => task[w].row # r

\* A key is no older than the first attempt, and no attempt is made when the
\* first one is SAFE_RETRY_MS old, but for the worker's pause.
KeyYounger ==
    \A r \in Rows :
      known[r] # NotYet => row[r].age # NotYet /\ known[r] <= row[r].age
InTime ==
    \A w \in Workers :
      At(w, "send") => row[task[w].row].age < SafeRetry + task[w].stall

Inv ==
    /\ ClaimKnowsFirst /\ AttemptDated /\ OneFirst /\ FirstAlone
    /\ Untried /\ NothingYet /\ SameProvider /\ SentOnce
    /\ KeyYounger /\ InTime

\* Whatever only lets go of rows keeps the invariant: a worker that crashes,
\* scans or ends, and a row that is settled or queued again with its dates.
LEMMA LettingGo ==
  ASSUME TypeOK, Inv, UNCHANGED <<known, inbox>>,
         \A r \in Rows : /\ row'[r].age = row[r].age
                         /\ row'[r].tried = row[r].tried,
         \A w \in Workers :
           \/ task'[w].pc \in {"idle", "claim"}
           \/ /\ task'[w] = task[w] /\ provider'[w] = provider[w]
              /\ Mine(w)' => Mine(w)
  PROVE  Inv'
<1>1. ASSUME NEW w \in Workers, task[w].pc # "idle"
      PROVE  task[w].row \in Rows
  BY <1>1, OwnRow DEF At
<1>2. ClaimKnowsFirst'
  BY <1>1 DEF Inv, ClaimKnowsFirst, At
<1>3. AttemptDated'
  BY <1>1 DEF Inv, AttemptDated, Trying
<1>4. OneFirst'
  BY DEF Inv, OneFirst, Trying
<1>5. FirstAlone'
  BY DEF Inv, FirstAlone, Trying
<1>6. Untried'
  BY DEF Inv, Untried, Unsent, NothingSent, At
<1>7. NothingYet'
  BY DEF Inv, NothingYet, NothingSent
<1>8. SameProvider'
  BY <1>1 DEF Inv, SameProvider, At
<1>9. SentOnce'
  BY DEF Inv, SentOnce, At
<1>10. KeyYounger'
  BY DEF Inv, KeyYounger
<1>11. InTime'
  BY <1>1 DEF Inv, InTime, At
<1>12. QED
  BY <1>2, <1>3, <1>4, <1>5, <1>6, <1>7, <1>8, <1>9, <1>10, <1>11 DEF Inv

LEMMA ClaimKeeps ==
  ASSUME TypeOK, Inv, NEW w \in Workers, Claim(w), Eligible(task[w].row)
  PROVE  Inv'
<1> DEFINE r == task[w].row
<1>1. r \in Rows /\ UNCHANGED <<known, inbox, provider>>
  BY ClaimDone DEF Claim
<1>2. PICK y \in Row : /\ row' = [row EXCEPT ![r] = y]
                       /\ y.age = row[r].age /\ y.tried = row[r].tried
                       /\ y.state = "SENDING" /\ y.holder = w
  BY ClaimDone
<1>3. PICK t \in Task : /\ task' = [task EXCEPT ![w] = t]
                        /\ t.pc = "check" /\ t.row = r
                        /\ t.first <=> row[r].age = NotYet
  BY ClaimDone
<1>4. \A q \in Rows : /\ row'[q].age = row[q].age
                      /\ row'[q].tried = row[q].tried
  BY <1>2 DEF TypeOK
<1>5. \A v \in Workers \ {w} : task'[v] = task[v]
  BY <1>3 DEF TypeOK
<1>6. task'[w].pc = "check" /\ task'[w].row = r
      /\ (task'[w].first <=> row[r].age = NotYet)
  BY <1>3 DEF TypeOK
<1>7. \A v \in Workers \ {w} : Mine(v)' => Mine(v)
  BY <1>2, <1>5, OwnRow DEF TypeOK, Mine, At
<1>8. \A v \in Workers : task[v].pc # "idle" => task[v].row \in Rows
  BY OwnRow DEF At
<1> HIDE DEF r
<1>9. ClaimKnowsFirst'
  BY <1>1, <1>4, <1>5, <1>6, <1>7, <1>8 DEF Inv, ClaimKnowsFirst, At
<1>10. AttemptDated'
  BY <1>4, <1>5, <1>6, <1>8 DEF Inv, AttemptDated, Trying
<1>11. OneFirst'
  BY <1>5, <1>6 DEF Inv, OneFirst, Trying
<1>12. FirstAlone'
  BY <1>5, <1>6, <1>7 DEF Inv, FirstAlone, Trying
<1>13. Untried'
  BY <1>1, <1>5, <1>6, <1>7 DEF Inv, Untried, Unsent, NothingSent, At
<1>14. NothingYet'
  BY <1>1, <1>4 DEF Inv, NothingYet, NothingSent
<1>15. SameProvider'
  BY <1>1, <1>4, <1>5, <1>6, <1>8 DEF Inv, SameProvider, At
<1>16. SentOnce'
  BY <1>1, <1>4, <1>5, <1>6 DEF Inv, SentOnce, At
<1>17. KeyYounger'
  BY <1>1, <1>4 DEF Inv, KeyYounger
<1>18. InTime'
  BY <1>4, <1>5, <1>6, <1>8 DEF Inv, InTime, At
<1>19. QED
  BY <1>9, <1>10, <1>11, <1>12, <1>13, <1>14, <1>15, <1>16, <1>17, <1>18 DEF Inv

\* The claim stands, so that nobody else tries the row for the first time: if
\* this worker does, nobody else tries it at all.
LEMMA AttemptKeeps ==
  ASSUME TypeOK, Inv, NEW w \in Workers, Attempt(w), Mine(w)
  PROVE  Inv'
<1> DEFINE r == task[w].row
           a == IF task[w].first THEN task[w].stall ELSE row[r].age
<1>1. /\ r \in Rows /\ UNCHANGED <<known, inbox, provider>>
      /\ At(w, "check") /\ ~ Uncertain(w)
  BY AttemptDone DEF Attempt
<1>2. PICK y \in Row : /\ row' = [row EXCEPT ![r] = y]
                       /\ y.age = a /\ y.tried = provider[w]
                       /\ y.state = row[r].state
                       /\ y.holder = row[r].holder
  BY AttemptDone
<1>3. PICK t \in Task : /\ task' = [task EXCEPT ![w] = t]
                        /\ t.pc = "send" /\ t.row = r
                        /\ t.first = task[w].first
                        /\ t.stall = task[w].stall
  BY AttemptDone
<1>4. /\ task[w].first <=> row[r].age = NotYet
      /\ row[r].age = NotYet => NothingSent(r)
  BY <1>1 DEF Inv, ClaimKnowsFirst, NothingYet
<1>5. task[w].stall \in 0 .. MaxStall
  BY <1>1, TaskParts DEF TypeOK, At
<1>6. /\ a # NotYet /\ a \in 0 .. KeyLife
      /\ a < SafeRetry + task[w].stall
      /\ ~ task[w].first => a = row[r].age
  <2>1. CASE task[w].first
    BY <1>5, <2>1, TimesAssumption, NamesAssumption
  <2>2. CASE ~ task[w].first
    <3>1. row[r].age \in 0 .. KeyLife /\ row[r].age # NotYet
      BY <1>1, <1>4, <2>2, NamesAssumption DEF TypeOK, Row, Age
    <3>2. ~ (row[r].age - task[w].stall >= SafeRetry)
      BY <1>1, <2>2 DEF Uncertain
    <3>3. QED
      BY <1>5, <2>2, <3>1, <3>2, TimesAssumption
  <2>3. QED
    BY <2>1, <2>2
<1>7. ~ task[w].first => provider[w] = "resend" /\ row[r].tried = provider[w]
  BY <1>1 DEF Uncertain
<1>8. \A q \in Rows \ {r} : row'[q] = row[q]
  BY <1>2 DEF TypeOK
<1>9. /\ row'[r].age = a /\ row'[r].tried = provider[w]
      /\ row'[r].state = row[r].state /\ row'[r].holder = row[r].holder
  BY <1>1, <1>2 DEF TypeOK
<1>10. \A v \in Workers \ {w} : task'[v] = task[v]
  BY <1>3 DEF TypeOK
<1>11. /\ task'[w].pc = "send" /\ task'[w].row = r
       /\ task'[w].first = task[w].first /\ task'[w].stall = task[w].stall
  BY <1>3 DEF TypeOK
<1>12. \A v \in Workers : task[v].pc # "idle" => task[v].row \in Rows
  BY OwnRow DEF At
\* Whoever else has a task of this row has lost its claim.
<1>13. \A v \in Workers \ {w} :
         /\ Mine(v)' => Mine(v)
         /\ ~ At(v, "idle") /\ task[v].row = r => ~ Mine(v) /\ ~ Mine(v)'
  BY <1>8, <1>9, <1>10, <1>12 DEF Mine, At
\* A first attempt is made when nobody tries the row.
<1>14. \A v \in Workers :
         Trying(v) /\ task[v].row = r => ~ task[w].first
  BY <1>4 DEF Inv, AttemptDated
<1>15. ~ Trying(w)
  BY <1>1 DEF Trying, At
<1> HIDE DEF r, a
<1>16. ClaimKnowsFirst'
  BY <1>8, <1>10, <1>11, <1>12, <1>13 DEF Inv, ClaimKnowsFirst, At
<1>17. AttemptDated'
  BY <1>6, <1>8, <1>9, <1>10, <1>11, <1>12 DEF Inv, AttemptDated, Trying
<1>18. OneFirst'
  BY <1>10, <1>11, <1>14 DEF Inv, OneFirst, Trying
<1>19. FirstAlone'
  BY <1>10, <1>11, <1>13, <1>14 DEF Inv, FirstAlone, Trying, At
<1>20. Untried'
  BY <1>1, <1>4, <1>10, <1>11, <1>13
     DEF Inv, Untried, Unsent, NothingSent, At
<1>21. NothingYet'
  BY <1>1, <1>6, <1>8, <1>9 DEF Inv, NothingYet, NothingSent
<1>22. SameProvider'
  BY <1>1, <1>7, <1>8, <1>9, <1>10, <1>11, <1>12, <1>14
     DEF Inv, SameProvider, At, Trying
<1>23. SentOnce'
  BY <1>1, <1>4, <1>7, <1>8, <1>9, <1>10, <1>11
     DEF Inv, SentOnce, NothingSent, At
<1>24. KeyYounger'
  BY <1>1, <1>4, <1>6, <1>8, <1>9 DEF Inv, KeyYounger, NothingSent
<1>25. InTime'
  BY <1>6, <1>8, <1>9, <1>10, <1>11, <1>12, <1>14 DEF Inv, InTime, At, Trying
<1>26. QED
  BY <1>16, <1>17, <1>18, <1>19, <1>20, <1>21, <1>22, <1>23, <1>24, <1>25
     DEF Inv

\* Resend still knows the key of what it has sent, and SMTP is asked once.
LEMMA NotSentAgain ==
  ASSUME TypeOK, Inv, NEW w \in Workers, At(w, "send"), Fresh(w)
  PROVE  inbox[task[w].row] = 0
<1> DEFINE r == task[w].row
<1>1. r \in Rows /\ task[w].stall \in 0 .. MaxStall
  BY OwnRow, TaskParts DEF TypeOK, At
<1>2. row[r].age # NotYet /\ row[r].age < SafeRetry + task[w].stall
  BY DEF Inv, AttemptDated, InTime, Trying, At
<1>3. row[r].age \in 0 .. KeyLife
  BY <1>1, <1>2 DEF TypeOK, Row, Age
<1>4. row[r].age < KeyLife
  BY <1>1, <1>2, <1>3, TimesAssumption
<1>5. known[r] # NotYet => known[r] \in 0 .. KeyLife /\ known[r] <= row[r].age
  BY <1>1 DEF Inv, KeyYounger, TypeOK, Age
<1>6. known[r] # NotYet => known[r] # KeyLife
  BY <1>3, <1>4, <1>5, TimesAssumption
<1>7. row[r].tried = provider[w]
  BY DEF Inv, SameProvider
<1>8. ASSUME inbox[r] # 0 PROVE FALSE
  <2>1. row[r].tried = "resend" /\ known[r] # NotYet
    BY <1>1, <1>8 DEF Inv, SentOnce
  <2>2. QED
    BY <1>6, <1>7, <2>1 DEF Fresh
<1>9. QED
  BY <1>8

LEMMA SendKeeps ==
  ASSUME TypeOK, Inv, NEW w \in Workers,
         NEW result \in {"sent", "failed", "skipped"}, NEW arrives \in BOOLEAN,
         Send(w, result, arrives)
  PROVE  Inv'
<1> DEFINE r == task[w].row
           goes == arrives /\ Fresh(w)
<1>1. /\ r \in Rows /\ UNCHANGED <<row, provider>> /\ At(w, "send")
      /\ result = "skipped" => ~ arrives
  BY SendDone DEF Send
<1>2. PICK t \in Task : /\ task' = [task EXCEPT ![w] = t]
                        /\ t.pc = "record" /\ t.row = r
                        /\ t.first = task[w].first /\ t.result = result
  BY SendDone
<1>3. \A v \in Workers \ {w} : task'[v] = task[v]
  BY <1>2 DEF TypeOK
<1>4. /\ task'[w].pc = "record" /\ task'[w].row = r
      /\ task'[w].first = task[w].first /\ task'[w].result = result
  BY <1>2 DEF TypeOK
<1>5. \A q \in Rows \ {r} : inbox'[q] = inbox[q] /\ known'[q] = known[q]
  BY DEF Send, TypeOK
<1>6. ~ goes => inbox'[r] = inbox[r] /\ known'[r] = known[r]
  BY <1>1 DEF Send, TypeOK, Fresh
<1>7. goes => /\ inbox[r] = 0 /\ inbox'[r] = 1
              /\ known'[r] = IF provider[w] = "resend" THEN 0 ELSE known[r]
  <2>1. SUFFICES ASSUME goes
                 PROVE  /\ inbox[r] = 0 /\ inbox'[r] = 1
                        /\ known'[r] = IF provider[w] = "resend" THEN 0
                                                                ELSE known[r]
    OBVIOUS
  <2>2. inbox[r] = 0
    BY <1>1, <2>1, NotSentAgain
  <2>3. QED
    BY <1>1, <2>1, <2>2 DEF Send, TypeOK, Fresh
<1>8. \A v \in Workers : task[v].pc # "idle" => task[v].row \in Rows
  BY OwnRow DEF At
<1>9. \A v \in Workers : /\ Mine(v)' = Mine(v)
                         /\ Trying(v)' = Trying(v)
                         /\ Trying(v) => /\ task'[v].row = task[v].row
                                         /\ task'[v].first = task[v].first
  BY <1>1, <1>3, <1>4 DEF Mine, Trying, At
<1>10. row[r].age # NotYet /\ row[r].tried = provider[w]
  BY <1>1 DEF Inv, AttemptDated, SameProvider, Trying, At
<1>11. row[r].age \in 0 .. KeyLife
  BY <1>1, <1>10 DEF TypeOK, Row, Age
<1>12. provider[w] \in Providers
  BY DEF TypeOK
<1>13. Trying(w)
  BY <1>1 DEF Trying, At
<1> HIDE DEF r, goes
<1>14. ClaimKnowsFirst'
  BY <1>1, <1>3, <1>4, <1>9 DEF Inv, ClaimKnowsFirst, At
<1>15. AttemptDated'
  BY <1>1, <1>9 DEF Inv, AttemptDated
<1>16. OneFirst'
  BY <1>9 DEF Inv, OneFirst
<1>17. FirstAlone'
  BY <1>9 DEF Inv, FirstAlone
<1>18. Untried'
  <2> SUFFICES ASSUME NEW v \in Workers, Mine(v)', Unsent(v)'
               PROVE  NothingSent(task[v].row)'
    BY DEF Untried
  <2>1. CASE v = w
    <3>1. ~ goes /\ Unsent(w) /\ Mine(w)
      BY <1>1, <1>4, <1>9, <2>1 DEF Unsent, At, goes
    <3>2. NothingSent(r)
      BY <3>1 DEF Inv, Untried, r
    <3>3. QED
      BY <1>4, <1>6, <2>1, <3>1, <3>2 DEF NothingSent
  <2>2. CASE v # w
    <3>1. Mine(v) /\ Unsent(v) /\ Trying(v) /\ task[v].first
      BY <1>3, <1>9, <2>2 DEF Unsent, Trying, At
    <3>2. task[v].row # r
      BY <1>13, <2>2, <3>1 DEF Inv, FirstAlone, r
    <3>3. NothingSent(task[v].row) /\ task[v].row \in Rows
      BY <1>8, <3>1 DEF Inv, Untried, Trying
    <3>4. QED
      BY <1>3, <1>5, <2>2, <3>2, <3>3 DEF NothingSent
  <2>3. QED
    BY <2>1, <2>2
<1>19. NothingYet'
  BY <1>1, <1>5, <1>10 DEF Inv, NothingYet, NothingSent
<1>20. SameProvider'
  BY <1>1, <1>3, <1>4 DEF Inv, SameProvider, At
<1>21. SentOnce'
  <2> SUFFICES ASSUME NEW q \in Rows, inbox'[q] # 0
               PROVE  /\ inbox'[q] = 1
                      /\ \/ row[q].tried = "resend" /\ known'[q] # NotYet
                         \/ /\ row[q].tried = "smtp"
                            /\ \A v \in Workers :
                                 At(v, "send")' => task'[v].row # q
    BY <1>1 DEF SentOnce
  <2>1. CASE q # r \/ ~ goes
    BY <1>3, <1>4, <1>5, <1>6, <2>1 DEF Inv, SentOnce, At
  <2>2. CASE q = r /\ goes
    <3>1. CASE provider[w] = "resend"
      BY <1>7, <1>10, <2>2, <3>1, NamesAssumption, TimesAssumption
    <3>2. CASE provider[w] = "smtp"
      <4>1. ASSUME NEW v \in Workers, At(v, "send")', task'[v].row = r
            PROVE  FALSE
        <5>1. v # w /\ At(v, "send") /\ task[v].row = r
          BY <1>3, <1>4, <4>1 DEF At
        <5>2. task[v].first /\ task[w].first
          BY <1>1, <1>10, <3>2, <5>1 DEF Inv, SameProvider
        <5>3. QED
          BY <1>13, <5>1, <5>2 DEF Inv, OneFirst, Trying, At, r
      <4>2. QED
        BY <1>7, <1>10, <2>2, <3>2, <4>1
    <3>3. QED
      BY <1>12, <3>1, <3>2 DEF Providers
  <2>3. QED
    BY <2>1, <2>2
<1>22. KeyYounger'
  BY <1>1, <1>5, <1>6, <1>7, <1>10, <1>11 DEF Inv, KeyYounger
<1>23. InTime'
  BY <1>1, <1>3, <1>4 DEF Inv, InTime, At
<1>24. QED
  BY <1>14, <1>15, <1>16, <1>17, <1>18, <1>19, <1>20, <1>21, <1>22, <1>23
     DEF Inv

\* A first attempt that was skipped: nothing was sent, and nobody else tries
\* the row, so that it is as good as new.
LEMMA RecordKeeps ==
  ASSUME TypeOK, Inv, NEW w \in Workers, Record(w), Mine(w),
         task[w].result = "skipped" /\ task[w].first
  PROVE  Inv'
<1> DEFINE r == task[w].row
<1>1. /\ r \in Rows /\ UNCHANGED <<known, inbox, provider>>
      /\ At(w, "record")
  BY RecordDone DEF Record
<1>2. PICK y \in Row : /\ row' = [row EXCEPT ![r] = y]
                       /\ y.age = NotYet /\ y.tried = row[r].tried
                       /\ y.state # "SENDING"
  BY RecordDone
<1>3. \A q \in Rows \ {r} : row'[q] = row[q]
  BY <1>2 DEF TypeOK
<1>4. /\ row'[r].age = NotYet /\ row'[r].tried = row[r].tried
      /\ row'[r].state # "SENDING"
  BY <1>1, <1>2 DEF TypeOK
<1>5. \A v \in Workers \ {w} : task'[v] = task[v]
  BY DEF TypeOK, Record, Ends
<1>6. task'[w].pc = "idle"
  BY Idler DEF TypeOK, Record, Ends
<1>7. \A v \in Workers : task[v].pc # "idle" => task[v].row \in Rows
  BY OwnRow DEF At
<1>8. NothingSent(r)
  BY <1>1 DEF Inv, Untried, Unsent
<1>9. \A v \in Workers \ {w} : Trying(v) => task[v].row # r
  BY <1>1 DEF Inv, FirstAlone, Trying, At
<1>10. \A v \in Workers : Mine(v)' => Mine(v) /\ task[v].row # r /\ v # w
  BY <1>3, <1>4, <1>5, <1>6, <1>7 DEF Mine, At
<1> HIDE DEF r
<1>11. ClaimKnowsFirst'
  BY <1>3, <1>5, <1>7, <1>10 DEF Inv, ClaimKnowsFirst, At
<1>12. AttemptDated'
  BY <1>3, <1>5, <1>6, <1>7, <1>9 DEF Inv, AttemptDated, Trying
<1>13. OneFirst'
  BY <1>5, <1>6 DEF Inv, OneFirst, Trying
<1>14. FirstAlone'
  BY <1>5, <1>6, <1>10 DEF Inv, FirstAlone, Trying
<1>15. Untried'
  BY <1>1, <1>5, <1>6, <1>10 DEF Inv, Untried, Unsent, NothingSent, At
<1>16. NothingYet'
  BY <1>1, <1>3, <1>8 DEF Inv, NothingYet, NothingSent
<1>17. SameProvider'
  BY <1>1, <1>3, <1>5, <1>6, <1>7, <1>9 DEF Inv, SameProvider, Trying, At
<1>18. SentOnce'
  BY <1>1, <1>3, <1>4, <1>5, <1>6 DEF Inv, SentOnce, At
<1>19. KeyYounger'
  BY <1>1, <1>3, <1>8 DEF Inv, KeyYounger, NothingSent
<1>20. InTime'
  BY <1>3, <1>5, <1>6, <1>7, <1>9 DEF Inv, InTime, Trying, At
<1>21. QED
  BY <1>11, <1>12, <1>13, <1>14, <1>15, <1>16, <1>17, <1>18, <1>19, <1>20
     DEF Inv

LEMMA TickKeeps ==
  ASSUME TypeOK, Inv, Tick
  PROVE  Inv'
<1>1. \A r \in Rows : /\ row'[r].age = Older(row[r].age)
                      /\ row'[r].tried = row[r].tried
                      /\ row'[r].state = row[r].state
                      /\ row'[r].holder = row[r].holder
  BY TickDone
<1>2. UNCHANGED <<inbox, provider>> /\ \A r \in Rows : known'[r] = Older(known[r])
  BY DEF Tick
<1>3. \A r \in Rows : row[r].age \in Age /\ known[r] \in Age
  BY DEF TypeOK, Row
<1>4. \A r \in Rows : /\ row'[r].age = NotYet <=> row[r].age = NotYet
                      /\ known'[r] = NotYet <=> known[r] = NotYet
  BY <1>1, <1>2, <1>3, Aged
<1>5. \A v \in Workers :
        /\ task'[v].pc = task[v].pc
        /\ ~ At(v, "idle") => task'[v].row = task[v].row
        /\ At(v, "check") \/ Trying(v) => task'[v].first = task[v].first
        /\ At(v, "record") => task'[v].result = task[v].result
        /\ At(v, "send") => task'[v].stall = task[v].stall + 1
  BY TickDone DEF Trying, At
<1>6. \A v \in Workers : task[v].pc # "idle" => task[v].row \in Rows
  BY OwnRow DEF At
<1>7. \A v \in Workers : /\ Mine(v)' = Mine(v)
                         /\ Trying(v)' = Trying(v)
                         /\ Trying(v) => ~ At(v, "idle")
  BY <1>1, <1>5, <1>6 DEF Mine, Trying, At
<1>8. ClaimKnowsFirst'
  BY <1>4, <1>5, <1>6, <1>7 DEF Inv, ClaimKnowsFirst, At
<1>9. AttemptDated'
  BY <1>4, <1>5, <1>6, <1>7 DEF Inv, AttemptDated, At
<1>10. OneFirst'
  BY <1>5, <1>7 DEF Inv, OneFirst
<1>11. FirstAlone'
  BY <1>5, <1>7 DEF Inv, FirstAlone
<1>12. Untried'
  <2> SUFFICES ASSUME NEW v \in Workers, Mine(v)', Unsent(v)'
               PROVE  NothingSent(task[v].row)'
    BY DEF Untried
  <2>1. Mine(v) /\ Unsent(v)
    BY <1>5, <1>7 DEF Unsent, At, Trying
  <2>2. task'[v].row = task[v].row /\ task[v].row \in Rows
    BY <1>5, <1>6, <2>1 DEF Unsent, At
  <2>3. NothingSent(task[v].row)
    BY <2>1 DEF Inv, Untried
  <2>4. QED
    BY <1>2, <1>4, <2>2, <2>3 DEF NothingSent
<1>13. NothingYet'
  BY <1>2, <1>4 DEF Inv, NothingYet, NothingSent
<1>14. SameProvider'
  BY <1>1, <1>2, <1>5, <1>6 DEF Inv, SameProvider, At, Trying
<1>15. SentOnce'
  BY <1>1, <1>2, <1>4, <1>5 DEF Inv, SentOnce, At
<1>16. KeyYounger'
  <2> SUFFICES ASSUME NEW r \in Rows, known'[r] # NotYet
               PROVE  row'[r].age # NotYet /\ known'[r] <= row'[r].age
    BY DEF KeyYounger
  <2>1. /\ known[r] # NotYet /\ row[r].age # NotYet
        /\ known[r] <= row[r].age
    BY <1>4 DEF Inv, KeyYounger
  <2>2. /\ known[r] \in 0 .. KeyLife /\ row[r].age \in 0 .. KeyLife
        /\ known'[r] = IF known[r] = KeyLife THEN known[r] ELSE known[r] + 1
        /\ row'[r].age = IF row[r].age = KeyLife THEN row[r].age
                                                ELSE row[r].age + 1
    BY <1>1, <1>2, <1>3, <2>1, Aged
  <2>3. QED
    BY <1>4, <2>1, <2>2, TimesAssumption
<1>17. InTime'
  <2> SUFFICES ASSUME NEW v \in Workers, At(v, "send")'
               PROVE  row'[task'[v].row].age < SafeRetry + task'[v].stall
    BY DEF InTime
  <2> DEFINE r == task[v].row
  <2>1. /\ At(v, "send") /\ r \in Rows /\ task'[v].row = r
        /\ task'[v].stall = task[v].stall + 1
    BY <1>5, <1>6 DEF At
  <2>2. row[r].age # NotYet /\ row[r].age < SafeRetry + task[v].stall
    BY <2>1 DEF Inv, AttemptDated, InTime, Trying, At
  <2>3. task[v].stall \in 0 .. MaxStall
    BY <2>1, TaskParts DEF TypeOK, At
  <2>4. /\ row[r].age \in 0 .. KeyLife
        /\ row'[r].age = IF row[r].age = KeyLife THEN row[r].age
                                                ELSE row[r].age + 1
    BY <1>1, <1>3, <2>1, <2>2, Aged
  <2>5. QED
    BY <2>1, <2>2, <2>3, <2>4, TimesAssumption
<1>18. QED
  BY <1>8, <1>9, <1>10, <1>11, <1>12, <1>13, <1>14, <1>15, <1>16, <1>17 DEF Inv

-----------------------------------------------------------------------------
\* A claim, the dates of the row, what Resend knows and what arrived agree in
\* every reachable state.
THEOREM InvariantHolds == Spec => []Inv
<1>1. Init => Inv
  <2> SUFFICES ASSUME Init PROVE Inv
    OBVIOUS
  <2>1. \A w \in Workers : task[w].pc = "idle"
    BY Idler DEF Init
  <2>2. \A r \in Rows : NothingSent(r)
    BY DEF Init, NothingSent
  <2>3. QED
    BY <2>1, <2>2
       DEF Inv, ClaimKnowsFirst, AttemptDated, OneFirst, FirstAlone, Untried,
           Unsent, NothingYet, SameProvider, SentOnce, KeyYounger, InTime,
           NothingSent, Trying, At
<1>2. TypeOK /\ Inv /\ [Next]_vars => Inv'
  <2> SUFFICES ASSUME TypeOK, Inv, [Next]_vars PROVE Inv'
    OBVIOUS
  <2>1. ASSUME NEW w \in Workers, NEW r \in Rows, Scan(w, r) PROVE Inv'
    <3>1. /\ task'[w].pc = "claim" /\ \A v \in Workers \ {w} : task'[v] = task[v]
          /\ UNCHANGED <<row, provider, known, inbox>>
      BY <2>1 DEF Scan, TypeOK
    <3>2. \A v \in Workers \ {w} : Mine(v)' => Mine(v)
      BY <3>1 DEF Mine, At
    <3>3. QED
      BY <3>1, <3>2, LettingGo
  <2>2. ASSUME NEW w \in Workers, ~ At(w, "idle"), Ends(w),
               UNCHANGED <<row, known, inbox>>,
               \A v \in Workers \ {w} : provider'[v] = provider[v]
        PROVE  Inv'
    <3>1. /\ task'[w].pc = "idle" /\ \A v \in Workers \ {w} : task'[v] = task[v]
      BY <2>2, Idler DEF Ends, TypeOK
    <3>2. \A v \in Workers \ {w} : Mine(v)' => Mine(v)
      BY <2>2, <3>1 DEF Mine, At
    <3>3. QED
      BY <2>2, <3>1, <3>2, LettingGo
  <2>3. ASSUME NEW w \in Workers, ~ At(w, "idle"), Ends(w),
               UNCHANGED <<known, inbox, provider>>,
               NEW r \in Rows, NEW y \in Row, row' = [row EXCEPT ![r] = y],
               y.age = row[r].age, y.tried = row[r].tried,
               y.state # "SENDING"
        PROVE  Inv'
    <3>1. /\ task'[w].pc = "idle" /\ \A v \in Workers \ {w} : task'[v] = task[v]
      BY <2>3, Idler DEF Ends, TypeOK
    <3>2. \A q \in Rows : /\ row'[q].age = row[q].age
                          /\ row'[q].tried = row[q].tried
      BY <2>3 DEF TypeOK
    <3>3. \A v \in Workers \ {w} : Mine(v)' => Mine(v)
      BY <2>3, <3>1, OwnRow DEF Mine, At, TypeOK
    <3>4. QED
      BY <2>3, <3>1, <3>2, <3>3, LettingGo
  <2>4. ASSUME NEW w \in Workers, Claim(w) PROVE Inv'
    <3>1. CASE Eligible(task[w].row)
      BY <2>4, <3>1, ClaimKeeps
    <3>2. CASE ~ Eligible(task[w].row)
      BY <2>2, <2>4, <3>2 DEF Claim, At
    <3>3. QED
      BY <3>1, <3>2
  <2>5. ASSUME NEW w \in Workers, NEW s \in Settled, At(w, "check"),
               Finish(w, s)
        PROVE  Inv'
    <3>1. ~ At(w, "idle") /\ s # "SENDING" /\ Ends(w)
          /\ UNCHANGED <<known, inbox, provider>>
      BY <2>5 DEF At, Settled, Finish
    <3>2. CASE row' = row
      BY <2>2, <3>1, <3>2
    <3>3. CASE \E y \in Row :
                 /\ row' = [row EXCEPT ![task[w].row] = y]
                 /\ y.age = row[task[w].row].age
                 /\ y.tried = row[task[w].row].tried
                 /\ y.state = s /\ y.holder = NoWorker
      BY <2>3, <3>1, <3>3, OwnRow
    <3>4. QED
      BY <2>5, <3>1, <3>2, <3>3, FinishDone
  <2>6. ASSUME NEW w \in Workers, Cancel(w) \/ Review(w) PROVE Inv'
    BY <2>5, <2>6 DEF Cancel, Review, Settled
  <2>7. ASSUME NEW w \in Workers, Attempt(w) PROVE Inv'
    <3>1. CASE Mine(w)
      BY <2>7, <3>1, AttemptKeeps
    <3>2. CASE ~ Mine(w)
      BY <2>2, <2>7, <3>2 DEF Attempt, At
    <3>3. QED
      BY <3>1, <3>2
  <2>8. ASSUME NEW w \in Workers, NEW result \in {"sent", "failed", "skipped"},
               NEW arrives \in BOOLEAN, Send(w, result, arrives)
        PROVE  Inv'
    BY <2>8, SendKeeps
  <2>9. ASSUME NEW w \in Workers, Record(w) PROVE Inv'
    <3>1. ~ At(w, "idle") /\ Ends(w) /\ UNCHANGED <<known, inbox, provider>>
      BY <2>9 DEF Record, At
    <3>2. CASE ~ Mine(w)
      BY <2>2, <2>9, <3>1, <3>2 DEF Record
    <3>3. CASE Mine(w) /\ task[w].result = "skipped" /\ task[w].first
      BY <2>9, <3>3, RecordKeeps
    <3>4. CASE Mine(w) /\ ~ (task[w].result = "skipped" /\ task[w].first)
      <4>1. PICK y \in Row :
              /\ row' = [row EXCEPT ![task[w].row] = y]
              /\ y.age = row[task[w].row].age
              /\ y.tried = row[task[w].row].tried
              /\ y.state # "SENDING"
        BY <2>9, <3>4, RecordDone
      <4>2. QED
        BY <2>3, <3>1, <4>1, OwnRow
    <3>5. QED
      BY <3>2, <3>3, <3>4
  <2>10. ASSUME NEW r \in Rows, Leave(r) \/ Miss(r) PROVE Inv'
    <3>1. UNCHANGED <<row, task, provider, known, inbox>>
      BY <2>10 DEF Leave, Miss
    <3>2. \A v \in Workers : Mine(v)' => Mine(v)
      BY <3>1 DEF Mine, At
    <3>3. QED
      BY <3>1, <3>2, LettingGo
  <2>11. ASSUME NEW r \in Rows, MoveOn(r) PROVE Inv'
    <3> DEFINE s == IF row[r].state = "QUEUED" THEN "CANCELLED"
                                               ELSE row[r].state
               y == [row[r] EXCEPT !.state = s]
    <3>1. row' = [row EXCEPT ![r] = y] /\ UNCHANGED <<task, provider, known, inbox>>
      BY <2>11 DEF MoveOn
    <3>2. row[r] \in Row
      BY DEF TypeOK
    <3>3. /\ y.age = row[r].age /\ y.tried = row[r].tried
          /\ y.holder = row[r].holder
          /\ y.state = "SENDING" => row[r].state = "SENDING"
      BY <3>2 DEF Row
    <3> HIDE DEF y
    <3>4. \A q \in Rows : /\ row'[q].age = row[q].age
                          /\ row'[q].tried = row[q].tried
                          /\ row'[q].holder = row[q].holder
                          /\ row'[q].state = "SENDING" => row[q].state = "SENDING"
      BY <3>1, <3>3 DEF TypeOK
    <3>5. \A v \in Workers : Mine(v)' => Mine(v)
      BY <3>1, <3>4, OwnRow DEF Mine, At
    <3>6. QED
      BY <3>1, <3>4, <3>5, LettingGo
  <2>12. ASSUME NEW w \in Workers, Crash(w) PROVE Inv'
    <3>1. /\ Ends(w) /\ UNCHANGED <<row, known, inbox>>
          /\ \A v \in Workers \ {w} : provider'[v] = provider[v]
      BY <2>12 DEF Crash, TypeOK
    <3>2. CASE At(w, "idle")
      <4>1. /\ task'[w].pc = "idle"
            /\ \A v \in Workers \ {w} : task'[v] = task[v]
        BY <3>1, Idler DEF Ends, TypeOK
      <4>2. \A v \in Workers \ {w} : Mine(v)' => Mine(v)
        BY <3>1, <4>1 DEF Mine, At
      <4>3. QED
        BY <3>1, <4>1, <4>2, LettingGo
    <3>3. CASE ~ At(w, "idle")
      BY <2>2, <3>1, <3>3
    <3>4. QED
      BY <3>2, <3>3
  <2>13. ASSUME Tick PROVE Inv'
    BY <2>13, TickKeeps
  <2>14. ASSUME UNCHANGED vars PROVE Inv'
    <3>1. UNCHANGED <<row, task, provider, known, inbox>>
      BY <2>14 DEF vars
    <3>2. \A v \in Workers : Mine(v)' => Mine(v)
      BY <3>1 DEF Mine, At
    <3>3. QED
      BY <3>1, <3>2, LettingGo
  <2>15. QED
    BY <2>1, <2>4, <2>6, <2>7, <2>8, <2>9, <2>10, <2>11, <2>12, <2>13, <2>14
       DEF Next, Works
<1>3. QED
  BY <1>1, <1>2, TypeCorrect, PTL DEF Spec

\* Nobody gets the same mail twice, for any number of rows, workers and
\* crashes, and any lease and times within the life of a key.
THEOREM MailSentOnce == Spec => []NoDoubleMail
<1>1. TypeOK /\ Inv => NoDoubleMail
  <2>1. ASSUME TypeOK, SentOnce, NEW r \in Rows PROVE inbox[r] <= 1
    BY <2>1 DEF TypeOK, SentOnce
  <2>2. QED
    BY <2>1 DEF Inv, NoDoubleMail
<1>2. QED
  BY <1>1, TypeCorrect, InvariantHolds, PTL
=============================================================================
