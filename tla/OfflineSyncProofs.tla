------------------------- MODULE OfflineSyncProofs -------------------------
(* What holds of OfflineSync for any number of actions, tabs and retries. *)
EXTENDS OfflineSync, TLAPS

-----------------------------------------------------------------------------
(* Types *)

\* What a tab may remember, given the actions that have been queued.
TabOK(s, ops) ==
    \/ s = Idle
    \/ /\ s.phase \in {"pass", "sent", "answered"}
       /\ s.todo \subseteq ops
       /\ s.tries \in [s.todo -> 0..MaxRetries]
       /\ s.blocked \subseteq Jobs
       /\ s.phase # "pass" => s.at \in s.todo
       /\ s.phase = "answered" => s.result \in Results

ServerOK ==
    /\ effects \in [Requests -> Nat]
    /\ open \in Requests \cup {None}
    /\ endedBy \in [Requests -> Requests \cup {None}]

\* A request the server takes leaves well typed rows.
LEMMA ServeTypes ==
  ASSUME ServerOK, NEW r \in Requests, NEW k, NEW res, Serve(r, k, res)
  PROVE  ServerOK'
<1> USE DEF ServerOK
<1>1. ASSUME UNCHANGED server
      PROVE  ServerOK'
  BY <1>1 DEF server
<1>2. ASSUME Store(r)
      PROVE  effects' \in [Requests -> Nat]
  BY <1>2 DEF Store
<1>3. CASE ClockIn(r, res)
  BY <1>1, <1>2, <1>3 DEF ClockIn, Refuse, Answer
<1>4. CASE ClockOut(r, res)
  BY <1>1, <1>2, <1>4 DEF ClockOut, Refuse, Answer
<1>5. CASE Record(r, res)
  BY <1>1, <1>2, <1>5 DEF Record, Refuse, Answer
<1> QED
  BY <1>3, <1>4, <1>5 DEF Serve

\* Giving a request up leaves well typed requests in the network.
LEMMA LateTypes ==
  ASSUME late \subseteq Requests, NEW r \in Requests, LostOrLate(r)
  PROVE  late' \subseteq Requests
  BY DEF LostOrLate

LEMMA TypesByParts ==
  TypeOK <=> /\ kind \in [Ops -> Kinds \cup {"NONE"}]
             /\ shown \in BOOLEAN
             /\ saved \subseteq {i \in Ops : kind[i] # "NONE"}
             /\ queue \in [Ops -> Row]
             /\ \A i \in Ops : queue[i].status # "none" => i \in saved
             /\ DOMAIN tab = Tabs
             /\ \A t \in Tabs : TabOK(tab[t], saved)
             /\ late \subseteq Requests
             /\ incidents \in 0..MaxIncidents
             /\ ServerOK
  BY DEF TypeOK, TabOK, ServerOK

\* The same facts after a step.
LEMMA NextTypes ==
  ASSUME kind' \in [Ops -> Kinds \cup {"NONE"}],
         shown' \in BOOLEAN,
         saved' \subseteq {i \in Ops : kind'[i] # "NONE"},
         queue' \in [Ops -> Row],
         \A i \in Ops : queue'[i].status # "none" => i \in saved',
         DOMAIN tab' = Tabs /\ \A t \in Tabs : TabOK(tab'[t], saved'),
         late' \subseteq Requests,
         incidents' \in 0..MaxIncidents,
         ServerOK'
  PROVE  TypeOK'
  BY DEF TypeOK, TabOK, ServerOK

LEMMA PageTypes ==
  ASSUME TypeOK, Page
  PROVE  TypeOK'
<1>1. CASE Reload
  BY <1>1 DEF TypeOK, Reload, server
<1>2. ASSUME NEW i \in Ops, NEW k \in Kinds, Act(i, k)
      PROVE  /\ kind' \in [Ops -> Kinds \cup {"NONE"}]
             /\ \A j \in Ops : kind[j] # "NONE" => kind'[j] # "NONE"
             /\ kind'[i] # "NONE"
             /\ Online(i) \in Requests
  BY <1>2 DEF TypeOK, Act, Kinds, Online, Requests
<1>3. ASSUME NEW i \in Ops, NEW k \in Kinds, Act(i, k), Enqueue(i),
             UNCHANGED tab
      PROVE  /\ queue' \in [Ops -> Row]
             /\ saved' \subseteq {j \in Ops : kind'[j] # "NONE"}
             /\ \A j \in Ops : queue'[j].status # "none" => j \in saved'
             /\ DOMAIN tab' = Tabs
             /\ \A t \in Tabs : TabOK(tab'[t], saved')
  <2>1. [status |-> "pending", tries |-> 0] \in Row
    BY RetriesAssumption DEF Row, Status
  <2>2. /\ queue' = [queue EXCEPT ![i] = [status |-> "pending", tries |-> 0]]
        /\ saved' = saved \cup {i}
    BY <1>3 DEF Enqueue
  <2>3. \A t \in Tabs : TabOK(tab'[t], saved')
    BY <1>3, <2>2 DEF TypeOK, TabOK
  <2> QED
    BY <1>2, <1>3, <2>1, <2>2, <2>3 DEF TypeOK
<1>4. ASSUME NEW i \in Ops, NEW k \in Kinds, ActOnline(i, k)
      PROVE  TypeOK'
  <2>1. ServerOK'
    BY <1>2, <1>4, ServeTypes, TypesByParts DEF ActOnline
  <2>2. shown' \in BOOLEAN
    BY <1>4 DEF ActOnline, TypeOK
  <2> QED
    BY <1>2, <1>4, <2>1, <2>2 DEF ActOnline, TypeOK, ServerOK
<1>5. ASSUME NEW i \in Ops, NEW k \in Kinds, ActUnanswered(i, k)
      PROVE  TypeOK'
  <2>1. ServerOK'
    BY <1>2, <1>5, ServeTypes, TypesByParts DEF ActUnanswered
  <2> QED
    BY <1>2, <1>3, <1>5, <2>1, TypesByParts, NextTypes DEF ActUnanswered
<1>6. ASSUME NEW i \in Ops, NEW k \in Kinds, ActOffline(i, k)
      PROVE  TypeOK'
  <2>1. late' \subseteq Requests
    BY <1>2, <1>6, LateTypes DEF ActOffline, TypeOK
  <2>2. ServerOK'
    BY <1>6 DEF ActOffline, TypeOK, ServerOK, server
  <2> QED
    BY <1>2, <1>3, <1>6, <2>1, <2>2, TypesByParts, NextTypes DEF ActOffline
<1> QED
  BY <1>1, <1>4, <1>5, <1>6 DEF Page

\* A step of one tab keeps the types of all if its own new state is typed.
LEMMA TabTypes ==
  ASSUME TypeOK, NEW t \in Tabs, NEW s, TabOK(s, saved),
         tab' = [tab EXCEPT ![t] = s], UNCHANGED saved
  PROVE  DOMAIN tab' = Tabs /\ \A u \in Tabs : TabOK(tab'[u], saved')
<1>1. DOMAIN tab = Tabs /\ \A u \in Tabs : TabOK(tab[u], saved)
  BY TypesByParts
<1>2. \A u \in Tabs : tab'[u] = IF u = t THEN s ELSE tab[u]
  BY <1>1
<1> QED
  BY <1>1, <1>2

LEMMA PassTypes ==
  ASSUME TypeOK, NEW ops \in SUBSET saved
  PROVE  TabOK(Pass(ops), saved)
  BY DEF TypeOK, TabOK, Pass, Row

\* The operation a tab has sent is one of the user's actions.
LEMMA SentTypes ==
  ASSUME TypeOK, NEW t \in Tabs, tab[t].phase \in {"sent", "answered"}
  PROVE  /\ TabOK(tab[t], saved) /\ tab[t] # Idle
         /\ tab[t].at \in saved /\ tab[t].at \in Ops
         /\ Queued(tab[t].at) \in Requests
  BY DEF TypeOK, TabOK, Idle, Queued, Requests

LEMMA SyncTypes ==
  ASSUME TypeOK, NEW t \in Tabs, Sync(t)
  PROVE  TypeOK'
<1>1. CASE StartPass(t)
  <2>1. \A ops \in SUBSET Ops :
          ops = {i \in Ops : queue[i].status \in Eligible}
             => ops \in SUBSET saved
    BY DEF TypeOK, Eligible, NotSyncing
  <2>2. PICK ops \in SUBSET saved : tab' = [tab EXCEPT ![t] = Pass(ops)]
    BY <1>1, <2>1 DEF StartPass
  <2> QED
    BY <1>1, <2>2, PassTypes, TabTypes, TypesByParts, NextTypes
       DEF StartPass, page, server, ServerOK
<1>2. ASSUME NEW i \in Ops, Begin(t, i)
      PROVE  TypeOK'
  <2> DEFINE s == [phase |-> "sent", todo |-> tab[t].todo,
                   tries |-> tab[t].tries, blocked |-> tab[t].blocked,
                   at |-> i]
  <2>1. TabOK(tab[t], saved) /\ tab[t] # Idle /\ i \in tab[t].todo
    BY <1>2, TypesByParts DEF Begin, Runnable, Idle
  <2>2. TabOK(s, saved) /\ i \in saved /\ tab[t].tries[i] \in 0..MaxRetries
    BY <2>1 DEF TabOK
  <2>3. tab' = [tab EXCEPT ![t] = s]
    BY <1>2 DEF Begin
  <2>4. queue' \in [Ops -> Row]
    BY <1>2, <2>2 DEF Begin, TypeOK, Row, Status
  <2>5. \A j \in Ops : queue'[j].status # "none" => j \in saved
    BY <1>2, <2>2 DEF Begin, TypeOK
  <2> HIDE DEF s
  <2> QED
    BY <1>2, <2>2, <2>3, <2>4, <2>5, TabTypes, TypesByParts, NextTypes
       DEF Begin, page, server, ServerOK
<1>3. ASSUME NEW res \in Results, tab[t].phase = "sent", Answered(t, res),
             UNCHANGED saved
      PROVE  DOMAIN tab' = Tabs /\ \A u \in Tabs : TabOK(tab'[u], saved')
  <2> DEFINE s == [phase |-> "answered", todo |-> tab[t].todo,
                   tries |-> tab[t].tries, blocked |-> tab[t].blocked,
                   at |-> tab[t].at, result |-> res]
  <2>1. TabOK(s, saved)
    BY <1>3, SentTypes DEF TabOK, Idle
  <2>2. tab' = [tab EXCEPT ![t] = s]
    BY <1>3 DEF Answered
  <2> HIDE DEF s
  <2> QED
    BY <1>3, <2>1, <2>2, TabTypes
<1>4. ASSUME NEW lost \in BOOLEAN, Deliver(t, lost)
      PROVE  TypeOK'
  <2>1. PICK res \in Results :
          /\ Serve(Queued(tab[t].at), kind[tab[t].at], res)
          /\ Answered(t, IF lost THEN "failed" ELSE res)
    BY <1>4 DEF Deliver
  <2>2. ServerOK'
    BY <1>4, <2>1, SentTypes, ServeTypes, TypesByParts DEF Deliver
  <2>3. (IF lost THEN "failed" ELSE res) \in Results
    BY DEF Results
  <2> QED
    BY <1>3, <1>4, <2>1, <2>2, <2>3, TypesByParts, NextTypes DEF Deliver, page
<1>5. CASE GiveUp(t)
  <2>1. late' \subseteq Requests
    BY <1>5, SentTypes, LateTypes DEF GiveUp, TypeOK
  <2> QED
    BY <1>3, <1>5, <2>1, TypesByParts, NextTypes
       DEF GiveUp, page, server, ServerOK, Results
<1>6. CASE Settle(t)
  <2> DEFINE i    == tab[t].at
             row  == IF tab[t].result \in Done
                       THEN [status |-> "none", tries |-> 0]
                       ELSE Parked(tab[t].result, tab[t].tries[i])
             left == tab[t].todo \ {i}
             more == IF row.status \in {"conflict", "permanent"}
                       THEN tab[t].blocked \cup ({JobId(i)} \ {NoJob})
                       ELSE tab[t].blocked
             s    == [phase |-> "pass", todo |-> left,
                      tries |-> [j \in left |-> tab[t].tries[j]],
                      blocked |-> more]
  <2>1. /\ TabOK(tab[t], saved) /\ tab[t] # Idle /\ i \in saved /\ i \in Ops
        /\ tab[t].phase = "answered"
    BY <1>6, SentTypes DEF Settle
  <2>2. /\ tab[t].result \in Results /\ tab[t].tries[i] \in 0..MaxRetries
        /\ tab[t].tries \in [tab[t].todo -> 0..MaxRetries]
        /\ tab[t].todo \subseteq saved /\ tab[t].blocked \subseteq Jobs
    BY <2>1 DEF TabOK
  <2>3. row \in Row
    <3>1. More(tab[t].tries[i]) \in 0..MaxRetries
      BY <2>2, RetriesAssumption DEF More
    <3> QED
      BY <2>2, <3>1, RetriesAssumption
         DEF Parked, Row, Status, Results, Done
  <2>4. queue' = [queue EXCEPT ![i] = row] /\ tab' = [tab EXCEPT ![t] = s]
    BY <1>6 DEF Settle
  <2>5. more \subseteq Jobs
    BY <2>1, <2>2, JobAssumption DEF JobId
  <2>6. TabOK(s, saved)
    BY <2>2, <2>5 DEF TabOK
  <2> HIDE DEF s, row, i
  <2>7. /\ queue' \in [Ops -> Row]
        /\ \A j \in Ops : queue'[j].status # "none" => j \in saved
    BY <2>1, <2>3, <2>4 DEF TypeOK
  <2> QED
    BY <1>6, <2>4, <2>6, <2>7, TabTypes, TypesByParts, NextTypes
       DEF Settle, page, server, ServerOK
<1>7. CASE EndPass(t)
  BY <1>7, TabTypes, TypesByParts, NextTypes DEF EndPass, TabOK, page, server, ServerOK
<1> QED
  BY <1>1, <1>2, <1>4, <1>5, <1>6, <1>7 DEF Sync, Answers

\* The steps of nobody's pass: a click on Retry, a tab that is closed, a late
\* request and the end of a backoff.
Others ==
    \/ \E t \in Tabs : Close(t) \/ \E i \in Ops : Retry(t, i)
    \/ \E r \in Requests : DeliverLate(r)
    \/ \E i \in Ops : BackoffElapses(i)

LEMMA NextCases == Next <=> Page \/ (\E t \in Tabs : Sync(t)) \/ Others
  BY DEF Next, Others

LEMMA OtherTypes ==
  ASSUME TypeOK, Others
  PROVE  TypeOK'
<1>1. ASSUME NEW i \in Ops, NEW to \in Status \ {"none"},
             queue[i].status # "none",
             queue' = [queue EXCEPT ![i].status = to], UNCHANGED saved
      PROVE  /\ queue' \in [Ops -> Row]
             /\ \A j \in Ops : queue'[j].status # "none" => j \in saved'
             /\ i \in saved
  BY <1>1 DEF TypeOK, Row
<1>2. ASSUME NEW t \in Tabs, Close(t)
      PROVE  TypeOK'
  <2>1. late' \subseteq Requests
    BY <1>2, SentTypes, LateTypes DEF Close, TypeOK
  <2>2. incidents' \in 0..MaxIncidents
    BY <1>2, RetriesAssumption DEF Close, TypeOK
  <2> QED
    BY <1>2, <2>1, <2>2, TabTypes, TypesByParts, NextTypes
       DEF Close, TabOK, page, server, ServerOK
<1>3. ASSUME NEW t \in Tabs, NEW i \in Ops, Retry(t, i)
      PROVE  TypeOK'
  <2>1. /\ queue' \in [Ops -> Row]
        /\ \A j \in Ops : queue'[j].status # "none" => j \in saved'
        /\ i \in saved
    BY <1>1, <1>3 DEF Retry, Retryable, Status, page
  <2>2. incidents' \in 0..MaxIncidents
    BY <1>3, RetriesAssumption DEF Retry, TypeOK
  <2>3. TabOK(Pass({i}), saved)
    BY <2>1, PassTypes
  <2>4. tab' = [tab EXCEPT ![t] = Pass({i})]
    BY <1>3 DEF Retry
  <2> QED
    BY <1>3, <2>1, <2>2, <2>3, <2>4, TabTypes, TypesByParts, NextTypes
       DEF Retry, page, server, ServerOK
<1>4. ASSUME NEW r \in Requests, DeliverLate(r)
      PROVE  TypeOK'
  <2>1. ServerOK'
    BY <1>4, ServeTypes, TypesByParts DEF DeliverLate
  <2> QED
    BY <1>4, <2>1, TypesByParts, NextTypes DEF DeliverLate, page
<1>5. ASSUME NEW i \in Ops, BackoffElapses(i)
      PROVE  TypeOK'
  <2>1. /\ queue' \in [Ops -> Row]
        /\ \A j \in Ops : queue'[j].status # "none" => j \in saved'
    BY <1>1, <1>5 DEF BackoffElapses, Status, page
  <2> QED
    BY <1>5, <2>1, TypesByParts, NextTypes
       DEF BackoffElapses, page, server, ServerOK
<1> QED
  BY <1>2, <1>3, <1>4, <1>5 DEF Others

\* The queue, the tabs, the network and the server hold values of their
\* types, and a tab works on nothing but what has been queued.
THEOREM TypeCorrect == Spec => []TypeOK
<1>1. Init => TypeOK
  BY RetriesAssumption
     DEF Init, TypeOK, Row, Status, Idle
<1>2. TypeOK /\ [Next]_vars => TypeOK'
  <2>1. ASSUME TypeOK, UNCHANGED vars
        PROVE  TypeOK'
    BY <2>1, TypesByParts, NextTypes DEF vars, page, server, ServerOK
  <2> QED
    BY <2>1, NextCases, PageTypes, SyncTypes, OtherTypes
<1> QED
  BY <1>1, <1>2, PTL DEF Spec

-----------------------------------------------------------------------------
(* The server *)

\* Every step leaves the server alone or has it take one request.
LEMMA ServerSteps ==
  ASSUME TypeOK, [Next]_vars
  PROVE  \/ UNCHANGED server
         \/ \E r \in Requests, k \in Kinds \cup {"NONE"}, res \in Results :
               Serve(r, k, res)
<1>1. ASSUME NEW i \in Ops
      PROVE  /\ Online(i) \in Requests /\ Queued(i) \in Requests
             /\ kind[i] \in Kinds \cup {"NONE"}
  BY <1>1 DEF Online, Queued, Requests, TypeOK
<1>2. CASE Page
  BY <1>1, <1>2 DEF Page, ActOnline, ActUnanswered, ActOffline, Reload
<1>3. ASSUME NEW t \in Tabs, Sync(t)
      PROVE  \/ UNCHANGED server
             \/ \E r \in Requests, k \in Kinds \cup {"NONE"},
                   res \in Results : Serve(r, k, res)
  <2>1. ASSUME NEW lost \in BOOLEAN, Deliver(t, lost)
        PROVE  \E r \in Requests, k \in Kinds \cup {"NONE"},
                  res \in Results : Serve(r, k, res)
    BY <1>1, <2>1, SentTypes DEF Deliver
  <2> QED
    BY <1>3, <2>1 DEF Sync, Answers, StartPass, Begin, GiveUp, Settle, EndPass
<1>4. CASE Others
  <2>1. ASSUME NEW r \in Requests, DeliverLate(r)
        PROVE  \E k \in Kinds \cup {"NONE"}, res \in Results :
                  Serve(r, k, res)
    <3>1. r[1] \in Ops
      BY DEF Requests
    <3> QED
      BY <1>1, <2>1, <3>1 DEF DeliverLate
  <2> QED
    BY <1>4, <2>1 DEF Others, Close, Retry, BackoffElapses
<1> QED
  BY <1>2, <1>3, <1>4, NextCases DEF vars

\* A request is stored at most once more, and only if it was not stored.
LEMMA ServeOnce ==
  ASSUME TypeOK, NEW r \in Requests, NEW k, NEW res, Serve(r, k, res)
  PROVE  \/ effects' = effects
         \/ ~ Stored(r) /\ effects' = [effects EXCEPT ![r] = @ + 1]
  BY DEF Serve, ClockIn, ClockOut, Record, Refuse, Answer, Store, server

\* No request leaves two rows, whatever the network and the tabs do with it.
THEOREM AppliedOnceTheorem == Spec => []AppliedOnce
<1>1. Init => AppliedOnce
  BY DEF Init, AppliedOnce
<1>2. TypeOK /\ AppliedOnce /\ [Next]_vars => AppliedOnce'
  <2> SUFFICES ASSUME TypeOK, AppliedOnce, [Next]_vars
               PROVE  AppliedOnce'
    OBVIOUS
  <2>1. effects \in [Requests -> Nat]
    BY DEF TypeOK
  <2>2. CASE UNCHANGED server
    BY <2>2 DEF server, AppliedOnce
  <2>3. ASSUME NEW r \in Requests, NEW k \in Kinds \cup {"NONE"},
               NEW res \in Results, Serve(r, k, res)
        PROVE  AppliedOnce'
    BY <2>1, <2>3, ServeOnce DEF AppliedOnce, Stored
  <2> QED
    BY <2>2, <2>3, ServerSteps
<1> QED
  BY <1>1, <1>2, TypeCorrect, PTL DEF Spec

\* A clock-out ends a session that began before it, however late it arrives.
THEOREM SessionsEndTheorem == Spec => []SessionsEndLater
<1>1. Init => SessionsEndLater
  BY DEF Init, SessionsEndLater
<1>2. TypeOK /\ SessionsEndLater /\ [Next]_vars => SessionsEndLater'
  <2> SUFFICES ASSUME TypeOK, SessionsEndLater, [Next]_vars
               PROVE  SessionsEndLater'
    OBVIOUS
  <2>1. endedBy \in [Requests -> Requests \cup {None}]
    BY DEF TypeOK
  <2>2. CASE UNCHANGED server
    BY <2>2 DEF server, SessionsEndLater
  <2>3. ASSUME NEW r \in Requests, NEW k \in Kinds \cup {"NONE"},
               NEW res \in Results, Serve(r, k, res)
        PROVE  SessionsEndLater'
    <3>1. \/ endedBy' = endedBy
          \/ NotBefore(r) /\ endedBy' = [endedBy EXCEPT ![open] = r]
      BY <2>3
         DEF Serve, ClockIn, ClockOut, Record, Refuse, Answer, server
    <3> QED
      BY <2>1, <3>1 DEF SessionsEndLater, NotBefore
  <2> QED
    BY <2>2, <2>3, ServerSteps
<1> QED
  BY <1>1, <1>2, TypeCorrect, PTL DEF Spec
-----------------------------------------------------------------------------
(* The queue and the server *)

Recorded == {"CLOCK_IN", "RECORD"}

\* An "ok" that a tab has in hand is about a row the server has: with it a
\* row may leave the queue.  AcknowledgedIsStored alone says nothing of the
\* answers that are still on their way to the queue.
AnswersTrue ==
    \A t \in Tabs :
       tab[t].phase = "answered" /\ kind[tab[t].at] \in Recorded
       /\ tab[t].result = "ok" => Stored(Queued(tab[t].at))

AckInv == AcknowledgedIsStored /\ AnswersTrue

\* Rows on the server stay, and what is known of an action stays.
LEMMA KnownStays ==
  ASSUME TypeOK, [Next]_vars
  PROVE  /\ \A r \in Requests : Stored(r) => effects'[r] > 0
         /\ \A i \in saved : kind'[i] = kind[i]
<1>1. \A r \in Requests : Stored(r) => effects'[r] > 0
  <2>1. effects \in [Requests -> Nat]
    BY DEF TypeOK
  <2>2. CASE UNCHANGED server
    BY <2>2 DEF server, Stored
  <2>3. ASSUME NEW r \in Requests, NEW k \in Kinds \cup {"NONE"},
               NEW res \in Results, Serve(r, k, res)
        PROVE  \A q \in Requests : Stored(q) => effects'[q] > 0
    BY <2>1, <2>3, ServeOnce DEF Stored
  <2> QED
    BY <2>2, <2>3, ServerSteps
<1>2. \A i \in saved : kind'[i] = kind[i]
  <2>1. ASSUME NEW i \in Ops, NEW k \in Kinds, Act(i, k)
        PROVE  \A j \in saved : kind'[j] = kind[j]
    BY <2>1 DEF Act, TypeOK
  <2>2. Page => \A j \in saved : kind'[j] = kind[j]
    BY <2>1 DEF Page, ActOnline, ActUnanswered, ActOffline, Reload
  <2>3. ASSUME NEW t \in Tabs, Sync(t)
        PROVE  UNCHANGED kind
    BY <2>3 DEF Sync, Answers, StartPass, Begin, Deliver, GiveUp, Settle,
                EndPass, page
  <2>4. Others => UNCHANGED kind
    BY DEF Others, Close, Retry, DeliverLate, BackoffElapses, page
  <2> QED
    BY <2>2, <2>3, <2>4, NextCases DEF vars, page
<1> QED
  BY <1>1, <1>2

\* An accepted clock-in or record is on the server after the answer.
LEMMA OkIsStored ==
  ASSUME TypeOK, NEW r \in Requests, NEW k \in Recorded, Serve(r, k, "ok")
  PROVE  effects'[r] > 0
<1>1. effects \in [Requests -> Nat]
  BY DEF TypeOK
<1> QED
  BY <1>1 DEF Recorded, Serve, ClockIn, Record, Refuse, Answer, Store,
              Stored, server

\* A step keeps AcknowledgedIsStored if every row it takes out is stored.
LEMMA QueueStep ==
  ASSUME TypeOK, [Next]_vars, AcknowledgedIsStored,
         \A i \in saved' :
            queue'[i].status = "none" /\ kind'[i] \in Recorded
               => \/ i \in saved /\ queue[i].status = "none"
                  \/ i \in saved /\ Stored(Queued(i))
  PROVE  AcknowledgedIsStored'
<1>1. \A i \in saved : Queued(i) \in Requests
  BY DEF TypeOK, Queued, Requests
<1> QED
  BY <1>1, KnownStays DEF AcknowledgedIsStored, Stored, Queued, Recorded

\* A step keeps AnswersTrue if the answers it brings are true.
LEMMA TabStep ==
  ASSUME TypeOK, [Next]_vars, AnswersTrue,
         \A t \in Tabs :
            \/ tab'[t] = tab[t]
            \/ tab'[t].phase # "answered"
            \/ tab'[t].result # "ok"
            \/ /\ tab'[t].at \in saved
               /\ kind[tab'[t].at] \in Recorded
                     => effects'[Queued(tab'[t].at)] > 0
  PROVE  AnswersTrue'
<1>1. ASSUME NEW t \in Tabs, tab[t].phase = "answered"
      PROVE  tab[t].at \in saved /\ Queued(tab[t].at) \in Requests
  BY <1>1, SentTypes
<1>2. ASSUME NEW t \in Tabs, tab'[t].phase = "answered",
             kind'[tab'[t].at] \in Recorded, tab'[t].result = "ok"
      PROVE  effects'[Queued(tab'[t].at)] > 0
  <2>1. CASE tab'[t] = tab[t]
    <3>1. Stored(Queued(tab[t].at))
      BY <1>1, <1>2, <2>1, KnownStays DEF AnswersTrue
    <3> QED
      BY <1>1, <1>2, <2>1, <3>1, KnownStays
  <2> QED
    BY <1>2, <2>1, KnownStays
<1> QED
  BY <1>2 DEF AnswersTrue, Stored, Queued

LEMMA AckStep ==
  ASSUME TypeOK, AckInv, [Next]_vars
  PROVE  AckInv'
<1> USE DEF AckInv
<1>1. CASE UNCHANGED vars
  BY <1>1, QueueStep, TabStep DEF vars, page
<1>2. CASE Page
  <2>1. \A i \in saved' : queue'[i].status = "none"
                            => i \in saved /\ queue[i].status = "none"
    BY <1>2 DEF Page, ActOnline, ActUnanswered, ActOffline, Reload, Enqueue,
                TypeOK
  <2>2. UNCHANGED tab
    BY <1>2 DEF Page, ActOnline, ActUnanswered, ActOffline, Reload
  <2> QED
    BY <2>1, <2>2, QueueStep, TabStep
<1>3. CASE Others
  <2> DEFINE Fewer == saved' = saved /\ \A i \in saved :
                        queue'[i].status = "none" => queue[i].status = "none"
             Silent == \A t \in Tabs :
                         tab'[t] = tab[t] \/ tab'[t].phase # "answered"
  <2>0. /\ DOMAIN tab = Tabs /\ queue \in [Ops -> Row]
        /\ saved \subseteq Ops
    BY DEF TypeOK
  <2>1. ASSUME NEW t \in Tabs, Close(t)
        PROVE  Fewer /\ Silent
    BY <2>0, <2>1 DEF Close, page, Idle
  <2>2. ASSUME NEW t \in Tabs, NEW i \in Ops, Retry(t, i)
        PROVE  Fewer /\ Silent
    <3>1. Fewer
      BY <2>0, <2>2 DEF Retry, page, Row
    <3>2. Silent
      BY <2>0, <2>2 DEF Retry, Pass
    <3> QED
      BY <3>1, <3>2
  <2>3. ASSUME NEW r \in Requests, DeliverLate(r)
        PROVE  Fewer /\ Silent
    BY <2>3 DEF DeliverLate, page
  <2>4. ASSUME NEW i \in Ops, BackoffElapses(i)
        PROVE  Fewer /\ Silent
    BY <2>0, <2>4 DEF BackoffElapses, page, Row
  <2>5. Fewer /\ Silent
    BY <1>3, <2>1, <2>2, <2>3, <2>4 DEF Others
  <2> QED
    BY <2>5, QueueStep, TabStep
<1>4. ASSUME NEW t \in Tabs, Sync(t)
      PROVE  AckInv'
  <2>0. saved' = saved /\ DOMAIN tab = Tabs /\ queue \in [Ops -> Row]
    BY <1>4 DEF Sync, Answers, StartPass, Begin, Deliver, GiveUp, Settle,
                EndPass, page, TypeOK
  <2>1. CASE \/ StartPass(t) \/ EndPass(t) \/ \E i \in Ops : Begin(t, i)
    <3>1. \A i \in saved : queue'[i].status = "none"
                             => queue[i].status = "none"
      BY <2>0, <2>1 DEF StartPass, EndPass, Begin, TypeOK
    <3>2. \A u \in Tabs : tab'[u] = tab[u] \/ tab'[u].phase # "answered"
      BY <2>0, <2>1 DEF StartPass, EndPass, Begin, Idle, Pass
    <3> QED
      BY <2>0, <3>1, <3>2, QueueStep, TabStep
  <2>2. CASE GiveUp(t)
    <3>1. \A u \in Tabs : tab'[u] = tab[u] \/ tab'[u].result # "ok"
      BY <2>0, <2>2 DEF GiveUp, Answered
    <3> QED
      BY <2>0, <2>2, <3>1, QueueStep, TabStep DEF GiveUp
  <2>3. ASSUME NEW lost \in BOOLEAN, Deliver(t, lost)
        PROVE  AckInv'
    <3>1. PICK res \in Results :
            /\ Serve(Queued(tab[t].at), kind[tab[t].at], res)
            /\ Answered(t, IF lost THEN "failed" ELSE res)
      BY <2>3 DEF Deliver
    <3>2. /\ tab[t].at \in saved /\ Queued(tab[t].at) \in Requests
      BY <2>3, SentTypes DEF Deliver
    <3>3. /\ \A u \in Tabs \ {t} : tab'[u] = tab[u]
          /\ tab'[t].at = tab[t].at
          /\ tab'[t].result = IF lost THEN "failed" ELSE res
      BY <2>0, <3>1 DEF Answered
    <3>4. tab'[t].result = "ok" /\ kind[tab[t].at] \in Recorded
            => effects'[Queued(tab[t].at)] > 0
      BY <3>1, <3>2, <3>3, OkIsStored
    <3> QED
      BY <2>0, <2>3, <3>2, <3>3, <3>4, QueueStep, TabStep DEF Deliver
  <2>4. CASE Settle(t)
    <3>1. tab[t].at \in saved /\ tab[t].at \in Ops
          /\ tab[t].phase = "answered"
      BY <2>4, SentTypes DEF Settle
    <3>2. \A i \in saved : queue'[i].status = "none" =>
             \/ queue[i].status = "none"
             \/ i = tab[t].at /\ tab[t].result = "ok"
      <4>1. \A i \in Ops \ {tab[t].at} : queue'[i] = queue[i]
        BY <2>0, <2>4 DEF Settle
      <4>2. queue'[tab[t].at].status = "none" => tab[t].result = "ok"
        <5>1. tab[t].result \in Results
          BY <3>1, SentTypes DEF TabOK
        <5> QED
          BY <2>0, <2>4, <3>1, <5>1 DEF Settle, Done, Parked, Results
      <4> QED
        BY <4>1, <4>2 DEF TypeOK
    <3>3. \A u \in Tabs : tab'[u] = tab[u] \/ tab'[u].phase # "answered"
      BY <2>0, <2>4 DEF Settle
    <3>4. kind' = kind
      BY <2>4 DEF Settle, page
    <3> QED
      BY <2>0, <3>1, <3>2, <3>3, <3>4, QueueStep, TabStep DEF AnswersTrue
  <2> QED
    BY <1>4, <2>1, <2>2, <2>3, <2>4 DEF Sync, Answers
<1> QED
  BY <1>1, <1>2, <1>3, <1>4, NextCases

\* What has left the queue is on the server, for any number of tabs that
\* overwrite the rows of each other.
THEOREM AcknowledgedTheorem == Spec => []AcknowledgedIsStored
<1>1. Init => AckInv
  BY DEF Init, AckInv, AcknowledgedIsStored, AnswersTrue, Idle
<1>2. TypeOK /\ AckInv /\ [Next]_vars => AckInv'
  BY AckStep
<1>3. AckInv => AcknowledgedIsStored
  BY DEF AckInv
<1> QED
  BY <1>1, <1>2, <1>3, TypeCorrect, PTL DEF Spec
=============================================================================
