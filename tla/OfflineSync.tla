---------------------------- MODULE OfflineSync ----------------------------
(***************************************************************************)
(* The offline queue of the web client: what a technician records without  *)
(* coverage is kept in IndexedDB and sent later, by every open tab.        *)
(*                                                                         *)
(* A pass of syncNow lists the queue once and sends the operations one by  *)
(* one; a write of IndexedDB (a put of the row it listed, or a delete), a  *)
(* request and its answer are separate steps, so another tab, the user, a  *)
(* lost answer or a late request may come between any two of them.  The    *)
(* server handles a request in one step: JobLifecycle shows what that      *)
(* hides.  A 401, a 5xx and a network error are one outcome, "failed".     *)
(*                                                                         *)
(* Ops are the user's actions in the order of their clientOccurredAt.  An  *)
(* action may reach the server as the request the page sent at once,       *)
(* without a client id, and as the operation that was queued when the page *)
(* saw no answer.  RECORD stands for WORK_LOG, MATERIAL, PHOTO and         *)
(* SIGNATURE; the page queues nothing else.                                *)
(*                                                                         *)
(* A clock-out that was served before is recognised.  The server looks it  *)
(* up among the latest 40 clock-outs of the technician (AuditWindow of     *)
(* JobLifecycle); a queue holds fewer between two deliveries of one.       *)
(***************************************************************************)
EXTENDS Naturals, FiniteSets

CONSTANTS
    Ops,           \* the user's actions (bound)
    Tabs,          \* browser tabs with the application open (bound)
    Jobs, JobOf,   \* the job shown when each action is taken, if any
    MaxRetries,    \* MAX_AUTO_RETRIES
    MaxIncidents,  \* tabs closed in the middle and Retry clicks (bound)
    MaxLate,       \* late requests at the same time (bound)
    NoJob, None

ASSUME OpsAssumption == Ops \subseteq Nat
ASSUME JobAssumption ==
    NoJob \notin Jobs /\ JobOf \in [Ops -> Jobs \cup {NoJob}]
ASSUME RetriesAssumption ==
    MaxRetries \in Nat \ {0} /\ MaxIncidents \in Nat /\ MaxLate \in Nat

Kinds == {"CLOCK_IN", "CLOCK_OUT", "RECORD"}

Requests  == Ops \X {"online", "queued"}
Online(i) == <<i, "online">>
Queued(i) == <<i, "queued">>
ASSUME NoneAssumption == None \notin Requests

Status  == {"none", "pending", "syncing", "failed", "due", "conflict",
            "permanent"}
Results == {"ok", "failed", "conflict", "permanent"}

\* What a pass of syncNow sends: a row left in "syncing" was interrupted.
\* The mistake is to take it for one that is still being sent.
NotSyncing == {"pending", "due"}
Eligible   == NotSyncing \cup {"syncing"}

\* The rows the offline bar offers to retry; the mistake is to look only for
\* what it must not offer.
NotConflict == Status \ {"conflict"}
Retryable   == {"failed", "due", "permanent"}

VARIABLES
    kind,       \* what each action is, NONE before it
    shown,      \* My Day shows the technician as clocked in
    queue,      \* the rows of IndexedDB: status and attemptCount
    saved,      \* the actions that have ever been queued
    tab,        \* where each tab is in its pass
    late,       \* requests the client gave up and the network did not
    incidents,
    effects,    \* how many rows the server made for each request
    open,       \* the clock-in of the OPEN session
    endedBy     \* the clock-out of each CLOSED one

page   == <<kind, shown, saved>>
server == <<effects, open, endedBy>>
vars   == <<page, queue, tab, late, incidents, server>>

Row  == [status : Status, tries : 0..MaxRetries]
Idle == [phase |-> "idle"]

TypeOK ==
    /\ kind \in [Ops -> Kinds \cup {"NONE"}]
    /\ shown \in BOOLEAN
    /\ saved \subseteq {i \in Ops : kind[i] # "NONE"}
    /\ queue \in [Ops -> Row]
    /\ \A i \in Ops : queue[i].status # "none" => i \in saved
    /\ DOMAIN tab = Tabs
    /\ \A t \in Tabs :
         \/ tab[t] = Idle
         \/ /\ tab[t].phase \in {"pass", "sent", "answered"}
            /\ tab[t].todo \subseteq saved
            /\ tab[t].tries \in [tab[t].todo -> 0..MaxRetries]
            /\ tab[t].blocked \subseteq Jobs
            /\ tab[t].phase # "pass" => tab[t].at \in tab[t].todo
            /\ tab[t].phase = "answered" => tab[t].result \in Results
    /\ late \subseteq Requests
    /\ incidents \in 0..MaxIncidents
    /\ effects \in [Requests -> Nat]
    /\ open \in Requests \cup {None}
    /\ endedBy \in [Requests -> Requests \cup {None}]

-----------------------------------------------------------------------------
(* The network: a request that is given up is lost, or arrives later *)

LostOrLate(r) ==
    late' \in {late} \cup {l \in {late \cup {r}} : Cardinality(l) <= MaxLate}

-----------------------------------------------------------------------------
(* The server *)

\* The row of an earlier delivery is found by the client's id; the mistake
\* is to look for it among the open sessions alone.
StillOpen(r) == open = r
Stored(r)    == effects[r] > 0

Store(r) == effects' = [effects EXCEPT ![r] = @ + 1]

Answer(res, expected) == res = expected /\ UNCHANGED server

\* Any request may be refused for good: its time is too far off, its position
\* is missing, its job was closed or given to somebody else.
Refuse(res) == Answer(res, "permanent")

\* An open session is a 409, before the client's id is looked at.
ClockIn(r, res) ==
    \/ Refuse(res)
    \/ open # None /\ Answer(res, "conflict")
    \/ open = None /\ Stored(r) /\ Answer(res, "ok")
    \/ /\ open = None /\ ~ Stored(r)
       /\ res = "ok"
       /\ Store(r)
       /\ open' = r
       /\ UNCHANGED endedBy

\* A clock-out earlier than the clock-in is refused; the mistake is not to
\* compare them.
AnyTime(r)   == r \in Requests
NotBefore(r) == open[1] < r[1]

\* With nobody clocked in, a session closed in the last two minutes answers
\* for the one that should be closed.
ClockOut(r, res) ==
    \/ Refuse(res)
    \/ Stored(r) /\ Answer(res, "ok")
    \/ /\ ~ Stored(r) /\ open = None
       /\ \E s \in Requests : endedBy[s] # None
       /\ Answer(res, "ok")
    \/ /\ ~ Stored(r) /\ open # None /\ NotBefore(r)
       /\ res = "ok"
       /\ Store(r)
       /\ endedBy' = [endedBy EXCEPT ![open] = r]
       /\ open' = None

Record(r, res) ==
    \/ Refuse(res)
    \/ Stored(r) /\ Answer(res, "ok")
    \/ ~ Stored(r) /\ res = "ok" /\ Store(r) /\ UNCHANGED <<open, endedBy>>

Serve(r, k, res) ==
    \/ k = "CLOCK_IN" /\ ClockIn(r, res)
    \/ k = "CLOCK_OUT" /\ ClockOut(r, res)
    \/ k = "RECORD" /\ Record(r, res)

-----------------------------------------------------------------------------
(* The page *)

\* The page may show a session that another device has closed since.
Init ==
    /\ kind = [i \in Ops |-> "NONE"]
    /\ shown \in BOOLEAN
    /\ saved = {}
    /\ queue = [i \in Ops |-> [status |-> "none", tries |-> 0]]
    /\ tab = [t \in Tabs |-> Idle]
    /\ late = {} /\ incidents = 0
    /\ effects = [r \in Requests |-> 0]
    /\ open = None
    /\ endedBy = [r \in Requests |-> None]

\* The buttons follow what was last loaded: in or out, and notes always.
Act(i, k) ==
    /\ kind[i] = "NONE"
    /\ \A j \in Ops : kind[j] = "NONE" => i <= j
    /\ k = "CLOCK_IN" => ~ shown
    /\ k = "CLOCK_OUT" => shown
    /\ k = "RECORD" => JobOf[i] # NoJob
    /\ kind' = [kind EXCEPT ![i] = k]

Enqueue(i) ==
    /\ queue' = [queue EXCEPT ![i] = [status |-> "pending", tries |-> 0]]
    /\ saved' = saved \cup {i}

\* The server answered; a success reloads My Day.
ActOnline(i, k) ==
    /\ Act(i, k)
    /\ \E res \in Results :
         /\ Serve(Online(i), k, res)
         /\ shown' = IF res = "ok" THEN open' # None ELSE shown
    /\ UNCHANGED <<queue, saved, tab, late, incidents>>

\* The answer was lost: the action is queued, with an id of its own.
ActUnanswered(i, k) ==
    /\ Act(i, k)
    /\ \E res \in Results : Serve(Online(i), k, res)
    /\ Enqueue(i)
    /\ UNCHANGED <<shown, tab, late, incidents>>

\* Nothing was sent, or what was sent is lost or late.
ActOffline(i, k) ==
    /\ Act(i, k)
    /\ Enqueue(i)
    /\ LostOrLate(Online(i))
    /\ UNCHANGED <<shown, tab, incidents, server>>

Reload ==
    /\ shown' = (open # None)
    /\ UNCHANGED <<kind, saved, queue, tab, late, incidents, server>>

-----------------------------------------------------------------------------
(* A pass of syncNow in a tab *)

Pass(ops) ==
    [phase |-> "pass", todo |-> ops, tries |-> [i \in ops |-> queue[i].tries],
     blocked |-> {}]

\* The poll, the online event, focus and Sync now all come here.
StartPass(t) ==
    /\ tab[t] = Idle
    /\ LET ops == {i \in Ops : queue[i].status \in Eligible} IN
         /\ ops # {}
         /\ tab' = [tab EXCEPT ![t] = Pass(ops)]
    /\ UNCHANGED <<page, queue, late, incidents, server>>

\* My Day names no job in a clock-out.
JobId(i) == IF kind[i] = "CLOCK_OUT" THEN NoJob ELSE JobOf[i]

Runnable(t) == {i \in tab[t].todo : JobId(i) \notin tab[t].blocked}

\* A put of the row as it was listed, whatever became of it since.
Begin(t, i) ==
    /\ tab[t].phase = "pass"
    /\ i \in Runnable(t)
    /\ \A j \in Runnable(t) : i <= j
    /\ queue' = [queue EXCEPT ![i] =
                   [status |-> "syncing", tries |-> tab[t].tries[i]]]
    /\ tab' = [tab EXCEPT ![t] =
                 [phase |-> "sent", todo |-> @.todo, tries |-> @.tries,
                  blocked |-> @.blocked, at |-> i]]
    /\ UNCHANGED <<page, late, incidents, server>>

Answered(t, res) ==
    tab' = [tab EXCEPT ![t] =
              [phase |-> "answered", todo |-> @.todo, tries |-> @.tries,
               blocked |-> @.blocked, at |-> @.at, result |-> res]]

Deliver(t, lost) ==
    /\ tab[t].phase = "sent"
    /\ \E res \in Results :
         /\ Serve(Queued(tab[t].at), kind[tab[t].at], res)
         /\ Answered(t, IF lost THEN "failed" ELSE res)
    /\ UNCHANGED <<page, queue, late, incidents>>

\* The client gives the request up: it was lost, or it is late.
GiveUp(t) ==
    /\ tab[t].phase = "sent"
    /\ LostOrLate(Queued(tab[t].at))
    /\ Answered(t, "failed")
    /\ UNCHANGED <<page, queue, incidents, server>>

DeliverLate(r) ==
    /\ r \in late
    /\ late' = late \ {r}
    /\ \E res \in Results : Serve(r, kind[r[1]], res)
    /\ UNCHANGED <<page, queue, tab, incidents>>

\* A row leaves the queue when the server has taken it; the mistake is to
\* read a 409 as "done already".
OkOrConflict == {"ok", "conflict"}
Done         == {"ok"}

\* Attempts past the limit are not told apart.
More(n) == IF n < MaxRetries THEN n + 1 ELSE n

\* The row that runOne puts back after an attempt that failed.
Parked(res, n) ==
    [status |-> IF res = "failed" /\ More(n) = MaxRetries THEN "permanent"
                                                          ELSE res,
     tries |-> More(n)]

Settle(t) ==
    /\ tab[t].phase = "answered"
    /\ LET i == tab[t].at
           row == IF tab[t].result \in Done
                    THEN [status |-> "none", tries |-> 0]
                    ELSE Parked(tab[t].result, tab[t].tries[i])
           left == tab[t].todo \ {i} IN
         /\ queue' = [queue EXCEPT ![i] = row]
         /\ tab' = [tab EXCEPT ![t] =
                      [phase |-> "pass", todo |-> left,
                       tries |-> [j \in left |-> @.tries[j]],
                       blocked |-> IF row.status \in {"conflict", "permanent"}
                                     THEN @.blocked \cup ({JobId(i)} \ {NoJob})
                                     ELSE @.blocked]]
    /\ UNCHANGED <<page, late, incidents, server>>

EndPass(t) ==
    /\ tab[t].phase = "pass"
    /\ Runnable(t) = {}
    /\ tab' = [tab EXCEPT ![t] = Idle]
    /\ UNCHANGED <<page, queue, late, incidents, server>>

\* nextRetryAt of a failed row comes.
BackoffElapses(i) ==
    /\ queue[i].status = "failed"
    /\ queue' = [queue EXCEPT ![i].status = "due"]
    /\ UNCHANGED <<page, tab, late, incidents, server>>

\* retryOfflineOp: the button is off while this tab is in a pass.
Retry(t, i) ==
    /\ incidents < MaxIncidents /\ incidents' = incidents + 1
    /\ tab[t] = Idle
    /\ queue[i].status \in Retryable
    /\ queue' = [queue EXCEPT ![i].status = "pending"]
    /\ tab' = [tab EXCEPT ![t] = Pass({i})]
    /\ UNCHANGED <<page, late, server>>

\* The tab is closed or reloaded; its request may still arrive.
Close(t) ==
    /\ incidents < MaxIncidents /\ incidents' = incidents + 1
    /\ tab[t] # Idle
    /\ IF tab[t].phase = "sent" THEN LostOrLate(Queued(tab[t].at))
                                ELSE late' = late
    /\ tab' = [tab EXCEPT ![t] = Idle]
    /\ UNCHANGED <<page, queue, server>>

-----------------------------------------------------------------------------
Page ==
    \/ \E i \in Ops, k \in Kinds :
          ActOnline(i, k) \/ ActUnanswered(i, k) \/ ActOffline(i, k)
    \/ Reload

Answers(t) == GiveUp(t) \/ \E lost \in BOOLEAN : Deliver(t, lost)

Sync(t) ==
    \/ StartPass(t)
    \/ \E i \in Ops : Begin(t, i)
    \/ Answers(t)
    \/ Settle(t) \/ EndPass(t)

Next ==
    \/ Page
    \/ \E t \in Tabs :
         \/ Sync(t) \/ Close(t)
         \/ \E i \in Ops : Retry(t, i)
    \/ \E r \in Requests : DeliverLate(r)
    \/ \E i \in Ops : BackoffElapses(i)

\* The poll of a tab comes every eight seconds and the script runs to the
\* next await; a fetch ends with an answer or an error; a backoff is a
\* minute at most.  Nothing makes the user act or a late request arrive.
Fairness ==
    /\ \A t \in Tabs : WF_vars(Sync(t))
    /\ \A i \in Ops : WF_vars(BackoffElapses(i))

Spec == Init /\ [][Next]_vars /\ Fairness

-----------------------------------------------------------------------------
(* What must hold *)

\* Whatever is lost, late, sent again by a retry or sent by two tabs, one
\* request leaves one row (the client ids of clockIn, clockOut, addWorkLog).
AppliedOnce == \A r \in Requests : effects[r] <= 1

\* A clock-in or a record that has left the queue is on the server, even
\* when tabs overwrite the rows of each other (runOne, deleteOp, updateOp).
AcknowledgedIsStored ==
    \A i \in saved :
       queue[i].status = "none" /\ kind[i] \in {"CLOCK_IN", "RECORD"}
          => Stored(Queued(i))

\* A late or retried clock-out does not end a session begun after it.
SessionsEndLater ==
    \A s \in Requests : endedBy[s] # None => s[1] < endedBy[s][1]

\* Every queued action is settled in the end, after an interrupted pass too:
\* accepted by the server or parked for the user, and not retried for ever.
Unsettled(i) == queue[i].status \in {"pending", "syncing", "failed", "due"}
EverythingSettles == \A i \in Ops : Unsettled(i) ~> ~ Unsettled(i)

\* offline-field-operations.ts: retries do not create duplicate clock events
\* or notes.
NotesOnce ==
    \A i \in Ops : kind[i] = "RECORD" =>
       effects[Online(i)] + effects[Queued(i)] <= 1
=============================================================================
