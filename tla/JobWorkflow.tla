---------------------------- MODULE JobWorkflow -----------------------------
(***************************************************************************)
(* What the API promises about the status of a job: the status machine of  *)
(* job-workflow.service.ts, moved one legal step at a time, together with  *)
(* the technicians who are on its clock.  Work starts only on a job that   *)
(* may be worked, and a job goes to approval only once nobody is on its    *)
(* clock.  There are no requests, no locks and no approval rows here.      *)
(***************************************************************************)
CONSTANTS Jobs, Technicians

VARIABLES status, working

JOB_TRANSITIONS ==
    [DRAFT            |-> {"SCHEDULED", "CANCELLED"},
     SCHEDULED        |-> {"DISPATCHED", "CANCELLED"},
     DISPATCHED       |-> {"IN_PROGRESS", "CANCELLED"},
     IN_PROGRESS      |-> {"PENDING_APPROVAL", "CANCELLED"},
     PENDING_APPROVAL |-> {"COMPLETED", "RETURNED"},
     RETURNED         |-> {"IN_PROGRESS", "CANCELLED"},
     COMPLETED        |-> {},
     CANCELLED        |-> {}]

CLOCKABLE_STATUSES == {"DISPATCHED", "IN_PROGRESS", "RETURNED"}

Init ==
    /\ status = [j \in Jobs |-> "DRAFT"]
    /\ working = [j \in Jobs |-> {}]

Move(j, to) ==
    /\ to \in JOB_TRANSITIONS[status[j]]
    /\ to # "IN_PROGRESS"
    /\ to = "PENDING_APPROVAL" => working[j] = {}
    /\ status' = [status EXCEPT ![j] = to]
    /\ UNCHANGED working

\* The first clock-in of a dispatched or returned job starts it.
StartWork(t, j) ==
    /\ status[j] \in CLOCKABLE_STATUSES
    /\ \A i \in Jobs : t \notin working[i]
    /\ working' = [working EXCEPT ![j] = @ \cup {t}]
    /\ status' = [status EXCEPT ![j] = "IN_PROGRESS"]

StopWork(t, j) ==
    /\ t \in working[j]
    /\ working' = [working EXCEPT ![j] = @ \ {t}]
    /\ UNCHANGED status

Next ==
    \E j \in Jobs :
       \/ \E to \in {"SCHEDULED", "DISPATCHED", "PENDING_APPROVAL",
                     "COMPLETED", "RETURNED", "CANCELLED"} : Move(j, to)
       \/ \E t \in Technicians : StartWork(t, j) \/ StopWork(t, j)

Spec == Init /\ [][Next]_<<status, working>>
=============================================================================
