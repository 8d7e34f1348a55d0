---------------------------- MODULE JobLifecycle ----------------------------
(***************************************************************************)
(* The life of a job in the API: the job row, its crew, its field records, *)
(* its safety control and signature, the clock sessions worked on it and   *)
(* its row in the Approvals Center, under concurrent HTTP requests.        *)
(*                                                                         *)
(* A handler of the API is a sequence of database round trips.  Most read  *)
(* the job without a lock, decide, and then open one transaction that      *)
(* locks the row (SELECT ... FOR UPDATE) and writes with a guard on the    *)
(* column it expects.  Each round trip outside a transaction is an action  *)
(* here and each transaction is one action; what a handler remembers       *)
(* between them is its record in req.  A transaction that throws is rolled *)
(* back, so every rejection, timeout and crash is the one action Abort.    *)
(*                                                                         *)
(* Boolean columns are sets of jobs: j \in signed.  One safety control     *)
(* stands for the three of SAFETY_CONTROL_DEFS, and Office for every       *)
(* member whose role may edit the schedule (canEditSchedule).  Office is   *)
(* never a technician of a job (requireJobAssignee wants the TECHNICIAN    *)
(* role), so assertNotSelfApproval cannot fire and is left out.            *)
(***************************************************************************)
EXTENDS Naturals, Sequences

CONSTANTS
    Jobs, Technicians,
    Office,          \* a member with a role in canEditSchedule
    Sessions,        \* ids a clock session may be given (bound)
    Events,          \* clientEventIds of clock-outs (bound)
    AuditWindow,     \* clock-outs a replay is looked up among: 40 in the code
    Records,         \* ids of work logs, materials and photos (bound)
    Handlers,        \* requests in flight at the same time (bound)
    Endpoints,       \* the operations clients call in this instance (bound)
    NoJob, NoEvent,
    TeamJobs,        \* the jobs that have a team
    PlannedJobs, SafetyJobs, SignOffJobs, Crew,  \* what jobs are created with
    ManualWork       \* <<t, j>>: an approved manual entry of t on j exists

JobStatus == {"DRAFT", "SCHEDULED", "DISPATCHED", "IN_PROGRESS",
              "PENDING_APPROVAL", "RETURNED", "COMPLETED", "CANCELLED"}

FieldCapture == {"DISPATCHED", "IN_PROGRESS", "RETURNED"}
Clockable    == FieldCapture
SignOff      == {"IN_PROGRESS", "PENDING_APPROVAL"}
Editable     == JobStatus \ {"COMPLETED", "CANCELLED"}
Cancelable   == {"DRAFT", "SCHEDULED"} \cup FieldCapture

ASSUME OfficeAssumption == Office \notin Technicians
ASSUME NoJobAssumption == NoJob \notin Jobs
ASSUME NoEventAssumption == NoEvent \notin Events
ASSUME WindowAssumption == AuditWindow \in Nat
ASSUME WorkAssumption ==
    /\ TeamJobs \subseteq Jobs /\ PlannedJobs \subseteq Jobs
    /\ SafetyJobs \subseteq Jobs /\ SignOffJobs \subseteq Jobs
    /\ Crew \in [Jobs -> SUBSET Technicians]
    /\ ManualWork \subseteq Technicians \X Jobs

Actors == Technicians \cup {Office}

VARIABLES
    status,            \* Job.status
    planned,           \* jobs with a scheduledStart
    assigned,          \* JobAssignment rows: the technicians of each job
    requireSafety,     \* jobs with a require* safety flag
    requireSignOff,    \* jobs with requireClientSignOff
    summarised,        \* jobs whose completion summary is filled in
    controlRequired,   \* jobs whose JobSafetyControl has isRequired
    controlConfirmed,  \* jobs whose JobSafetyControl has completedAt
    signed,            \* jobs with a JobSignature
    records,           \* the field records of each job
    sessions,          \* ClockSession rows
    clockOuts,         \* AuditLog rows of each technician's clock-outs, in
                       \* order: the clientEventId of each
    approval,          \* Approval.status of the JOB_COMPLETION row
    req,               \* the request each handler is serving
    current            \* handlers whose copy of the row has its updatedAt

jobRow   == <<status, planned, assigned, requireSafety, requireSignOff,
              summarised>>
evidence == <<controlRequired, controlConfirmed, signed, records>>
clock    == <<sessions, clockOuts>>
tables   == <<jobRow, evidence, clock, approval>>
vars     == <<tables, req, current>>

SessionRow ==
    [id : Sessions, tech : Technicians, job : Jobs \cup {NoJob},
     state : {"OPEN", "CLOSED"}, minutes : {0, 1}]

Idle == [op |-> "idle"]

\* What a handler keeps from its reads until it writes.
Request ==
    [op : {"idle"}]
    \cup [op : {"update", "complete", "approve", "return", "capture",
                "check", "confirm", "sign"}, job : Jobs]
    \cup [op : {"schedule"}, job : Jobs, seen : Editable]
    \cup [op : {"dispatch"}, job : Jobs, seen : {"SCHEDULED", "DISPATCHED"}]
    \cup [op : {"cancel"}, job : Jobs, seen : Editable \ {"PENDING_APPROVAL"}]
    \cup [op : {"submit"}, job : Jobs, user : Actors]
    \cup [op : {"clockIn"}, job : Jobs \cup {NoJob}, user : Technicians,
          id : Sessions]
    \cup [op : {"clockOut"}, user : Technicians,
          event : Events \cup {NoEvent}]
    \cup [op : {"close"}, user : Technicians, id : Sessions,
          event : Events \cup {NoEvent}]
    \cup [op : {"sync"}, job : Jobs, on : BOOLEAN]
    \cup [op : {"list"}, todo : SUBSET Jobs]
    \cup [op : {"reset"}, todo : SUBSET Jobs, job : Jobs]

TypeOK ==
    /\ status \in [Jobs -> JobStatus]
    /\ assigned \in [Jobs -> SUBSET Technicians]
    /\ records \in [Jobs -> SUBSET Records]
    /\ approval \in [Jobs -> {"NONE", "PENDING", "APPROVED", "RETURNED"}]
    /\ planned \cup requireSafety \cup requireSignOff \cup summarised
          \cup controlRequired \cup controlConfirmed \cup signed \subseteq Jobs
    /\ sessions \subseteq SessionRow
    /\ clockOuts \in [Technicians -> Seq(Events \cup {NoEvent})]
    /\ req \in [Handlers -> Request]
    /\ current \subseteq Handlers

-----------------------------------------------------------------------------
(* Helpers *)

Set(column, j, on) == IF on THEN column \cup {j} ELSE column \ {j}

Serves(h, op) == req[h].op = op

\* An idle handler accepts a call of an endpoint and keeps r between reads.
Accept(h, endpoint, r) ==
    /\ endpoint \in Endpoints
    /\ req[h] = Idle
    /\ req' = [req EXCEPT ![h] = r]

Continue(h, r) == req' = [req EXCEPT ![h] = r]
Finish(h) == req' = [req EXCEPT ![h] = Idle]

\* Prisma moves updatedAt on every write of the row: copies of it go stale.
Touch(j) ==
    current' = {h \in current :
                  ~ (req[h].op \in {"update", "schedule"} /\ req[h].job = j)}

\* The updatedAt of the locked row is the one the handler read; the mistake
\* is to write without comparing.
WriteAnyway(h)  == h \in Handlers
RowUnchanged(h) == h \in current

\* updateMany ... where status = the status read; the mistake is where id.
AnyStatus(h)  == req[h].job \in Jobs
SameStatus(h) == status[req[h].job] = req[h].seen

OpenOf(t) == {s \in sessions : s.tech = t /\ s.state = "OPEN"}
OpenOn(j) == {s \in sessions : s.job = j /\ s.state = "OPEN"}

CanFieldAdvance(u, j) == u = Office \/ u \in assigned[j]
CanFieldCapture(u, j) == CanFieldAdvance(u, j) /\ status[j] \in FieldCapture
CanClockAgainst(t, j) == t \in assigned[j] /\ status[j] \in Clockable
CanSignOff(u, j)      == CanFieldAdvance(u, j) /\ status[j] \in SignOff

\* Only the submitting technician's own session counts; Office needs any.
HasWorkTime(u, j) ==
    \/ \E s \in sessions :
          /\ s.job = j /\ s.state = "CLOSED" /\ s.minutes > 0
          /\ u \in {Office, s.tech}
    \/ \E t \in Technicians : <<t, j>> \in ManualWork /\ u \in {Office, t}

WorkTimeClear(u, j) == OpenOn(j) = {} /\ HasWorkTime(u, j)

SafetySatisfied(j) == j \in controlRequired => j \in controlConfirmed
SignatureSatisfied(j) == j \in requireSignOff => j \in signed

\* The checks of evaluateJobApprovalIntegrity; a closed session always has
\* its end, so an incomplete time record cannot occur here.
Approvable(j) ==
    /\ status[j] = "PENDING_APPROVAL"
    /\ OpenOn(j) = {}
    /\ SafetySatisfied(j)
    /\ SignatureSatisfied(j)

-----------------------------------------------------------------------------
(* Office: create, edit, schedule, dispatch, cancel *)

\* Every job has just been created: a draft, its controls synchronised.
Init ==
    /\ status = [j \in Jobs |-> "DRAFT"]
    /\ planned = PlannedJobs
    /\ assigned = Crew
    /\ requireSafety = SafetyJobs
    /\ requireSignOff = SignOffJobs
    /\ controlRequired = requireSafety
    /\ summarised = {} /\ controlConfirmed = {} /\ signed = {}
    /\ records = [j \in Jobs |-> {}]
    /\ sessions = {}
    /\ clockOuts = [t \in Technicians |-> <<>>]
    /\ approval = [j \in Jobs |-> "NONE"]
    /\ req = [h \in Handlers |-> Idle]
    /\ current = {}

UpdateRead(h, j) ==
    /\ status[j] \in Editable
    /\ Accept(h, "update", [op |-> "update", job |-> j])
    /\ current' = current \cup {h}
    /\ UNCHANGED tables

\* The safety flags change without syncSafetyControls.
UpdateCommit(h, crew, start, safety, signOff) ==
    /\ Serves(h, "update") /\ RowUnchanged(h)
    /\ LET j == req[h].job IN
         /\ assigned' = [assigned EXCEPT ![j] = crew]
         /\ planned' = Set(planned, j, start)
         /\ requireSafety' = Set(requireSafety, j, safety)
         /\ requireSignOff' = Set(requireSignOff, j, signOff)
         /\ Touch(j)
    /\ Finish(h)
    /\ UNCHANGED <<status, summarised, evidence, clock, approval>>

ScheduleRead(h, j) ==
    /\ status[j] \in Editable
    /\ Accept(h, "schedule", [op |-> "schedule", job |-> j,
                              seen |-> status[j]])
    /\ current' = current \cup {h}
    /\ UNCHANGED tables

ScheduleCommit(h, crew, start) ==
    /\ Serves(h, "schedule") /\ RowUnchanged(h)
    /\ LET j == req[h].job
           seen == req[h].seen IN
         /\ SameStatus(h)
         /\ status' = [status EXCEPT ![j] =
                         IF seen = "DRAFT" /\ start THEN "SCHEDULED" ELSE seen]
         /\ assigned' = [assigned EXCEPT ![j] = crew]
         /\ planned' = Set(planned, j, start)
         /\ Touch(j)
    /\ Finish(h)
    /\ UNCHANGED <<requireSafety, requireSignOff, summarised, evidence,
                   clock, approval>>

\* assertTransition lets a dispatched job be dispatched again.
DispatchRead(h, j) ==
    /\ status[j] \in {"SCHEDULED", "DISPATCHED"}
    /\ j \in planned
    /\ j \in TeamJobs \/ assigned[j] # {}
    /\ Accept(h, "dispatch", [op |-> "dispatch", job |-> j,
                              seen |-> status[j]])
    /\ UNCHANGED <<tables, current>>

\* The compare-and-set of one column that dispatch and cancel write with.
MoveStatus(h, to) ==
    LET j == req[h].job IN
      /\ SameStatus(h)
      /\ status' = [status EXCEPT ![j] = to]
      /\ Touch(j)
      /\ Finish(h)
      /\ UNCHANGED <<planned, assigned, requireSafety, requireSignOff,
                     summarised, evidence, clock, approval>>

DispatchCommit(h) == Serves(h, "dispatch") /\ MoveStatus(h, "DISPATCHED")

CancelRead(h, j) ==
    /\ status[j] \in Cancelable
    /\ Accept(h, "cancel", [op |-> "cancel", job |-> j, seen |-> status[j]])
    /\ UNCHANGED <<tables, current>>

CancelCommit(h) == Serves(h, "cancel") /\ MoveStatus(h, "CANCELLED")

-----------------------------------------------------------------------------
(* The clock: start and resume are clock-ins *)

\* id is the clientEventId of an offline client, or a fresh one.
ClockInRead(h, t, j, id) ==
    /\ OpenOf(t) = {}
    /\ j # NoJob => CanClockAgainst(t, j)
    /\ Accept(h, "clock", [op |-> "clockIn", job |-> j, user |-> t,
                           id |-> id])
    /\ UNCHANGED <<tables, current>>

\* The primary key allows one row per id, the partial unique index one OPEN
\* row per technician; the mistake is to trust the unlocked check.
KeyFree(t, id) == t \in Technicians /\ \A s \in sessions : s.id # id
MayOpen(t, id) == KeyFree(t, id) /\ OpenOf(t) = {}

\* Under the job lock.  A replay finds its row and changes nothing.
ClockInCommit(h) ==
    /\ Serves(h, "clockIn")
    /\ LET j == req[h].job
           t == req[h].user IN
         /\ j # NoJob => CanClockAgainst(t, j)
         /\ MayOpen(t, req[h].id)
         /\ sessions' = sessions \cup
              {[id |-> req[h].id, tech |-> t, job |-> j, state |-> "OPEN",
                minutes |-> 0]}
         /\ IF j # NoJob /\ status[j] # "IN_PROGRESS"
              THEN /\ status' = [status EXCEPT ![j] = "IN_PROGRESS"]
                   /\ Touch(j)
              ELSE UNCHANGED <<status, current>>
    /\ Finish(h)
    /\ UNCHANGED <<planned, assigned, requireSafety, requireSignOff,
                   summarised, evidence, clockOuts, approval>>

\* Looked up among the technician's latest AuditWindow clock-outs: a replay
\* that arrives after more of them than that is not recognised.
ClosedByEvent(t, event) ==
    event # NoEvent /\ \E i \in 1 .. Len(clockOuts[t]) :
                          /\ i + AuditWindow > Len(clockOuts[t])
                          /\ clockOuts[t][i] = event

ClockOutBegin(h, t, event) ==
    /\ ~ ClosedByEvent(t, event)
    /\ Accept(h, "clock", [op |-> "clockOut", user |-> t, event |-> event])
    /\ UNCHANGED <<tables, current>>

ClockOutRead(h) ==
    /\ Serves(h, "clockOut")
    /\ \E s \in OpenOf(req[h].user) :
         Continue(h, [op |-> "close", user |-> req[h].user, id |-> s.id,
                      event |-> req[h].event])
    /\ UNCHANGED <<tables, current>>

\* updateMany where the session is OPEN; the mistake is where id.
Named(s, h)     == s.id = req[h].id
StillOpen(s, h) == Named(s, h) /\ s.state = "OPEN"

\* No job lock; worked is 0 when the session ended the moment it began.
CloseSession(h, worked) ==
    /\ Serves(h, "close")
    /\ \E s \in sessions :
         /\ StillOpen(s, h)
         /\ sessions' = (sessions \ {s}) \cup
              {[s EXCEPT !.state = "CLOSED", !.minutes = worked]}
    /\ clockOuts' = [clockOuts EXCEPT ![req[h].user] =
                       Append(@, req[h].event)]
    /\ Finish(h)
    /\ UNCHANGED <<jobRow, evidence, approval, current>>

\* The event is looked up again inside the transaction.
ClockOutCommit(h, worked) ==
    /\ CloseSession(h, worked)
    /\ ~ ClosedByEvent(req[h].user, req[h].event)

-----------------------------------------------------------------------------
(* Field capture: each checks the status in an unlocked read, then writes *)

CaptureRead(h, u, j) ==
    /\ CanFieldCapture(u, j)
    /\ Accept(h, "capture", [op |-> "capture", job |-> j])
    /\ UNCHANGED <<tables, current>>

UpdateCompletion(h) ==
    /\ Serves(h, "capture")
    /\ summarised' = summarised \cup {req[h].job}
    /\ Touch(req[h].job)
    /\ Finish(h)
    /\ UNCHANGED <<status, planned, assigned, requireSafety, requireSignOff,
                   evidence, clock, approval>>

\* A work log, a material, a photo: added, or removed again.
WriteRecord(h, rows) ==
    /\ Serves(h, "capture")
    /\ records' = [records EXCEPT ![req[h].job] = rows]
    /\ Finish(h)
    /\ UNCHANGED <<jobRow, controlRequired, controlConfirmed, signed,
                   clock, approval, current>>

AddRecord(h, r) ==
    r \notin records[req[h].job]
    /\ WriteRecord(h, records[req[h].job] \cup {r})

RemoveRecord(h, r) ==
    r \in records[req[h].job] /\ WriteRecord(h, records[req[h].job] \ {r})

ConfirmRead(h, u, j) ==
    /\ CanFieldCapture(u, j)
    /\ Accept(h, "safety", [op |-> "sync", job |-> j,
                            on |-> j \in requireSafety])
    /\ UNCHANGED <<tables, current>>

\* Outside any transaction, from the flags of the unlocked read.
ConfirmSync(h) ==
    /\ Serves(h, "sync")
    /\ controlRequired' = Set(controlRequired, req[h].job, req[h].on)
    /\ Continue(h, [op |-> "check", job |-> req[h].job])
    /\ UNCHANGED <<jobRow, controlConfirmed, signed, records, clock,
                   approval, current>>

ConfirmCheck(h) ==
    /\ Serves(h, "check")
    /\ req[h].job \in controlRequired \ controlConfirmed
    /\ Continue(h, [op |-> "confirm", job |-> req[h].job])
    /\ UNCHANGED <<tables, current>>

ConfirmCommit(h) ==
    /\ Serves(h, "confirm")
    /\ controlConfirmed' = controlConfirmed \cup {req[h].job}
    /\ Finish(h)
    /\ UNCHANGED <<jobRow, controlRequired, signed, records, clock,
                   approval, current>>

SignRead(h, u, j) ==
    /\ CanSignOff(u, j)
    /\ Accept(h, "sign", [op |-> "sign", job |-> j])
    /\ UNCHANGED <<tables, current>>

SignCommit(h) ==
    /\ Serves(h, "sign")
    /\ signed' = signed \cup {req[h].job}
    /\ Touch(req[h].job)
    /\ Finish(h)
    /\ UNCHANGED <<jobRow, controlRequired, controlConfirmed, records,
                   clock, approval>>

-----------------------------------------------------------------------------
(* Submission and decision *)

SubmitRead(h, u, j) ==
    /\ CanFieldAdvance(u, j)
    /\ status[j] # "PENDING_APPROVAL"
    /\ Accept(h, "submit", [op |-> "submit", job |-> j, user |-> u])
    /\ UNCHANGED <<tables, current>>

\* A resubmission reopens the row; the mistake is to keep an existing one.
KeepDecided(row)   == IF row = "NONE" THEN "PENDING" ELSE row
EnsurePending(row) == "PENDING"

\* The whole gate runs under the job lock.
SubmitCommit(h) ==
    /\ Serves(h, "submit")
    /\ LET j == req[h].job
           u == req[h].user IN
         /\ CanFieldAdvance(u, j)
         /\ status[j] = "IN_PROGRESS"
         /\ j \in requireSafety => j \in controlConfirmed
         /\ j \in summarised
         /\ SignatureSatisfied(j)
         /\ WorkTimeClear(u, j)
         /\ status' = [status EXCEPT ![j] = "PENDING_APPROVAL"]
         /\ controlRequired' = Set(controlRequired, j, j \in requireSafety)
         /\ approval' = [approval EXCEPT ![j] = EnsurePending(@)]
         /\ Touch(j)
    /\ Finish(h)
    /\ UNCHANGED <<planned, assigned, requireSafety, requireSignOff,
                   summarised, controlConfirmed, signed, records, clock>>

\* complete() reads the job, then validates it, then decides.
CompleteRead(h, j) ==
    /\ status[j] \in {"PENDING_APPROVAL", "COMPLETED"}
    /\ Accept(h, "decide", [op |-> "complete", job |-> j])
    /\ UNCHANGED <<tables, current>>

CompleteValidate(h) ==
    /\ Serves(h, "complete")
    /\ Approvable(req[h].job)
    /\ Continue(h, [op |-> "approve", job |-> req[h].job])
    /\ UNCHANGED <<tables, current>>

\* The job and its approval row change together or not at all.
Decide(h, to, decision) ==
    LET j == req[h].job IN
      /\ status[j] = "PENDING_APPROVAL"
      /\ status' = [status EXCEPT ![j] = to]
      /\ approval[j] = "PENDING"
      /\ approval' = [approval EXCEPT ![j] = decision]
      /\ Touch(j)
      /\ Finish(h)
      /\ UNCHANGED <<planned, assigned, requireSafety, requireSignOff,
                     summarised, evidence, clock>>

CompleteCommit(h) ==
    Serves(h, "approve") /\ Decide(h, "COMPLETED", "APPROVED")

ReturnRead(h, j) ==
    /\ status[j] \in {"PENDING_APPROVAL", "RETURNED"}
    /\ Accept(h, "decide", [op |-> "return", job |-> j])
    /\ UNCHANGED <<tables, current>>

ReturnCommit(h) == Serves(h, "return") /\ Decide(h, "RETURNED", "RETURNED")

\* Opening the inbox backfills a row for each job it read as pending.
ListRead(h) ==
    /\ \E j \in Jobs : status[j] = "PENDING_APPROVAL"
    /\ Accept(h, "list",
              [op |-> "list",
               todo |-> {j \in Jobs : status[j] = "PENDING_APPROVAL"}])
    /\ UNCHANGED <<tables, current>>

\* The row exists: submit made it in the transaction that set the status.
ListCheck(h, j) ==
    /\ Serves(h, "list")
    /\ j \in req[h].todo
    /\ LET left == req[h].todo \ {j} IN
         Continue(h, IF approval[j] = "PENDING"
                       THEN [op |-> "list", todo |-> left]
                       ELSE [op |-> "reset", todo |-> left, job |-> j])
    /\ UNCHANGED <<tables, current>>

\* An update by id, with no guard on the status it read.
ListReset(h) ==
    /\ Serves(h, "reset")
    /\ approval' = [approval EXCEPT ![req[h].job] = "PENDING"]
    /\ Continue(h, [op |-> "list", todo |-> req[h].todo])
    /\ UNCHANGED <<jobRow, evidence, clock, current>>

-----------------------------------------------------------------------------
\* A check that throws, a conflict, a timeout, a crash, the end of a list.
Abort(h) ==
    /\ req[h] # Idle
    /\ Finish(h)
    /\ current' = current \ {h}
    /\ UNCHANGED tables

Read(h) ==
    \/ ListRead(h)
    \/ \E t \in Technicians, e \in Events \cup {NoEvent} :
          ClockOutBegin(h, t, e)
    \/ \E t \in Technicians, j \in Jobs \cup {NoJob}, id \in Sessions :
          ClockInRead(h, t, j, id)
    \/ \E j \in Jobs :
         \/ UpdateRead(h, j) \/ ScheduleRead(h, j) \/ DispatchRead(h, j)
         \/ CancelRead(h, j) \/ CompleteRead(h, j) \/ ReturnRead(h, j)
         \/ \E u \in Actors :
              \/ CaptureRead(h, u, j) \/ ConfirmRead(h, u, j)
              \/ SignRead(h, u, j) \/ SubmitRead(h, u, j)

Work(h) ==
    \/ \E crew \in SUBSET Technicians, start, safety, signOff \in BOOLEAN :
          UpdateCommit(h, crew, start, safety, signOff)
    \/ \E crew \in SUBSET Technicians, start \in BOOLEAN :
          ScheduleCommit(h, crew, start)
    \/ DispatchCommit(h) \/ CancelCommit(h)
    \/ ClockInCommit(h) \/ ClockOutRead(h)
    \/ \E worked \in {0, 1} : ClockOutCommit(h, worked)
    \/ UpdateCompletion(h)
    \/ \E r \in Records : Serves(h, "capture")
                          /\ (AddRecord(h, r) \/ RemoveRecord(h, r))
    \/ ConfirmSync(h) \/ ConfirmCheck(h) \/ ConfirmCommit(h)
    \/ SignCommit(h) \/ SubmitCommit(h)
    \/ CompleteValidate(h) \/ CompleteCommit(h) \/ ReturnCommit(h)
    \/ \E j \in Jobs : ListCheck(h, j)
    \/ ListReset(h)
    \/ Abort(h)

Next == \E h \in Handlers : Read(h) \/ Work(h)

Spec == Init /\ [][Next]_vars

-----------------------------------------------------------------------------
(* What must hold *)

\* A technician works one clock session at a time, whatever was in flight:
\* two clock-ins both passed the unlocked check (clock.service.ts clockIn).
OneOpenSession ==
    \A r, s \in sessions :
       r.state = "OPEN" /\ s.state = "OPEN" /\ r.tech = s.tech => r = s

\* A clock-in racing a submission loses: nobody is on the clock of a job
\* that waits for a decision or is done (workTimeBlockers in submit against
\* the recheck under the job lock in clockIn).
NoWorkOnSubmittedJob ==
    \A j \in Jobs :
       status[j] \in {"PENDING_APPROVAL", "COMPLETED"} => OpenOn(j) = {}

\* A submitted job can always be decided: markDecided throws unless the row
\* is pending, so a job whose row is not would be stuck for ever.
SubmittedJobIsDecidable ==
    \A j \in Jobs : status[j] = "PENDING_APPROVAL" => approval[j] = "PENDING"

\* A decision on record is the decision that was applied to the job, even
\* when two approvers, a resubmission and an inbox refresh interleave.
DecisionAgrees ==
    \A j \in Jobs :
       /\ status[j] = "COMPLETED" => approval[j] \in {"APPROVED", "PENDING"}
       /\ approval[j] = "APPROVED" => status[j] = "COMPLETED"
       /\ approval[j] = "RETURNED"
             => status[j] \in {"RETURNED", "IN_PROGRESS", "CANCELLED"}

\* A clock-out delivered twice closes one session, even when the technician
\* has clocked in again in between (findClockOutAudit inside the transaction):
\* an event closes a second session only when more than AuditWindow clock-outs
\* of its technician lie between the two deliveries.
ClockOutOncePerEvent ==
    \A t \in Technicians : \A i, k \in 1 .. Len(clockOuts[t]) :
       /\ i < k /\ clockOuts[t][i] = clockOuts[t][k]
       /\ clockOuts[t][i] # NoEvent
       => k - i > AuditWindow

\* A closed session is final and no session disappears: late clock-outs and
\* replayed clock-ins do not rewrite recorded hours.
ClosedSessionsAreFinal ==
    [][/\ \A s \in sessions : s.state = "CLOSED" => s \in sessions'
       /\ \A s \in sessions : \E r \in sessions' :
             r.id = s.id /\ r.tech = s.tech /\ r.job = s.job]_vars

\* An edit or a reassignment begun before the decision or the cancellation
\* does not change a closed job: its row has moved on (updatedAt check).
ClosedJobKeepsItsTerms ==
    [][\A j \in Jobs : status[j] \in {"COMPLETED", "CANCELLED"} =>
         /\ assigned'[j] = assigned[j]
         /\ {j} \cap planned' = {j} \cap planned
         /\ {j} \cap requireSafety' = {j} \cap requireSafety
         /\ {j} \cap requireSignOff' = {j} \cap requireSignOff]_vars

\* Every interleaving of the handlers is a run of the status machine in
\* JobWorkflow: no transition is skipped, none leaves a terminal status.
working == [j \in Jobs |-> {t \in Technicians : OpenOf(t) \cap OpenOn(j) # {}}]
Workflow == INSTANCE JobWorkflow WITH status <- status, working <- working
FollowsWorkflow == Workflow!Spec

\* docs/object-storage.md: after submit or approval, evidence is locked.
Submitted == {"PENDING_APPROVAL", "COMPLETED"}
EvidenceLocked ==
    [][\A j \in Jobs :
         status[j] \in Submitted => records'[j] = records[j]]_vars

\* What the unlocked check of requireMutableCapture leaves of it: once the
\* captures that had passed their check when the job was submitted are over,
\* its records are what the approver reads until he returns it, and of a
\* completed job for good.
Sealed(j) ==
    /\ status[j] \in Submitted
    /\ \A h \in Handlers : ~ (Serves(h, "capture") /\ req[h].job = j)
EvidenceSealed ==
    [][\A j \in Jobs : Sealed(j) =>
         /\ records'[j] = records[j]
         /\ \/ Sealed(j)'
            \/ status[j] = "PENDING_APPROVAL" /\ status'[j] = "RETURNED"]_vars
=============================================================================
