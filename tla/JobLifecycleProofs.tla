------------------------- MODULE JobLifecycleProofs -------------------------
(***************************************************************************)
(* What JobLifecycle guarantees for any jobs, technicians, sessions and    *)
(* any number of requests in flight.                                       *)
(***************************************************************************)
EXTENDS JobLifecycle, TLAPS

\* An abbreviation for two variables, expanded everywhere.
USE DEF clock

\* What a request carries, by the operation it serves.
LEMMA RequestFields ==
  ASSUME NEW r \in Request
  PROVE  /\ r.op \in {"update", "complete", "approve", "return", "capture",
                      "check", "confirm", "sign", "schedule", "dispatch",
                      "cancel", "submit", "sync", "reset"} => r.job \in Jobs
         /\ r.op = "schedule" => r.seen \in Editable
         /\ r.op = "dispatch" => r.seen \in {"SCHEDULED", "DISPATCHED"}
         /\ r.op = "cancel" => r.seen \in Editable \ {"PENDING_APPROVAL"}
         /\ r.op = "submit" => r.user \in Actors
         /\ r.op = "clockIn" => /\ r.job \in Jobs \cup {NoJob}
                                /\ r.user \in Technicians
                                /\ r.id \in Sessions
         /\ r.op = "clockOut" => /\ r.user \in Technicians
                                 /\ r.event \in Events \cup {NoEvent}
         /\ r.op = "close" => /\ r.user \in Technicians
                              /\ r.id \in Sessions
                              /\ r.event \in Events \cup {NoEvent}
         /\ r.op = "sync" => r.on \in BOOLEAN
         /\ r.op = "list" => r.todo \in SUBSET Jobs
         /\ r.op = "reset" => r.todo \in SUBSET Jobs
  BY DEF Request

\* A step that only reads keeps the types as long as it keeps a request.
LEMMA ReadKeepsTypes ==
  ASSUME TypeOK, UNCHANGED tables,
         NEW h \in Handlers, NEW r \in Request,
         req' = [req EXCEPT ![h] = r], current' \subseteq Handlers
  PROVE  TypeOK'
  BY DEF TypeOK, tables, jobRow, evidence

LEMMA IdleIsRequest == Idle \in Request
  BY DEF Idle, Request

LEMMA ReadTypes ==
  ASSUME TypeOK, NEW h \in Handlers, Read(h)
  PROVE  TypeOK'
<1> USE DEF Accept
<1>1. CASE ListRead(h)
  <2> DEFINE r == [op |-> "list",
                   todo |-> {j \in Jobs : status[j] = "PENDING_APPROVAL"}]
  <2>1. r \in Request
    BY DEF Request
  <2> QED
    BY <1>1, <2>1, ReadKeepsTypes DEF ListRead, TypeOK
<1>2. ASSUME NEW t \in Technicians, NEW e \in Events \cup {NoEvent},
             ClockOutBegin(h, t, e)
      PROVE  TypeOK'
  <2>1. [op |-> "clockOut", user |-> t, event |-> e] \in Request
    BY DEF Request
  <2> QED
    BY <1>2, <2>1, ReadKeepsTypes DEF ClockOutBegin, TypeOK
<1>3. ASSUME NEW t \in Technicians, NEW j \in Jobs \cup {NoJob},
             NEW id \in Sessions, ClockInRead(h, t, j, id)
      PROVE  TypeOK'
  <2>1. [op |-> "clockIn", job |-> j, user |-> t, id |-> id] \in Request
    BY DEF Request
  <2> QED
    BY <1>3, <2>1, ReadKeepsTypes DEF ClockInRead, TypeOK
<1>4. ASSUME NEW j \in Jobs,
             \/ UpdateRead(h, j) \/ ScheduleRead(h, j) \/ DispatchRead(h, j)
             \/ CancelRead(h, j) \/ CompleteRead(h, j) \/ ReturnRead(h, j)
      PROVE  TypeOK'
  <2>1. \A o \in {"update", "complete", "return"} :
           [op |-> o, job |-> j] \in Request
    BY DEF Request
  <2>2. status[j] \in Editable
          => [op |-> "schedule", job |-> j, seen |-> status[j]] \in Request
    BY DEF Request
  <2>3. status[j] \in {"SCHEDULED", "DISPATCHED"}
          => [op |-> "dispatch", job |-> j, seen |-> status[j]] \in Request
    BY DEF Request
  <2>4. status[j] \in Cancelable
          => [op |-> "cancel", job |-> j, seen |-> status[j]] \in Request
    BY DEF Request, Cancelable, Editable, FieldCapture, JobStatus
  <2>5. current \cup {h} \subseteq Handlers /\ current \subseteq Handlers
    BY DEF TypeOK
  <2>6. CASE UpdateRead(h, j)
    BY <2>6, <2>1, <2>5, ReadKeepsTypes DEF UpdateRead
  <2>7. CASE ScheduleRead(h, j)
    BY <2>7, <2>2, <2>5, ReadKeepsTypes DEF ScheduleRead
  <2>8. CASE DispatchRead(h, j)
    BY <2>8, <2>3, <2>5, ReadKeepsTypes DEF DispatchRead
  <2>9. CASE CancelRead(h, j)
    BY <2>9, <2>4, <2>5, ReadKeepsTypes DEF CancelRead
  <2>10. CASE CompleteRead(h, j)
    BY <2>10, <2>1, <2>5, ReadKeepsTypes DEF CompleteRead
  <2>11. CASE ReturnRead(h, j)
    BY <2>11, <2>1, <2>5, ReadKeepsTypes DEF ReturnRead
  <2> QED
    BY <1>4, <2>6, <2>7, <2>8, <2>9, <2>10, <2>11
<1>5. ASSUME NEW j \in Jobs, NEW u \in Actors,
             \/ CaptureRead(h, u, j) \/ ConfirmRead(h, u, j)
             \/ SignRead(h, u, j) \/ SubmitRead(h, u, j)
      PROVE  TypeOK'
  <2>1. \A o \in {"capture", "sign"} : [op |-> o, job |-> j] \in Request
    BY DEF Request
  <2>2. [op |-> "submit", job |-> j, user |-> u] \in Request
    BY DEF Request
  <2>3. [op |-> "sync", job |-> j, on |-> (j \in requireSafety)] \in Request
    BY DEF Request
  <2>4. current \subseteq Handlers
    BY DEF TypeOK
  <2>5. CASE CaptureRead(h, u, j)
    BY <2>5, <2>1, <2>4, ReadKeepsTypes DEF CaptureRead
  <2>6. CASE ConfirmRead(h, u, j)
    BY <2>6, <2>3, <2>4, ReadKeepsTypes DEF ConfirmRead
  <2>7. CASE SignRead(h, u, j)
    BY <2>7, <2>1, <2>4, ReadKeepsTypes DEF SignRead
  <2>8. CASE SubmitRead(h, u, j)
    BY <2>8, <2>2, <2>4, ReadKeepsTypes DEF SubmitRead
  <2> QED
    BY <1>5, <2>5, <2>6, <2>7, <2>8
<1> QED
  BY <1>1, <1>2, <1>3, <1>4, <1>5 DEF Read

\* A step that writes: the request stays a request, Touch only removes.
LEMMA RequestTypes ==
  ASSUME req \in [Handlers -> Request], NEW h \in Handlers, NEW r \in Request,
         req' = [req EXCEPT ![h] = r]
  PROVE  req' \in [Handlers -> Request]
  OBVIOUS

LEMMA TouchTypes ==
  ASSUME current \subseteq Handlers, NEW j, Touch(j)
  PROVE  current' \subseteq Handlers
  BY DEF Touch

LEMMA WorkTypes ==
  ASSUME TypeOK, NEW h \in Handlers, Work(h)
  PROVE  TypeOK'
<1> USE IdleIsRequest DEF Serves, Finish, Continue
<1> DEFINE j == req[h].job
<1>a. /\ req \in [Handlers -> Request] /\ req[h] \in Request
      /\ current \subseteq Handlers
  BY DEF TypeOK
<1>b. Finish(h) => req' \in [Handlers -> Request]
  BY <1>a, RequestTypes
<1>c. req[h].op \in {"update", "complete", "approve", "return", "capture",
                     "check", "confirm", "sign", "schedule", "dispatch",
                     "cancel", "submit", "sync", "reset"} => j \in Jobs
  BY <1>a, RequestFields
<1>d. \A i : Touch(i) => current' \subseteq Handlers
  BY <1>a, TouchTypes
<1>1. ASSUME NEW crew \in SUBSET Technicians, NEW start \in BOOLEAN,
             NEW safety \in BOOLEAN, NEW signOff \in BOOLEAN,
             UpdateCommit(h, crew, start, safety, signOff)
      PROVE  TypeOK'
  BY <1>1, <1>b, <1>c, <1>d DEF UpdateCommit, Set, TypeOK, evidence
<1>2. ASSUME NEW crew \in SUBSET Technicians, NEW start \in BOOLEAN,
             ScheduleCommit(h, crew, start)
      PROVE  TypeOK'
  <2>1. req[h].seen \in JobStatus
    BY <1>2, <1>a, RequestFields DEF ScheduleCommit, Editable
  <2> QED
    BY <1>2, <2>1, <1>b, <1>c, <1>d
       DEF ScheduleCommit, Set, TypeOK, evidence, JobStatus
<1>3. ASSUME NEW to \in JobStatus, j \in Jobs, MoveStatus(h, to)
      PROVE  TypeOK'
  BY <1>3, <1>b, <1>d DEF MoveStatus, TypeOK, evidence
<1>4. CASE DispatchCommit(h)
  BY <1>4, <1>3, <1>c DEF DispatchCommit, JobStatus
<1>5. CASE CancelCommit(h)
  BY <1>5, <1>3, <1>c DEF CancelCommit, JobStatus
<1>6. CASE ClockInCommit(h)
  <2> DEFINE row == [id |-> req[h].id, tech |-> req[h].user, job |-> j,
                     state |-> "OPEN", minutes |-> 0]
  <2>1. row \in SessionRow
    BY <1>6, <1>a, RequestFields DEF ClockInCommit, SessionRow
  <2>2. sessions' \subseteq SessionRow
    BY <1>6, <2>1 DEF ClockInCommit, TypeOK
  <2>3. status' \in [Jobs -> JobStatus] /\ current' \subseteq Handlers
    BY <1>6, <1>a, <1>d DEF ClockInCommit, TypeOK, JobStatus
  <2> QED
    BY <1>6, <1>b, <2>2, <2>3 DEF ClockInCommit, TypeOK, evidence
<1>7. CASE ClockOutRead(h)
  <2>1. PICK s \in OpenOf(req[h].user) :
          req' = [req EXCEPT ![h] =
                    [op |-> "close", user |-> req[h].user, id |-> s.id,
                     event |-> req[h].event]]
    BY <1>7 DEF ClockOutRead
  <2>2. s.id \in Sessions
    BY DEF OpenOf, TypeOK, SessionRow
  <2>3. [op |-> "close", user |-> req[h].user, id |-> s.id,
         event |-> req[h].event] \in Request
    BY <1>7, <1>a, <2>2, RequestFields DEF ClockOutRead, Request
  <2> QED
    BY <1>7, <1>a, <2>1, <2>3, ReadKeepsTypes DEF ClockOutRead
<1>8. ASSUME NEW worked \in {0, 1}, ClockOutCommit(h, worked)
      PROVE  TypeOK'
  <2>1. PICK s \in sessions :
          sessions' = (sessions \ {s}) \cup
              {[s EXCEPT !.state = "CLOSED", !.minutes = worked]}
    BY <1>8 DEF ClockOutCommit, CloseSession
  <2>2. [s EXCEPT !.state = "CLOSED", !.minutes = worked] \in SessionRow
    BY DEF TypeOK, SessionRow
  <2>3. sessions' \subseteq SessionRow
    BY <2>1, <2>2 DEF TypeOK
  <2>4. clockOuts' \in [Technicians -> Seq(Events \cup {NoEvent})]
    <3>1. req[h].event \in Events \cup {NoEvent}
      BY <1>8, <1>a, RequestFields DEF ClockOutCommit, CloseSession
    <3>2. \A q \in Seq(Events \cup {NoEvent}) :
            Append(q, req[h].event) \in Seq(Events \cup {NoEvent})
      BY <3>1
    <3>3. /\ clockOuts' = [clockOuts EXCEPT ![req[h].user] =
                             Append(@, req[h].event)]
          /\ clockOuts \in [Technicians -> Seq(Events \cup {NoEvent})]
      BY <1>8 DEF ClockOutCommit, CloseSession, TypeOK
    <3> HIDE DEF TypeOK
    <3> QED
      BY <3>2, <3>3
  <2> QED
    BY <1>8, <1>b, <2>3, <2>4
       DEF ClockOutCommit, CloseSession, TypeOK, jobRow, evidence
<1>9. CASE UpdateCompletion(h)
  BY <1>9, <1>b, <1>c, <1>d DEF UpdateCompletion, TypeOK, evidence
<1>10. ASSUME NEW x \in Records, Serves(h, "capture"),
              AddRecord(h, x) \/ RemoveRecord(h, x)
       PROVE  TypeOK'
  <2>1. records' \in [Jobs -> SUBSET Records]
    BY <1>10, <1>c DEF AddRecord, RemoveRecord, WriteRecord, TypeOK
  <2> QED
    BY <1>10, <1>b, <2>1
       DEF AddRecord, RemoveRecord, WriteRecord, TypeOK, jobRow
<1>11. CASE ConfirmSync(h)
  <2>1. [op |-> "check", job |-> j] \in Request
    BY <1>11, <1>c DEF ConfirmSync, Request
  <2> QED
    BY <1>11, <2>1, <1>a, <1>c, RequestTypes
       DEF ConfirmSync, Set, TypeOK, jobRow
<1>12. CASE ConfirmCheck(h)
  <2>1. [op |-> "confirm", job |-> j] \in Request
    BY <1>12, <1>c DEF ConfirmCheck, Request
  <2> QED
    BY <1>12, <2>1, <1>a, ReadKeepsTypes DEF ConfirmCheck
<1>13. CASE ConfirmCommit(h)
  BY <1>13, <1>b, <1>c DEF ConfirmCommit, TypeOK, jobRow
<1>14. CASE SignCommit(h)
  BY <1>14, <1>b, <1>c, <1>d DEF SignCommit, TypeOK, jobRow
<1>15. CASE SubmitCommit(h)
  BY <1>15, <1>b, <1>c, <1>d
     DEF SubmitCommit, Set, EnsurePending, TypeOK, JobStatus
<1>16. CASE CompleteValidate(h)
  <2>1. [op |-> "approve", job |-> j] \in Request
    BY <1>16, <1>c DEF CompleteValidate, Request
  <2> QED
    BY <1>16, <2>1, <1>a, ReadKeepsTypes DEF CompleteValidate
<1>17. ASSUME NEW to \in JobStatus, NEW d \in {"APPROVED", "RETURNED"},
              j \in Jobs, Decide(h, to, d)
       PROVE  TypeOK'
  BY <1>17, <1>b, <1>d DEF Decide, TypeOK, evidence
<1>18. CASE CompleteCommit(h)
  BY <1>18, <1>17, <1>c DEF CompleteCommit, JobStatus
<1>19. CASE ReturnCommit(h)
  BY <1>19, <1>17, <1>c DEF ReturnCommit, JobStatus
<1>20. ASSUME NEW i \in Jobs, ListCheck(h, i)
       PROVE  TypeOK'
  <2> DEFINE left == req[h].todo \ {i}
  <2>1. left \in SUBSET Jobs
    BY <1>20, <1>a, RequestFields DEF ListCheck
  <2>2. /\ [op |-> "list", todo |-> left] \in Request
        /\ [op |-> "reset", todo |-> left, job |-> i] \in Request
    BY <2>1 DEF Request
  <2> QED
    BY <1>20, <2>2, <1>a, ReadKeepsTypes DEF ListCheck
<1>21. CASE ListReset(h)
  <2>1. [op |-> "list", todo |-> req[h].todo] \in Request
    BY <1>21, <1>a, RequestFields DEF ListReset, Request
  <2> QED
    BY <1>21, <2>1, <1>a, <1>c, RequestTypes
       DEF ListReset, TypeOK, jobRow, evidence
<1>22. CASE Abort(h)
  BY <1>22, <1>a, ReadKeepsTypes DEF Abort
<1> QED
  BY <1>1, <1>2, <1>4, <1>5, <1>6, <1>7, <1>8, <1>9, <1>10, <1>11, <1>12,
     <1>13, <1>14, <1>15, <1>16, <1>18, <1>19, <1>20, <1>21, <1>22 DEF Work

LEMMA InitTypes ==
  ASSUME Init
  PROVE  TypeOK
  BY WorkAssumption, IdleIsRequest DEF Init, TypeOK, JobStatus

\* Every column holds values of its type and every request in flight is one
\* that a handler of the code can be serving.
THEOREM TypeCorrect == Spec => []TypeOK
<1>1. Init => TypeOK
  BY InitTypes
<1>2. TypeOK /\ [Next]_vars => TypeOK'
  <2>1. ASSUME TypeOK, NEW h \in Handlers, Read(h) \/ Work(h)
        PROVE  TypeOK'
    BY <2>1, ReadTypes, WorkTypes
  <2>2. ASSUME TypeOK, UNCHANGED vars
        PROVE  TypeOK'
    BY <2>2 DEF TypeOK, vars, tables, jobRow, evidence
  <2> QED
    BY <2>1, <2>2 DEF Next
<1> QED
  BY <1>1, <1>2, PTL DEF Spec

-----------------------------------------------------------------------------
(* The decision on a job and the clock *)

\* What no step of one handler may break for the others: the status, the
\* approval row and the sessions of a job agree.
JobInv ==
    /\ NoWorkOnSubmittedJob
    /\ SubmittedJobIsDecidable
    /\ DecisionAgrees

\* These steps leave status, sessions and approval alone.
LEMMA QuietSteps ==
  ASSUME NEW h \in Handlers, Read(h) \/ Work(h)
  PROVE  \/ UNCHANGED <<status, sessions, approval>>
         \/ \E crew \in SUBSET Technicians, start \in BOOLEAN :
               ScheduleCommit(h, crew, start)
         \/ DispatchCommit(h) \/ CancelCommit(h) \/ ClockInCommit(h)
         \/ \E worked \in {0, 1} : ClockOutCommit(h, worked)
         \/ SubmitCommit(h) \/ CompleteCommit(h) \/ ReturnCommit(h)
         \/ ListReset(h)
<1> USE DEF tables, jobRow
<1>1. CASE Read(h)
  BY <1>1 DEF Read, ListRead, ClockOutBegin, ClockInRead, UpdateRead,
     ScheduleRead, DispatchRead, CancelRead, CompleteRead, ReturnRead,
     CaptureRead, ConfirmRead, SignRead, SubmitRead
<1>2. CASE Work(h)
  BY <1>2 DEF Work, UpdateCommit, ClockOutRead, UpdateCompletion, AddRecord,
     RemoveRecord, WriteRecord, ConfirmSync, ConfirmCheck, ConfirmCommit,
     SignCommit, CompleteValidate, ListCheck, Abort
<1> QED
  BY <1>1, <1>2

LEMMA JobInvStep ==
  ASSUME TypeOK, JobInv, NEW h \in Handlers, Read(h) \/ Work(h)
  PROVE  JobInv'
<1> USE DEF Serves, JobInv, NoWorkOnSubmittedJob, SubmittedJobIsDecidable,
            DecisionAgrees
<1> DEFINE j == req[h].job
<1>a. /\ req[h] \in Request
      /\ status \in [Jobs -> JobStatus]
      /\ approval \in [Jobs -> {"NONE", "PENDING", "APPROVED", "RETURNED"}]
      /\ sessions \subseteq SessionRow
  BY DEF TypeOK
<1>b. req[h].op \in {"schedule", "dispatch", "cancel", "submit", "approve",
                     "return", "reset"} => j \in Jobs
  BY <1>a, RequestFields
<1>1. CASE UNCHANGED <<status, sessions, approval>>
  BY <1>1 DEF OpenOn
<1>2. ASSUME NEW crew \in SUBSET Technicians, NEW start \in BOOLEAN,
             ScheduleCommit(h, crew, start)
      PROVE  JobInv'
  <2>1. req[h].seen \in Editable
    BY <1>2, <1>a, RequestFields DEF ScheduleCommit
  <2> QED
    BY <1>2, <1>a, <1>b, <2>1
       DEF ScheduleCommit, SameStatus, Editable, OpenOn
<1>3. CASE DispatchCommit(h)
  <2>1. req[h].seen \in {"SCHEDULED", "DISPATCHED"}
    BY <1>3, <1>a, RequestFields DEF DispatchCommit
  <2> QED
    BY <1>3, <1>a, <1>b, <2>1 DEF DispatchCommit, MoveStatus, SameStatus, OpenOn
<1>4. CASE CancelCommit(h)
  <2>1. req[h].seen \in Editable \ {"PENDING_APPROVAL"}
    BY <1>4, <1>a, RequestFields DEF CancelCommit
  <2> QED
    BY <1>4, <1>a, <1>b, <2>1
       DEF CancelCommit, MoveStatus, SameStatus, Editable, OpenOn
<1>5. CASE ClockInCommit(h)
  <2>1. /\ j # NoJob => status[j] \in Clockable
        /\ approval' = approval
        /\ \A i \in Jobs \ {j} : status'[i] = status[i]
        /\ j \in Jobs => status'[j] = "IN_PROGRESS"
        /\ \A i \in Jobs \ {j} : OpenOn(i)' = OpenOn(i)
    BY <1>5, <1>a, NoJobAssumption
       DEF ClockInCommit, CanClockAgainst, OpenOn
  <2> QED
    BY <1>a, <2>1, NoJobAssumption DEF Clockable, FieldCapture
<1>6. ASSUME NEW worked \in {0, 1}, ClockOutCommit(h, worked)
      PROVE  JobInv'
  <2>1. UNCHANGED <<status, approval>>
    BY <1>6 DEF ClockOutCommit, CloseSession, jobRow
  <2>2. \A i \in Jobs : OpenOn(i) = {} => OpenOn(i)' = {}
    <3> DEFINE closed(s) == [s EXCEPT !.state = "CLOSED", !.minutes = worked]
    <3>1. PICK s \in sessions :
            sessions' = (sessions \ {s}) \cup {closed(s)}
      BY <1>6 DEF ClockOutCommit, CloseSession
    <3>2. closed(s).state # "OPEN"
      <4>1. s \in SessionRow
        BY <1>a
      <4> QED
        BY <4>1 DEF SessionRow
    <3> QED
      BY <3>1, <3>2 DEF OpenOn
  <2> QED
    BY <2>1, <2>2
<1>7. CASE SubmitCommit(h)
  BY <1>7, <1>a, <1>b
     DEF SubmitCommit, WorkTimeClear, EnsurePending, OpenOn
<1>8. ASSUME Serves(h, "approve"), Decide(h, "COMPLETED", "APPROVED")
      PROVE  JobInv'
  BY <1>8, <1>a, <1>b DEF Decide, OpenOn
<1>9. ASSUME Serves(h, "return"), Decide(h, "RETURNED", "RETURNED")
      PROVE  JobInv'
  BY <1>9, <1>a, <1>b DEF Decide, OpenOn
<1>10. CASE ListReset(h)
  BY <1>10, <1>a, <1>b DEF ListReset, OpenOn, jobRow
<1> QED
  BY <1>1, <1>2, <1>3, <1>4, <1>5, <1>6, <1>7, <1>8, <1>9, <1>10, QuietSteps
     DEF CompleteCommit, ReturnCommit

\* No technician is on the clock of a submitted or completed job, a submitted
\* job can be decided, and a recorded decision is the one that was applied:
\* JobInv is inductive on top of the types.
THEOREM JobInvariant == Spec => []JobInv
<1>1. Init => JobInv
  BY DEF Init, JobInv, NoWorkOnSubmittedJob, SubmittedJobIsDecidable,
     DecisionAgrees
<1>2. TypeOK /\ JobInv /\ [Next]_vars => JobInv'
  <2>1. ASSUME JobInv, UNCHANGED vars
        PROVE  JobInv'
    BY <2>1 DEF vars, tables, jobRow, JobInv, NoWorkOnSubmittedJob,
       SubmittedJobIsDecidable, DecisionAgrees, OpenOn
  <2> QED
    BY <2>1, JobInvStep DEF Next
<1> QED
  BY <1>1, <1>2, TypeCorrect, PTL DEF Spec

\* The clock-in that races a submission loses (workTimeBlockers in submit,
\* the recheck under the job lock in clockIn).
THEOREM NoWorkTheorem == Spec => []NoWorkOnSubmittedJob
  BY JobInvariant, PTL DEF JobInv

\* markDecided finds a pending row for every job that awaits a decision.
THEOREM DecidableTheorem == Spec => []SubmittedJobIsDecidable
  BY JobInvariant, PTL DEF JobInv

\* An approval row never records a decision the job did not take.
THEOREM DecisionTheorem == Spec => []DecisionAgrees
  BY JobInvariant, PTL DEF JobInv

-----------------------------------------------------------------------------
(* The clock *)

\* A row keeps its id; a request that is about to close a session names one
\* of its own technician's.  OneOpenSession is inductive only with both.
UniqueIds == \A r, s \in sessions : r.id = s.id => r = s

CloserOwnsSession ==
    \A h \in Handlers : Serves(h, "close") =>
       \E s \in sessions : s.id = req[h].id /\ s.tech = req[h].user

ClockInv ==
    /\ UniqueIds
    /\ CloserOwnsSession
    /\ OneOpenSession
    /\ ClockOutOncePerEvent

\* Sessions change in a clock-in and a clock-out, and a request becomes one
\* that closes a session only in ClockOutRead.
LEMMA ClockQuietSteps ==
  ASSUME TypeOK, NEW h \in Handlers, Read(h) \/ Work(h)
  PROVE  \/ /\ sessions' = sessions /\ clockOuts' = clockOuts
            /\ \E r : r.op # "close" /\ req' = [req EXCEPT ![h] = r]
         \/ ClockOutRead(h) \/ ClockInCommit(h)
         \/ \E worked \in {0, 1} : ClockOutCommit(h, worked)
<1> USE DEF tables, Accept, Continue, Finish, Idle
<1>1. CASE ListRead(h)
  BY <1>1 DEF ListRead
<1>2. ASSUME NEW t \in Technicians, NEW e \in Events \cup {NoEvent},
             ClockOutBegin(h, t, e)
      PROVE  sessions' = sessions /\ clockOuts' = clockOuts
             /\ \E r : r.op # "close" /\ req' = [req EXCEPT ![h] = r]
  BY <1>2 DEF ClockOutBegin
<1>3. ASSUME NEW t \in Technicians, NEW i \in Jobs \cup {NoJob},
             NEW id \in Sessions, ClockInRead(h, t, i, id)
      PROVE  sessions' = sessions /\ clockOuts' = clockOuts
             /\ \E r : r.op # "close" /\ req' = [req EXCEPT ![h] = r]
  BY <1>3 DEF ClockInRead
<1>4. ASSUME NEW i \in Jobs,
             \/ UpdateRead(h, i) \/ ScheduleRead(h, i) \/ DispatchRead(h, i)
             \/ CancelRead(h, i) \/ CompleteRead(h, i) \/ ReturnRead(h, i)
      PROVE  sessions' = sessions /\ clockOuts' = clockOuts
             /\ \E r : r.op # "close" /\ req' = [req EXCEPT ![h] = r]
  <2>1. CASE UpdateRead(h, i)
    BY <2>1 DEF UpdateRead
  <2>2. CASE ScheduleRead(h, i)
    BY <2>2 DEF ScheduleRead
  <2>3. CASE DispatchRead(h, i)
    BY <2>3 DEF DispatchRead
  <2>4. CASE CancelRead(h, i)
    BY <2>4 DEF CancelRead
  <2>5. CASE CompleteRead(h, i)
    BY <2>5 DEF CompleteRead
  <2>6. CASE ReturnRead(h, i)
    BY <2>6 DEF ReturnRead
  <2> QED
    BY <1>4, <2>1, <2>2, <2>3, <2>4, <2>5, <2>6
<1>5. ASSUME NEW i \in Jobs, NEW u \in Actors,
             \/ CaptureRead(h, u, i) \/ ConfirmRead(h, u, i)
             \/ SignRead(h, u, i) \/ SubmitRead(h, u, i)
      PROVE  sessions' = sessions /\ clockOuts' = clockOuts
             /\ \E r : r.op # "close" /\ req' = [req EXCEPT ![h] = r]
  <2>1. CASE CaptureRead(h, u, i)
    BY <2>1 DEF CaptureRead
  <2>2. CASE ConfirmRead(h, u, i)
    BY <2>2 DEF ConfirmRead
  <2>3. CASE SignRead(h, u, i)
    BY <2>3 DEF SignRead
  <2>4. CASE SubmitRead(h, u, i)
    BY <2>4 DEF SubmitRead
  <2> QED
    BY <1>5, <2>1, <2>2, <2>3, <2>4
<1>6. CASE Work(h) /\ Finish(h) /\ sessions' = sessions
             /\ clockOuts' = clockOuts
  BY <1>6
<1>7. CASE ConfirmSync(h) \/ ConfirmCheck(h)
  BY <1>7 DEF ConfirmSync, ConfirmCheck
<1>8. CASE CompleteValidate(h) \/ ListReset(h)
  BY <1>8 DEF CompleteValidate, ListReset
<1>9. ASSUME NEW i \in Jobs, ListCheck(h, i)
      PROVE  sessions' = sessions /\ clockOuts' = clockOuts
             /\ \E r : r.op # "close" /\ req' = [req EXCEPT ![h] = r]
  <2>1. CASE approval[i] = "PENDING"
    BY <1>9, <2>1 DEF ListCheck
  <2>2. CASE approval[i] # "PENDING"
    BY <1>9, <2>2 DEF ListCheck
  <2> QED
    BY <2>1, <2>2
<1>10. Work(h) =>
         \/ Finish(h) /\ sessions' = sessions /\ clockOuts' = clockOuts
         \/ ConfirmSync(h) \/ ConfirmCheck(h) \/ CompleteValidate(h)
         \/ ListReset(h) \/ \E i \in Jobs : ListCheck(h, i)
         \/ ClockOutRead(h) \/ ClockInCommit(h)
         \/ \E worked \in {0, 1} : ClockOutCommit(h, worked)
  BY DEF Work, UpdateCommit, ScheduleCommit, DispatchCommit, CancelCommit,
     MoveStatus, UpdateCompletion, AddRecord, RemoveRecord, WriteRecord,
     ConfirmCommit, SignCommit, SubmitCommit, CompleteCommit, ReturnCommit,
     Decide, Abort
<1> QED
  BY <1>1, <1>2, <1>3, <1>4, <1>5, <1>6, <1>7, <1>8, <1>9, <1>10 DEF Read

LEMMA ClockInvStep ==
  ASSUME TypeOK, ClockInv, NEW h \in Handlers, Read(h) \/ Work(h)
  PROVE  ClockInv'
<1> USE DEF Serves, ClockInv, UniqueIds, CloserOwnsSession, OneOpenSession,
            ClockOutOncePerEvent
<1>a. /\ req \in [Handlers -> Request] /\ req[h] \in Request
      /\ sessions \subseteq SessionRow
  BY DEF TypeOK
<1>1. ASSUME sessions' = sessions, clockOuts' = clockOuts, NEW r, r.op # "close",
             req' = [req EXCEPT ![h] = r]
      PROVE  ClockInv'
  BY <1>1, <1>a
<1>2. CASE ClockOutRead(h)
  <2>1. PICK s \in OpenOf(req[h].user) :
          req' = [req EXCEPT ![h] =
                    [op |-> "close", user |-> req[h].user, id |-> s.id,
                     event |-> req[h].event]]
    BY <1>2 DEF ClockOutRead, Continue
  <2>2. sessions' = sessions /\ clockOuts' = clockOuts
    BY <1>2 DEF ClockOutRead, tables
  <2>3. /\ s \in sessions /\ s.id = req'[h].id /\ s.tech = req'[h].user
        /\ \A x \in Handlers \ {h} : req'[x] = req[x]
    BY <1>a, <2>1 DEF OpenOf
  <2>4. CloserOwnsSession'
    BY <2>2, <2>3
  <2> QED
    BY <2>2, <2>4
<1>3. CASE ClockInCommit(h)
  <2> DEFINE row == [id |-> req[h].id, tech |-> req[h].user,
                     job |-> req[h].job, state |-> "OPEN", minutes |-> 0]
  <2>1. /\ sessions' = sessions \cup {row}
        /\ \A s \in sessions : s.id # req[h].id
        /\ \A s \in sessions : s.tech = req[h].user => s.state # "OPEN"
    BY <1>3 DEF ClockInCommit, MayOpen, KeyFree, OpenOf
  <2>2. req'[h].op # "close" /\ \A x \in Handlers \ {h} : req'[x] = req[x]
    BY <1>3, <1>a DEF ClockInCommit, Finish, Idle
  <2>3. row.id = req[h].id /\ row.tech = req[h].user
    OBVIOUS
  <2>4. UniqueIds'
    BY <2>1, <2>3
  <2>5. CloserOwnsSession'
    BY <2>1, <2>2
  <2>6. OneOpenSession'
    BY <2>1, <2>3
  <2>7. ClockOutOncePerEvent'
    BY <1>3 DEF ClockInCommit
  <2> QED
    BY <2>4, <2>5, <2>6, <2>7
<1>4. ASSUME NEW worked \in {0, 1}, ClockOutCommit(h, worked)
      PROVE  ClockInv'
  <2> DEFINE closed(s) == [s EXCEPT !.state = "CLOSED", !.minutes = worked]
  <2>1. PICK s \in sessions :
          /\ s.id = req[h].id
          /\ sessions' = (sessions \ {s}) \cup {closed(s)}
    BY <1>4 DEF ClockOutCommit, CloseSession, StillOpen, Named
  <2>2. /\ closed(s).id = s.id /\ closed(s).tech = s.tech
        /\ closed(s).state = "CLOSED"
    BY <1>a DEF SessionRow
  <2> HIDE DEF closed
  <2>5. req'[h].op # "close" /\ \A x \in Handlers \ {h} : req'[x] = req[x]
    BY <1>4, <1>a DEF ClockOutCommit, CloseSession, Finish, Idle
  <2>6. UniqueIds'
    BY <2>1, <2>2
  <2>7. CloserOwnsSession'
    BY <2>1, <2>2, <2>5
  <2>8. OneOpenSession'
    BY <2>1, <2>2
  <2>9. ClockOutOncePerEvent'
    <3> DEFINE u == req[h].user
               log == clockOuts[u]
    <3>1. /\ ~ ClosedByEvent(u, req[h].event)
          /\ clockOuts' = [clockOuts EXCEPT ![u] = Append(log, req[h].event)]
      BY <1>4 DEF ClockOutCommit, CloseSession
    <3>2. /\ u \in Technicians /\ log \in Seq(Events \cup {NoEvent})
          /\ req[h].event \in Events \cup {NoEvent}
      BY <1>4, <1>a, RequestFields
         DEF ClockOutCommit, CloseSession, TypeOK
    <3>3. /\ clockOuts'[u] = Append(log, req[h].event)
          /\ \A t \in Technicians \ {u} : clockOuts'[t] = clockOuts[t]
      BY <3>1, <3>2 DEF TypeOK
    <3>4. ASSUME NEW i \in 1 .. Len(clockOuts'[u]),
                 NEW k \in 1 .. Len(clockOuts'[u]),
                 i < k, clockOuts'[u][i] = clockOuts'[u][k],
                 clockOuts'[u][i] # NoEvent
          PROVE  k - i > AuditWindow
      <4>1. CASE k \in 1 .. Len(log)
        BY <3>2, <3>3, <3>4, <4>1
      <4>2. CASE k = Len(log) + 1
        <5>1. /\ i \in 1 .. Len(log)
              /\ log[i] = req[h].event /\ req[h].event # NoEvent
          BY <3>2, <3>3, <3>4, <4>2
        <5> QED
          BY <3>1, <3>2, <4>2, <5>1, WindowAssumption DEF ClosedByEvent
      <4> QED
        BY <3>2, <3>3, <4>1, <4>2
    <3>5. ASSUME NEW t \in Technicians \ {u},
                 NEW i \in 1 .. Len(clockOuts'[t]),
                 NEW k \in 1 .. Len(clockOuts'[t]),
                 i < k, clockOuts'[t][i] = clockOuts'[t][k],
                 clockOuts'[t][i] # NoEvent
          PROVE  k - i > AuditWindow
      BY <3>3, <3>5
    <3> HIDE DEF u
    <3> QED
      BY <3>4, <3>5
  <2> QED
    BY <2>6, <2>7, <2>8, <2>9
<1> QED
  BY <1>1, <1>2, <1>3, <1>4, ClockQuietSteps

THEOREM ClockInvariant == Spec => []ClockInv
<1>1. Init => ClockInv
  BY DEF Init, Serves, Idle, ClockInv, UniqueIds, CloserOwnsSession,
     OneOpenSession, ClockOutOncePerEvent
<1>2. TypeOK /\ ClockInv /\ [Next]_vars => ClockInv'
  <2>1. ASSUME ClockInv, UNCHANGED vars
        PROVE  ClockInv'
    BY <2>1 DEF vars, tables, Serves, ClockInv, UniqueIds, CloserOwnsSession,
       OneOpenSession, ClockOutOncePerEvent
  <2> QED
    BY <2>1, ClockInvStep DEF Next
<1> QED
  BY <1>1, <1>2, TypeCorrect, PTL DEF Spec

\* However many clock-ins are in flight, a technician has one open session.
THEOREM OneOpenTheorem == Spec => []OneOpenSession
  BY ClockInvariant, PTL DEF ClockInv

\* Whatever the number of clock-outs a replay is looked up among, an event
\* that closes two sessions does so with more than that many in between.
THEOREM ClockOutTheorem == Spec => []ClockOutOncePerEvent
  BY ClockInvariant, PTL DEF ClockInv

\* A closed session is never rewritten and none disappears.
THEOREM FinalSessionsTheorem == Spec => ClosedSessionsAreFinal
<1>1. ASSUME TypeOK, ClockInv, NEW h \in Handlers, Read(h) \/ Work(h)
      PROVE  /\ \A s \in sessions : s.state = "CLOSED" => s \in sessions'
             /\ \A s \in sessions : \E r \in sessions' :
                   r.id = s.id /\ r.tech = s.tech /\ r.job = s.job
  <2>1. CASE sessions \subseteq sessions'
    BY <2>1
  <2>2. ASSUME NEW worked \in {0, 1}, ClockOutCommit(h, worked)
        PROVE  /\ \A s \in sessions : s.state = "CLOSED" => s \in sessions'
               /\ \A s \in sessions : \E r \in sessions' :
                     r.id = s.id /\ r.tech = s.tech /\ r.job = s.job
    <3> DEFINE closed(s) == [s EXCEPT !.state = "CLOSED", !.minutes = worked]
    <3>1. PICK s \in sessions :
            /\ s.state = "OPEN"
            /\ sessions' = (sessions \ {s}) \cup {closed(s)}
      BY <2>2 DEF ClockOutCommit, CloseSession, StillOpen, Named
    <3>2. /\ closed(s).id = s.id /\ closed(s).tech = s.tech
          /\ closed(s).job = s.job
      BY DEF TypeOK, SessionRow
    <3> QED
      BY <3>1, <3>2
  <2>3. ClockInCommit(h) \/ ClockOutRead(h) => sessions \subseteq sessions'
    BY DEF ClockInCommit, ClockOutRead, tables
  <2> QED
    BY <1>1, <2>1, <2>2, <2>3, ClockQuietSteps
<1>2. TypeOK /\ ClockInv /\ [Next]_vars =>
        [/\ \A s \in sessions : s.state = "CLOSED" => s \in sessions'
         /\ \A s \in sessions : \E r \in sessions' :
               r.id = s.id /\ r.tech = s.tech /\ r.job = s.job]_vars
  BY <1>1 DEF Next
<1> QED
  BY <1>2, TypeCorrect, ClockInvariant, PTL DEF Spec, ClosedSessionsAreFinal

-----------------------------------------------------------------------------
(* Refinement: every handler step is a step of JobWorkflow or a stutter *)

LEMMA Transitions ==
  /\ "SCHEDULED" \in Workflow!JOB_TRANSITIONS["DRAFT"]
  /\ "DISPATCHED" \in Workflow!JOB_TRANSITIONS["SCHEDULED"]
  /\ "PENDING_APPROVAL" \in Workflow!JOB_TRANSITIONS["IN_PROGRESS"]
  /\ "COMPLETED" \in Workflow!JOB_TRANSITIONS["PENDING_APPROVAL"]
  /\ "RETURNED" \in Workflow!JOB_TRANSITIONS["PENDING_APPROVAL"]
  /\ \A s \in Editable \ {"PENDING_APPROVAL"} :
        "CANCELLED" \in Workflow!JOB_TRANSITIONS[s]
  BY DEF Workflow!JOB_TRANSITIONS, Editable, JobStatus

\* A technician is on the clock of a job when an open row says so.
LEMMA WorkingRow ==
  /\ working = [j \in Jobs |-> {t \in Technicians :
                  \E s \in sessions : /\ s.tech = t /\ s.job = j
                                      /\ s.state = "OPEN"}]
  /\ working' = [j \in Jobs |-> {t \in Technicians :
                   \E s \in sessions' : /\ s.tech = t /\ s.job = j
                                        /\ s.state = "OPEN"}]
<1>1. \A j, t : OpenOf(t) \cap OpenOn(j) # {}
        <=> \E s \in sessions : s.tech = t /\ s.job = j /\ s.state = "OPEN"
  BY DEF OpenOf, OpenOn
<1>2. \A j, t : (OpenOf(t) \cap OpenOn(j) # {})'
        <=> \E s \in sessions' : s.tech = t /\ s.job = j /\ s.state = "OPEN"
  BY DEF OpenOf, OpenOn
<1> QED
  BY <1>1, <1>2 DEF working

LEMMA ClockInStarts ==
  ASSUME TypeOK, NEW h \in Handlers, ClockInCommit(h)
  PROVE  Workflow!Next \/ UNCHANGED <<status, working>>
<1> DEFINE j == req[h].job
           t == req[h].user
           row == [id |-> req[h].id, tech |-> t, job |-> j, state |-> "OPEN",
                   minutes |-> 0]
<1>1. /\ t \in Technicians /\ j \in Jobs \cup {NoJob}
      /\ status \in [Jobs -> JobStatus]
  BY RequestFields DEF TypeOK, ClockInCommit, Serves
<1>2. /\ sessions' = sessions \cup {row}
      /\ \A s \in sessions : s.tech = t => s.state # "OPEN"
  BY DEF ClockInCommit, MayOpen, OpenOf
<1>3. row.tech = t /\ row.job = j /\ row.state = "OPEN"
  OBVIOUS
<1> HIDE DEF row
<1>4. CASE j = NoJob
  <2>1. status' = status
    BY <1>4 DEF ClockInCommit
  <2>2. working' = working
    BY <1>2, <1>3, <1>4, WorkingRow, NoJobAssumption
  <2> QED
    BY <2>1, <2>2
<1>5. CASE j \in Jobs
  <2>1. status' = [status EXCEPT ![j] = "IN_PROGRESS"]
    BY <1>1, <1>5, NoJobAssumption DEF ClockInCommit
  <2>2. status[j] \in Workflow!CLOCKABLE_STATUSES
    BY <1>5, NoJobAssumption
       DEF ClockInCommit, CanClockAgainst, Clockable, FieldCapture,
           Workflow!CLOCKABLE_STATUSES
  <2>3. \A i \in Jobs : t \notin working[i]
    BY <1>2, WorkingRow
  <2>4. working' = [working EXCEPT ![j] = @ \cup {t}]
    <3>1. \A i \in Jobs, x \in Technicians :
            (\E s \in sessions' : s.tech = x /\ s.job = i /\ s.state = "OPEN")
            <=> \/ \E s \in sessions :
                     s.tech = x /\ s.job = i /\ s.state = "OPEN"
                \/ i = j /\ x = t
      BY <1>2, <1>3
    <3>2. \A i \in Jobs : working'[i] =
            IF i = j THEN working[i] \cup {t} ELSE working[i]
      BY <3>1, <1>1, WorkingRow
    <3>3. /\ working = [i \in Jobs |-> working[i]]
          /\ working' = [i \in Jobs |-> working'[i]]
      BY WorkingRow
    <3> QED
      BY <3>2, <3>3, <1>5
  <2>5. Workflow!StartWork(t, j)
    BY <2>1, <2>2, <2>3, <2>4 DEF Workflow!StartWork
  <2> QED
    BY <2>5, <1>1, <1>5 DEF Workflow!Next
<1> QED
  BY <1>1, <1>4, <1>5

LEMMA RowLess ==
  ASSUME NEW S, NEW w, w = [i \in S |-> w[i]], NEW j, NEW t
  PROVE  [w EXCEPT ![j] = w[j] \ {t}]
         = [i \in S |-> IF i = j THEN w[i] \ {t} ELSE w[i]]
OBVIOUS

LEMMA ClockOutStops ==
  ASSUME TypeOK, OneOpenSession, NEW h \in Handlers, NEW worked \in {0, 1},
         ClockOutCommit(h, worked)
  PROVE  Workflow!Next \/ UNCHANGED <<status, working>>
<1> DEFINE closed(s) == [s EXCEPT !.state = "CLOSED", !.minutes = worked]
<1>1. PICK s \in sessions :
        /\ s.state = "OPEN"
        /\ sessions' = (sessions \ {s}) \cup {closed(s)}
  BY DEF ClockOutCommit, CloseSession, StillOpen, Named
<1>2. /\ closed(s).state # "OPEN"
      /\ s.tech \in Technicians /\ s.job \in Jobs \cup {NoJob}
  BY DEF TypeOK, SessionRow
<1> HIDE DEF closed
<1>3. status' = status
  BY DEF ClockOutCommit, CloseSession, jobRow
<1>4. \A i \in Jobs, x \in Technicians :
        (\E r \in sessions' : r.tech = x /\ r.job = i /\ r.state = "OPEN")
        <=> /\ \E r \in sessions : r.tech = x /\ r.job = i /\ r.state = "OPEN"
            /\ ~ (i = s.job /\ x = s.tech)
  BY <1>1, <1>2 DEF OneOpenSession
<1>5. CASE s.job = NoJob
  BY <1>3, <1>4, <1>5, WorkingRow, NoJobAssumption
<1>6. CASE s.job \in Jobs
  <2>1. s.tech \in working[s.job]
    BY <1>1, <1>2, <1>6, WorkingRow
  <2>2. \A i \in Jobs : working'[i] =
          IF i = s.job THEN working[i] \ {s.tech} ELSE working[i]
    BY <1>4, <1>6, WorkingRow
  <2>3. working' = [working EXCEPT ![s.job] = @ \ {s.tech}]
    <3>1. /\ working = [i \in Jobs |-> working[i]]
          /\ working' = [i \in Jobs |-> working'[i]]
      BY WorkingRow
    <3>2. working' = [i \in Jobs |->
            IF i = s.job THEN working[i] \ {s.tech} ELSE working[i]]
      BY <2>2, <3>1, Zenon
    <3> QED
      BY <3>1, <3>2, RowLess
  <2>4. Workflow!StopWork(s.tech, s.job)
    BY <2>1, <2>3, <1>3 DEF Workflow!StopWork
  <2> QED
    BY <2>4, <1>2, <1>6 DEF Workflow!Next
<1> QED
  BY <1>2, <1>5, <1>6

LEMMA WorkflowStep ==
  ASSUME TypeOK, OneOpenSession, NEW h \in Handlers, Read(h) \/ Work(h)
  PROVE  Workflow!Next \/ UNCHANGED <<status, working>>
<1> USE DEF Serves
<1> DEFINE j == req[h].job
<1>a. req[h] \in Request /\ status \in [Jobs -> JobStatus]
  BY DEF TypeOK
<1>b. req[h].op \in {"schedule", "dispatch", "cancel", "submit", "approve",
                     "return", "reset"} => j \in Jobs
  BY <1>a, RequestFields
<1>c. sessions' = sessions => working' = working
  BY WorkingRow
<1>d. ASSUME j \in Jobs, sessions' = sessions,
             NEW to \in {"SCHEDULED", "DISPATCHED", "PENDING_APPROVAL",
                         "COMPLETED", "RETURNED", "CANCELLED"},
             to \in Workflow!JOB_TRANSITIONS[status[j]],
             to = "PENDING_APPROVAL" => working[j] = {},
             status' = [status EXCEPT ![j] = to]
      PROVE  Workflow!Next
  <2>1. Workflow!Move(j, to)
    BY <1>c, <1>d DEF Workflow!Move
  <2> QED
    BY <1>d, <2>1 DEF Workflow!Next
<1>1. CASE UNCHANGED <<status, sessions, approval>>
  BY <1>1, <1>c
<1>2. ASSUME NEW crew \in SUBSET Technicians, NEW start \in BOOLEAN,
             ScheduleCommit(h, crew, start)
      PROVE  Workflow!Next \/ UNCHANGED <<status, working>>
  <2>1. CASE req[h].seen = "DRAFT" /\ start
    BY <1>2, <2>1, <1>b, <1>d, Transitions DEF ScheduleCommit, SameStatus
  <2>2. CASE ~ (req[h].seen = "DRAFT" /\ start)
    BY <1>2, <2>2, <1>a, <1>b, <1>c DEF ScheduleCommit, SameStatus
  <2> QED
    BY <2>1, <2>2
<1>3. CASE DispatchCommit(h)
  <2>1. req[h].seen \in {"SCHEDULED", "DISPATCHED"}
    BY <1>3, <1>a, RequestFields DEF DispatchCommit
  <2>2. CASE req[h].seen = "SCHEDULED"
    BY <1>3, <2>2, <1>b, <1>d, Transitions
       DEF DispatchCommit, MoveStatus, SameStatus
  <2>3. CASE req[h].seen = "DISPATCHED"
    BY <1>3, <2>3, <1>a, <1>b, <1>c DEF DispatchCommit, MoveStatus, SameStatus
  <2> QED
    BY <2>1, <2>2, <2>3
<1>4. CASE CancelCommit(h)
  <2>1. req[h].seen \in Editable \ {"PENDING_APPROVAL"}
    BY <1>4, <1>a, RequestFields DEF CancelCommit
  <2> QED
    BY <1>4, <2>1, <1>b, <1>d, Transitions
       DEF CancelCommit, MoveStatus, SameStatus
<1>5. CASE SubmitCommit(h)
  <2>1. working[j] = {}
    BY <1>5, <1>b, WorkingRow DEF SubmitCommit, WorkTimeClear, OpenOn
  <2> QED
    BY <1>5, <2>1, <1>b, <1>d, Transitions DEF SubmitCommit
<1>6. ASSUME Serves(h, "approve"), Decide(h, "COMPLETED", "APPROVED")
      PROVE  Workflow!Next
  BY <1>6, <1>b, <1>d, Transitions DEF Decide
<1>7. ASSUME Serves(h, "return"), Decide(h, "RETURNED", "RETURNED")
      PROVE  Workflow!Next
  BY <1>7, <1>b, <1>d, Transitions DEF Decide
<1>8. CASE ListReset(h)
  BY <1>8, <1>c DEF ListReset, jobRow
<1> QED
  BY <1>1, <1>2, <1>3, <1>4, <1>5, <1>6, <1>7, <1>8, QuietSteps,
     ClockInStarts, ClockOutStops DEF CompleteCommit, ReturnCommit

\* The handlers implement the status machine: whatever interleaves, the job
\* moves along JOB_TRANSITIONS, is submitted only with nobody on its clock and
\* worked only while it may be.
THEOREM WorkflowRefinement == Spec => FollowsWorkflow
<1>1. Init => Workflow!Init
  BY WorkingRow DEF Init, Workflow!Init
<1>2. TypeOK /\ ClockInv /\ [Next]_vars
        => [Workflow!Next]_<<status, working>>
  <2>1. ASSUME UNCHANGED vars
        PROVE  UNCHANGED <<status, working>>
    BY <2>1, WorkingRow DEF vars, tables, jobRow
  <2> QED
    BY <2>1, WorkflowStep DEF Next, ClockInv
<1> QED
  BY <1>1, <1>2, TypeCorrect, ClockInvariant, PTL
     DEF Spec, FollowsWorkflow, Workflow!Spec

-----------------------------------------------------------------------------
(* Edits of a closed job *)

\* Every request whose copy of a row is still current edits a job that may be
\* edited: a decision or a cancellation makes the copies of its row stale.
FreshCopies ==
    \A x \in current : /\ req[x].op \in {"update", "schedule"}
                       /\ status[req[x].job] \in Editable

\* A step that no editor takes and that makes stale what it must.
LEMMA OtherStep ==
  ASSUME TypeOK, FreshCopies, NEW h \in Handlers, NEW r,
         req[h].op \notin {"update", "schedule"},
         req' = [req EXCEPT ![h] = r], current' \subseteq current,
         \A x \in current' : status[req[x].job] \in Editable
                               => status'[req[x].job] \in Editable
  PROVE  FreshCopies'
<1>1. \A x \in current' : x \in Handlers /\ x # h
  BY DEF TypeOK, FreshCopies
<1>2. \A x \in current' : req'[x] = req[x]
  BY <1>1 DEF TypeOK
<1> QED
  BY <1>2 DEF FreshCopies

\* Writing the row of a job leaves nobody with a current copy of it.
LEMMA RowWritten ==
  ASSUME TypeOK, FreshCopies, NEW h \in Handlers, req[h].job \in Jobs,
         Touch(req[h].job), Finish(h), NEW to \in JobStatus,
         status' = [status EXCEPT ![req[h].job] = to]
  PROVE  FreshCopies'
<1>1. \A x \in current' : /\ x \in current /\ x \in Handlers
                          /\ req[x].job # req[h].job
  BY DEF TypeOK, FreshCopies, Touch
<1>2. \A x \in current' : /\ req'[x] = req[x]
                          /\ req[x].job \in Jobs
  BY <1>1, RequestFields DEF TypeOK, FreshCopies, Finish
<1>3. \A x \in current' : status'[req[x].job] = status[req[x].job]
  BY <1>1, <1>2 DEF TypeOK
<1> QED
  BY <1>1, <1>2, <1>3 DEF FreshCopies

LEMMA EditRead ==
  ASSUME TypeOK, FreshCopies, NEW h \in Handlers, NEW j \in Jobs,
         UpdateRead(h, j) \/ ScheduleRead(h, j)
  PROVE  FreshCopies'
<1>1. PICK r : /\ r.op \in {"update", "schedule"} /\ r.job = j
               /\ req' = [req EXCEPT ![h] = r]
  BY DEF UpdateRead, ScheduleRead, Accept
<1>2. /\ current' = current \cup {h} /\ status' = status
      /\ status[j] \in Editable
  BY DEF UpdateRead, ScheduleRead, tables, jobRow
<1> QED
  BY <1>1, <1>2 DEF TypeOK, FreshCopies

LEMMA FreshRead ==
  ASSUME TypeOK, FreshCopies, NEW h \in Handlers, Read(h)
  PROVE  FreshCopies'
<1> USE DEF Accept, Idle, tables, jobRow
<1>1. ASSUME NEW r, req[h].op = "idle", req' = [req EXCEPT ![h] = r],
             UNCHANGED <<status, current>>
      PROVE  FreshCopies'
  BY <1>1, OtherStep
<1>2. CASE ListRead(h)
  BY <1>1, <1>2 DEF ListRead
<1>3. ASSUME NEW t \in Technicians, NEW e \in Events \cup {NoEvent},
             ClockOutBegin(h, t, e)
      PROVE  FreshCopies'
  <2> DEFINE r == [op |-> "clockOut", user |-> t, event |-> e]
  <2>1. /\ req[h].op = "idle" /\ req' = [req EXCEPT ![h] = r]
        /\ UNCHANGED <<status, current>>
    BY <1>3 DEF ClockOutBegin
  <2> HIDE DEF r
  <2> QED
    BY <2>1, <1>1
<1>4. ASSUME NEW t \in Technicians, NEW j \in Jobs \cup {NoJob},
             NEW id \in Sessions, ClockInRead(h, t, j, id)
      PROVE  FreshCopies'
  <2> DEFINE r == [op |-> "clockIn", job |-> j, user |-> t, id |-> id]
  <2>1. /\ req[h].op = "idle" /\ req' = [req EXCEPT ![h] = r]
        /\ UNCHANGED <<status, current>>
    BY <1>4 DEF ClockInRead
  <2> HIDE DEF r
  <2> QED
    BY <2>1, <1>1
<1>5. ASSUME NEW j \in Jobs,
             \/ DispatchRead(h, j) \/ CancelRead(h, j)
             \/ CompleteRead(h, j) \/ ReturnRead(h, j)
      PROVE  FreshCopies'
  BY <1>1, <1>5 DEF DispatchRead, CancelRead, CompleteRead, ReturnRead
<1>6. ASSUME NEW j \in Jobs, NEW u \in Actors,
             \/ CaptureRead(h, u, j) \/ ConfirmRead(h, u, j)
             \/ SignRead(h, u, j) \/ SubmitRead(h, u, j)
      PROVE  FreshCopies'
  BY <1>1, <1>6 DEF CaptureRead, ConfirmRead, SignRead, SubmitRead
<1> QED
  BY <1>2, <1>3, <1>4, <1>5, <1>6, EditRead DEF Read

LEMMA FreshWork ==
  ASSUME TypeOK, FreshCopies, NEW h \in Handlers, Work(h)
  PROVE  FreshCopies'
<1> USE DEF Serves
<1> DEFINE j == req[h].job
<1>a. /\ req[h] \in Request
      /\ status \in [Jobs -> JobStatus]
      /\ Editable \subseteq JobStatus
  BY DEF TypeOK, Editable
<1>b. req[h].op \in {"update", "schedule", "dispatch", "cancel", "capture",
                     "submit", "approve", "return", "sign"} => j \in Jobs
  BY <1>a, RequestFields
<1>c. ASSUME j \in Jobs, status' = status, Touch(j), Finish(h)
      PROVE  FreshCopies'
  <2>1. status' = [status EXCEPT ![j] = status[j]] /\ status[j] \in JobStatus
    BY <1>a, <1>c
  <2> QED
    BY <1>c, <2>1, RowWritten
<1>d. ASSUME NEW r, req[h].op \notin {"update", "schedule"},
             req' = [req EXCEPT ![h] = r], UNCHANGED <<status, current>>
      PROVE  FreshCopies'
  BY <1>d, OtherStep
<1>1. ASSUME NEW crew \in SUBSET Technicians,
             NEW start \in BOOLEAN, NEW safety \in BOOLEAN,
             NEW signOff \in BOOLEAN,
             UpdateCommit(h, crew, start, safety, signOff)
      PROVE  FreshCopies'
  BY <1>1, <1>b, <1>c DEF UpdateCommit
<1>2. ASSUME NEW crew \in SUBSET Technicians, NEW start \in BOOLEAN,
             ScheduleCommit(h, crew, start)
      PROVE  FreshCopies'
  <2> DEFINE to == IF req[h].seen = "DRAFT" /\ start THEN "SCHEDULED"
                                                     ELSE req[h].seen
  <2>1. to \in JobStatus
    BY <1>2, <1>a, RequestFields DEF ScheduleCommit, JobStatus
  <2>2. /\ status' = [status EXCEPT ![j] = to] /\ Touch(j) /\ Finish(h)
        /\ j \in Jobs
    BY <1>2, <1>b DEF ScheduleCommit
  <2> QED
    BY <2>1, <2>2, RowWritten
<1>3. ASSUME NEW to \in JobStatus, MoveStatus(h, to), j \in Jobs
      PROVE  FreshCopies'
  BY <1>3, RowWritten DEF MoveStatus
<1>4. CASE DispatchCommit(h) \/ CancelCommit(h)
  BY <1>3, <1>4, <1>b DEF DispatchCommit, CancelCommit, JobStatus
<1>5. CASE ClockInCommit(h)
  <2>1. CASE status' = status /\ current' = current
    BY <1>5, <2>1, <1>d DEF ClockInCommit, Finish
  <2>2. CASE /\ status' = [status EXCEPT ![j] = "IN_PROGRESS"]
             /\ Touch(j) /\ j # NoJob
    <3>1. j \in Jobs
      BY <1>5, <2>2, <1>a, RequestFields DEF ClockInCommit
    <3> QED
      BY <1>5, <2>2, <3>1, RowWritten DEF ClockInCommit, JobStatus
  <2> QED
    BY <1>5, <2>1, <2>2 DEF ClockInCommit
<1>6. CASE ClockOutRead(h)
  BY <1>6, <1>d DEF ClockOutRead, Continue, tables, jobRow
<1>7. ASSUME NEW worked \in {0, 1}, ClockOutCommit(h, worked)
      PROVE  FreshCopies'
  BY <1>7, <1>d DEF ClockOutCommit, CloseSession, Finish, jobRow
<1>8. CASE UpdateCompletion(h)
  BY <1>8, <1>b, <1>c DEF UpdateCompletion
<1>9. ASSUME NEW rows, WriteRecord(h, rows)
      PROVE  FreshCopies'
  BY <1>9, <1>d DEF WriteRecord, Finish, jobRow
<1>10. CASE ConfirmSync(h) \/ ConfirmCheck(h) \/ ConfirmCommit(h)
  BY <1>10, <1>d DEF ConfirmSync, ConfirmCheck, ConfirmCommit, Continue,
     Finish, tables, jobRow
<1>11. CASE SignCommit(h)
  BY <1>11, <1>b, <1>c DEF SignCommit, jobRow
<1>12. CASE SubmitCommit(h)
  BY <1>12, <1>b, RowWritten DEF SubmitCommit, JobStatus
<1>13. ASSUME NEW to \in JobStatus, NEW d, Decide(h, to, d), j \in Jobs
       PROVE  FreshCopies'
  BY <1>13, RowWritten DEF Decide
<1>14. CASE CompleteCommit(h) \/ ReturnCommit(h)
  BY <1>13, <1>14, <1>b DEF CompleteCommit, ReturnCommit, JobStatus
<1>15. CASE CompleteValidate(h) \/ ListReset(h)
  BY <1>15, <1>d DEF CompleteValidate, ListReset, Continue, tables, jobRow
<1>16. ASSUME NEW i \in Jobs, ListCheck(h, i)
       PROVE  FreshCopies'
  <2>1. CASE approval[i] = "PENDING"
    BY <1>16, <2>1, <1>d DEF ListCheck, Continue, tables, jobRow
  <2>2. CASE approval[i] # "PENDING"
    BY <1>16, <2>2, <1>d DEF ListCheck, Continue, tables, jobRow
  <2> QED
    BY <2>1, <2>2
<1>17. CASE Abort(h)
  <2>1. \A x \in current' : /\ x \in current /\ x \in Handlers
                            /\ req'[x] = req[x] /\ status' = status
    BY <1>17 DEF TypeOK, Abort, Finish, tables, jobRow
  <2> QED
    BY <2>1 DEF FreshCopies
<1> QED
  BY <1>1, <1>2, <1>4, <1>5, <1>6, <1>7, <1>8, <1>9, <1>10, <1>11, <1>12,
     <1>14, <1>15, <1>16, <1>17 DEF Work, AddRecord, RemoveRecord

THEOREM FreshCopiesInvariant == Spec => []FreshCopies
<1>1. Init => FreshCopies
  BY DEF Init, FreshCopies
<1>2. TypeOK /\ FreshCopies /\ [Next]_vars => FreshCopies'
  <2>1. ASSUME FreshCopies, UNCHANGED vars
        PROVE  FreshCopies'
    BY <2>1 DEF vars, tables, jobRow, FreshCopies
  <2> QED
    BY <2>1, FreshRead, FreshWork DEF Next
<1> QED
  BY <1>1, <1>2, TypeCorrect, PTL DEF Spec

\* No edit and no reassignment reaches a completed or cancelled job, however
\* long ago it read the row.
THEOREM ClosedTermsTheorem == Spec => ClosedJobKeepsItsTerms
<1> DEFINE Kept ==
      \A j \in Jobs : status[j] \in {"COMPLETED", "CANCELLED"} =>
         /\ assigned'[j] = assigned[j]
         /\ {j} \cap planned' = {j} \cap planned
         /\ {j} \cap requireSafety' = {j} \cap requireSafety
         /\ {j} \cap requireSignOff' = {j} \cap requireSignOff
<1>1. ASSUME TypeOK, FreshCopies, NEW h \in Handlers, Read(h) \/ Work(h)
      PROVE  Kept
  <2>1. CASE UNCHANGED <<assigned, planned, requireSafety, requireSignOff>>
    BY <2>1
  <2>2. ASSUME NEW crew \in SUBSET Technicians,
               NEW start \in BOOLEAN, NEW safety \in BOOLEAN,
               NEW signOff \in BOOLEAN,
               UpdateCommit(h, crew, start, safety, signOff)
        PROVE  Kept
    <3>1. status[req[h].job] \in Editable
      BY <2>2, <1>1 DEF UpdateCommit, RowUnchanged, FreshCopies
    <3> QED
      BY <2>2, <3>1, <1>1 DEF UpdateCommit, Set, Editable, TypeOK
  <2>3. ASSUME NEW crew \in SUBSET Technicians, NEW start \in BOOLEAN,
               ScheduleCommit(h, crew, start)
        PROVE  Kept
    <3>1. status[req[h].job] \in Editable
      BY <2>3, <1>1 DEF ScheduleCommit, RowUnchanged, FreshCopies
    <3> QED
      BY <2>3, <3>1, <1>1 DEF ScheduleCommit, Set, Editable, TypeOK
  <2>4. Read(h) => UNCHANGED jobRow
    BY DEF Read, tables, ListRead, ClockOutBegin, ClockInRead, UpdateRead,
       ScheduleRead, DispatchRead, CancelRead, CompleteRead, ReturnRead,
       CaptureRead, ConfirmRead, SignRead, SubmitRead
  <2>5. Work(h) =>
          \/ UNCHANGED <<assigned, planned, requireSafety, requireSignOff>>
          \/ \E crew \in SUBSET Technicians,
                start, safety, signOff \in BOOLEAN :
               UpdateCommit(h, crew, start, safety, signOff)
          \/ \E crew \in SUBSET Technicians, start \in BOOLEAN :
               ScheduleCommit(h, crew, start)
    BY DEF Work, tables, jobRow, DispatchCommit, CancelCommit, MoveStatus,
       ClockInCommit, ClockOutRead, ClockOutCommit, CloseSession,
       UpdateCompletion, AddRecord, RemoveRecord, WriteRecord, ConfirmSync,
       ConfirmCheck, ConfirmCommit, SignCommit, SubmitCommit,
       CompleteValidate, CompleteCommit, ReturnCommit, Decide, ListCheck,
       ListReset, Abort
  <2> QED
    BY <1>1, <2>1, <2>2, <2>3, <2>4, <2>5 DEF jobRow
<1>2. TypeOK /\ FreshCopies /\ [Next]_vars => [Kept]_vars
  BY <1>1 DEF Next
<1> QED
  BY <1>2, TypeCorrect, FreshCopiesInvariant, PTL
     DEF Spec, ClosedJobKeepsItsTerms

-----------------------------------------------------------------------------
(* Evidence *)

\* Records are written by captures only, one job at a time.
LEMMA RecordWriters ==
  ASSUME TypeOK, NEW h \in Handlers, Read(h) \/ Work(h)
  PROVE  \/ records' = records
         \/ /\ Serves(h, "capture")
            /\ \A j \in Jobs : j # req[h].job => records'[j] = records[j]
<1> USE DEF tables, evidence
<1>1. CASE Read(h)
  BY <1>1 DEF Read, ListRead, ClockOutBegin, ClockInRead, UpdateRead,
     ScheduleRead, DispatchRead, CancelRead, CompleteRead, ReturnRead,
     CaptureRead, ConfirmRead, SignRead, SubmitRead
<1>2. ASSUME NEW rows, WriteRecord(h, rows)
      PROVE  /\ Serves(h, "capture")
             /\ \A j \in Jobs : j # req[h].job => records'[j] = records[j]
  BY <1>2 DEF WriteRecord, TypeOK
<1>3. CASE Work(h)
  <2>1. \/ \E r \in Records : AddRecord(h, r) \/ RemoveRecord(h, r)
        \/ records' = records
    BY <1>3 DEF Work, UpdateCommit, ScheduleCommit, DispatchCommit, MoveStatus,
       CancelCommit, ClockInCommit, ClockOutRead, ClockOutCommit,
       CloseSession, UpdateCompletion, ConfirmSync, ConfirmCheck,
       ConfirmCommit, SignCommit, SubmitCommit, CompleteValidate,
       CompleteCommit, ReturnCommit, Decide, ListCheck, ListReset, Abort
  <2> QED
    BY <1>2, <2>1 DEF AddRecord, RemoveRecord
<1> QED
  BY <1>1, <1>3

\* Nothing that a handler does after its first read begins a capture.
LEMMA WorkCapturesNothing ==
  ASSUME TypeOK, NEW h \in Handlers, Work(h)
  PROVE  req'[h].op # "capture"
<1>a. req \in [Handlers -> Request]
  BY DEF TypeOK
<1>1. ASSUME Finish(h) PROVE req'[h].op # "capture"
  BY <1>1, <1>a DEF Finish, Idle
<1>2. ASSUME NEW r, r.op # "capture", Continue(h, r)
      PROVE  req'[h].op # "capture"
  BY <1>2, <1>a DEF Continue
<1>3. ASSUME ClockOutRead(h) PROVE req'[h].op # "capture"
  BY <1>2, <1>3 DEF ClockOutRead
<1>4. ASSUME ConfirmSync(h) \/ ConfirmCheck(h) \/ CompleteValidate(h)
      PROVE  req'[h].op # "capture"
  BY <1>2, <1>4 DEF ConfirmSync, ConfirmCheck, CompleteValidate
<1>5. ASSUME NEW j \in Jobs, ListCheck(h, j) PROVE req'[h].op # "capture"
  <2> DEFINE left == req[h].todo \ {j}
  <2>1. CASE approval[j] = "PENDING"
    <3>1. Continue(h, [op |-> "list", todo |-> left])
      BY <1>5, <2>1 DEF ListCheck
    <3> QED
      BY <1>2, <3>1
  <2>2. CASE approval[j] # "PENDING"
    <3>1. Continue(h, [op |-> "reset", todo |-> left, job |-> j])
      BY <1>5, <2>2 DEF ListCheck
    <3> QED
      BY <1>2, <3>1
  <2> QED
    BY <2>1, <2>2
<1>6. ASSUME ListReset(h) PROVE req'[h].op # "capture"
  BY <1>2, <1>6 DEF ListReset
<1>7. ASSUME ~ ClockOutRead(h), ~ ConfirmSync(h), ~ ConfirmCheck(h),
             ~ CompleteValidate(h), ~ ListReset(h),
             ~ \E j \in Jobs : ListCheck(h, j)
      PROVE  Finish(h)
  BY <1>7 DEF Work, UpdateCommit, ScheduleCommit, DispatchCommit, MoveStatus,
     CancelCommit, ClockInCommit, ClockOutCommit, CloseSession,
     UpdateCompletion, AddRecord, RemoveRecord, WriteRecord, ConfirmCommit,
     SignCommit, SubmitCommit, CompleteCommit, ReturnCommit, Decide, Abort
<1> QED
  BY <1>1, <1>3, <1>4, <1>5, <1>6, <1>7

\* A first read begins a capture only of a job that takes evidence.
LEMMA ReadCapturesInTime ==
  ASSUME TypeOK, NEW h \in Handlers, Read(h), req'[h].op = "capture"
  PROVE  status'[req'[h].job] \in FieldCapture
<1>a. req \in [Handlers -> Request]
  BY DEF TypeOK
<1>1. ASSUME NEW e, NEW r, Accept(h, e, r), r.op # "capture"
      PROVE  FALSE
  BY <1>1, <1>a DEF Accept
<1>2. ASSUME NEW u \in Actors, NEW j \in Jobs, CaptureRead(h, u, j)
      PROVE  status'[req'[h].job] \in FieldCapture
  <2>1. /\ req' = [req EXCEPT ![h] = [op |-> "capture", job |-> j]]
        /\ status' = status /\ status[j] \in FieldCapture
    BY <1>2 DEF CaptureRead, CanFieldCapture, Accept, tables, jobRow
  <2> QED
    BY <2>1, <1>a
<1>3. ~ ListRead(h)
  BY <1>1 DEF ListRead
<1>4. ASSUME NEW t, NEW e, ClockOutBegin(h, t, e) PROVE FALSE
  BY <1>1, <1>4 DEF ClockOutBegin
<1>5. ASSUME NEW t, NEW j, NEW id, ClockInRead(h, t, j, id) PROVE FALSE
  BY <1>1, <1>5 DEF ClockInRead
<1>6. ASSUME NEW j, UpdateRead(h, j) \/ ScheduleRead(h, j) \/ DispatchRead(h, j)
      PROVE  FALSE
  BY <1>1, <1>6 DEF UpdateRead, ScheduleRead, DispatchRead
<1>7. ASSUME NEW j, CancelRead(h, j) \/ CompleteRead(h, j) \/ ReturnRead(h, j)
      PROVE  FALSE
  BY <1>1, <1>7 DEF CancelRead, CompleteRead, ReturnRead
<1>8. ASSUME NEW u, NEW j,
             ConfirmRead(h, u, j) \/ SignRead(h, u, j) \/ SubmitRead(h, u, j)
      PROVE  FALSE
  BY <1>1, <1>8 DEF ConfirmRead, SignRead, SubmitRead
<1> QED
  BY <1>2, <1>3, <1>4, <1>5, <1>6, <1>7, <1>8 DEF Read

\* A request waits while another one takes a step.
LEMMA OthersWait ==
  ASSUME TypeOK, NEW h \in Handlers, Read(h) \/ Work(h),
         NEW x \in Handlers, x # h
  PROVE  req'[x] = req[x]
<1>1. ASSUME NEW r, req' = [req EXCEPT ![h] = r]
      PROVE  req'[x] = req[x]
  BY <1>1 DEF TypeOK
<1>2. \E r : req' = [req EXCEPT ![h] = r]
  BY ClockQuietSteps
     DEF ClockOutRead, ClockInCommit, ClockOutCommit, CloseSession, Continue,
         Finish
<1> QED
  BY <1>1, <1>2

\* A submitted job is completed or returned, and a completed one stays so.
LEMMA SubmittedFate ==
  ASSUME TypeOK, OneOpenSession, NEW h \in Handlers, Read(h) \/ Work(h),
         NEW j \in Jobs, status[j] \in Submitted
  PROVE  \/ status'[j] \in Submitted
         \/ status[j] = "PENDING_APPROVAL" /\ status'[j] = "RETURNED"
<1>a. status \in [Jobs -> JobStatus]
  BY DEF TypeOK
<1>1. ASSUME NEW i \in Jobs, NEW to, Workflow!Move(i, to)
      PROVE  \/ status'[j] \in Submitted
             \/ status[j] = "PENDING_APPROVAL" /\ status'[j] = "RETURNED"
  <2>1. CASE i = j
    BY <1>1, <1>a, <2>1
       DEF Workflow!Move, Workflow!JOB_TRANSITIONS, Submitted
  <2>2. CASE i # j
    BY <1>1, <1>a, <2>2 DEF Workflow!Move
  <2> QED
    BY <2>1, <2>2
<1>2. ASSUME NEW t \in Technicians, NEW i \in Jobs, Workflow!StartWork(t, i)
      PROVE  status'[j] \in Submitted
  BY <1>2, <1>a
     DEF Workflow!StartWork, Workflow!CLOCKABLE_STATUSES, Submitted
<1>3. ASSUME NEW t \in Technicians, NEW i \in Jobs, Workflow!StopWork(t, i)
      PROVE  status'[j] \in Submitted
  BY <1>3 DEF Workflow!StopWork
<1> QED
  BY <1>1, <1>2, <1>3, WorkflowStep DEF Workflow!Next

\* No request begins to write the records of a submitted job, and those that
\* had begun are the only ones that still write them.
LEMMA SealedStep ==
  ASSUME TypeOK, OneOpenSession, NEW h \in Handlers, Read(h) \/ Work(h),
         NEW j \in Jobs, Sealed(j)
  PROVE  /\ records'[j] = records[j]
         /\ \/ Sealed(j)'
            \/ status[j] = "PENDING_APPROVAL" /\ status'[j] = "RETURNED"
<1> USE DEF Serves
<1>1. records'[j] = records[j]
  BY RecordWriters DEF Sealed
<1>2. ASSUME status'[j] \in Submitted, NEW x \in Handlers,
             req'[x].op = "capture", req'[x].job = j
      PROVE  FALSE
  <2>1. x = h
    <3>1. x # h => req'[x] = req[x]
      BY OthersWait
    <3> QED
      BY <1>2, <3>1 DEF Sealed
  <2>2. Read(h)
    BY <1>2, <2>1, WorkCapturesNothing
  <2>3. status'[j] \in FieldCapture
    BY <1>2, <2>1, <2>2, ReadCapturesInTime
  <2> QED
    BY <1>2, <2>3 DEF FieldCapture, Submitted
<1>3. status'[j] \in Submitted => Sealed(j)'
  BY <1>2 DEF Sealed
<1> QED
  BY <1>1, <1>3, SubmittedFate DEF Sealed

\* docs/object-storage.md: work logs, materials and photos are locked after
\* submission, but for the captures that were under way by then
\* (MCJobEvidence), however many requests are served at a time.
THEOREM EvidenceTheorem == Spec => EvidenceSealed
<1>1. ASSUME TypeOK, OneOpenSession, Next, NEW j \in Jobs, Sealed(j)
      PROVE  /\ records'[j] = records[j]
             /\ \/ Sealed(j)'
                \/ status[j] = "PENDING_APPROVAL" /\ status'[j] = "RETURNED"
  BY <1>1, SealedStep DEF Next
<1>2. ASSUME UNCHANGED vars, NEW j \in Jobs, Sealed(j)
      PROVE  records'[j] = records[j] /\ Sealed(j)'
  BY <1>2 DEF Sealed, Serves, vars, tables, jobRow, evidence
<1>3. TypeOK /\ ClockInv /\ [Next]_vars
        => [\A j \in Jobs : Sealed(j) =>
              /\ records'[j] = records[j]
              /\ \/ Sealed(j)'
                 \/ status[j] = "PENDING_APPROVAL" /\ status'[j] = "RETURNED"]_vars
  BY <1>1, <1>2 DEF ClockInv
<1> QED
  BY <1>3, TypeCorrect, ClockInvariant, PTL DEF Spec, EvidenceSealed
=============================================================================
