----------------------------- MODULE TimeReview -----------------------------
(***************************************************************************)
(* Time entries, the overtime authorizations they are charged to and the   *)
(* approval row of each, under concurrent HTTP requests.                   *)
(*                                                                         *)
(* Unlike the job handlers, these lock nothing.  A handler reads the row,  *)
(* checks its status and the technician's other entries, and then writes   *)
(* the row by its id in a transaction; only markDecided and the inbox      *)
(* backfill look at the approval row again.  The write of the row locks it *)
(* until the transaction ends, so one transaction is one action.           *)
(*                                                                         *)
(* SUBMITTED is the old name of PENDING, and no write sets it.  The rules  *)
(* of evaluateTimesheetValidation that look at one request alone (ranges,  *)
(* descriptions, dates, settings) reject it before it has an effect.       *)
(***************************************************************************)
EXTENDS Naturals, FiniteSetsExt

CONSTANTS
    Technicians,
    Entries,         \* ids a TimeEntry may be given (bound)
    Spans,           \* the times somebody may have worked (bound)
    Grants,          \* OvertimeAuthorizations that may be requested (bound)
    Holder, Window, MaxMinutes,  \* whose they are, when, and for how long
    Handlers,        \* requests in flight at the same time (bound)
    Endpoints,       \* the operations clients call in this instance (bound)
    NoGrant          \* of an entry that is not overtime

ASSUME IdAssumption == NoGrant \notin Grants /\ Entries \cap Grants = {}
ASSUME SpanAssumption ==
    /\ Spans \subseteq {s \in [from : Nat, to : Nat] : s.from < s.to}
    /\ Holder \in [Grants -> Technicians]
    /\ Window \in [Grants -> [from : Nat, to : Nat]]
    /\ MaxMinutes \in [Grants -> Nat]
ASSUME HandlerAssumption ==
    IsFiniteSet(Handlers) /\ Handlers \cap Entries = {}

EntryStatus == {"ABSENT", "DRAFT", "PENDING", "APPROVED", "RETURNED",
                "REJECTED"}
GrantStatus == {"ABSENT", "PENDING", "APPROVED", "REJECTED", "CANCELLED"}

Decisions == {"APPROVED", "RETURNED", "REJECTED"}

\* EDITABLE and SUBMITTABLE of the code; the mistake is to let through all
\* that nobody is looking at.
AnyButPending  == EntryStatus \ {"ABSENT", "PENDING"}
EditableStatus == {"DRAFT", "RETURNED"}

\* What counts against a technician's day and against an authorization; the
\* mistake is to forget the entries that went back to the technician.
InReview == {"DRAFT", "PENDING", "APPROVED"}
COUNTED  == InReview \cup {"RETURNED"}

VARIABLES
    status,     \* TimeEntry.status, ABSENT before the row exists
    work,       \* what the entry says: technician, source, span and grant
    grant,      \* OvertimeAuthorization.status
    approval,   \* Approval.status by the id of its subject
    req         \* the request each handler is serving

vars == <<status, work, grant, approval, req>>

Work == [tech : Technicians, source : {"CLOCK", "MANUAL"}, span : Spans,
         charged : Grants \cup {NoGrant}]
NoWork == [source |-> "NONE"]

Subjects == Entries \cup Grants

Idle == [op |-> "idle"]

Request ==
    [op : {"idle"}]
    \cup [op : {"create"}, work : Work]
    \cup [op : {"edit"}, entry : Entries, work : Work, seen : EditableStatus]
    \cup [op : {"submit"}, entry : Entries]
    \cup [op : {"decide"}, entry : Entries, decision : Decisions]
    \cup [op : {"decideGrant"}, grant : Grants,
          decision : {"APPROVED", "REJECTED"}]
    \cup [op : {"cancelGrant"}, grant : Grants]
    \cup [op : {"list"}, todo : SUBSET Subjects]
    \cup [op : {"insert", "reset"}, todo : SUBSET Subjects,
          subject : Subjects]

TypeOK ==
    /\ status \in [Entries -> EntryStatus]
    /\ work \in [Entries -> Work \cup {NoWork}]
    /\ \A e \in Entries : status[e] # "ABSENT" => work[e] \in Work
    /\ grant \in [Grants -> GrantStatus]
    /\ approval \in [Subjects -> {"NONE", "PENDING", "APPROVED", "RETURNED",
                                  "REJECTED", "CANCELLED"}]
    /\ req \in [Handlers -> Request]
    /\ \A h \in Handlers : req[h].op \in {"edit", "submit", "decide"}
                              => status[req[h].entry] # "ABSENT"

-----------------------------------------------------------------------------
(* Helpers *)

Accept(h, endpoint, r) ==
    /\ endpoint \in Endpoints
    /\ req[h] = Idle
    /\ req' = [req EXCEPT ![h] = r]

Serves(h, op) == req[h].op = op
Continue(h, r) == req' = [req EXCEPT ![h] = r]
Finish(h) == req' = [req EXCEPT ![h] = Idle]

Minutes(s) == s.to - s.from
WindowsOverlap(a, b) == a.from < b.to /\ b.from < a.to

Counted(e) == status[e] \in COUNTED

UsedMinutes(g, others) ==
    MapThenSumSet(LAMBDA e : Minutes(work[e].span),
                  {e \in others : Counted(e) /\ work[e].charged = g})

\* evaluateOvertimeAuthorization for work on the grant it names.
Covered(w, others) ==
    LET g == w.charged IN
      /\ grant[g] = "APPROVED"
      /\ Holder[g] = w.tech
      /\ w.span.from >= Window[g].from /\ w.span.to <= Window[g].to
      /\ Minutes(w.span) + UsedMinutes(g, others) <= MaxMinutes[g]

\* Overlap blocks manual time and is only noted on clocked time.
NotBlocked(w, others) ==
    /\ w.source = "MANUAL" =>
         \A e \in others : Counted(e) /\ work[e].tech = w.tech
                             => ~ WindowsOverlap(w.span, work[e].span)
    /\ w.charged # NoGrant => Covered(w, others)

Init ==
    /\ status = [e \in Entries |-> "ABSENT"]
    /\ work = [e \in Entries |-> NoWork]
    /\ grant = [g \in Grants |-> "ABSENT"]
    /\ approval = [x \in Subjects |-> "NONE"]
    /\ req = [h \in Handlers |-> Idle]

-----------------------------------------------------------------------------
(* Time entries *)

Insert(e, w, to) ==
    /\ status[e] = "ABSENT"
    /\ status' = [status EXCEPT ![e] = to]
    /\ work' = [work EXCEPT ![e] = w]
    /\ UNCHANGED <<grant, approval>>

\* The clock-out of JobLifecycle leaves a draft, once per session.
ClockOut(e, w) ==
    /\ "clock" \in Endpoints
    /\ w.source = "CLOCK" /\ w.charged = NoGrant
    /\ Insert(e, w, "DRAFT")
    /\ UNCHANGED req

CreateRead(h, w) ==
    /\ w.source = "MANUAL"
    /\ NotBlocked(w, Entries)
    /\ Accept(h, "create", [op |-> "create", work |-> w])
    /\ UNCHANGED <<status, work, grant, approval>>

\* Born pending, without an approval row.
CreateCommit(h, e) ==
    /\ Serves(h, "create")
    /\ Insert(e, req[h].work, "PENDING")
    /\ Finish(h)

EditRead(h, e, span, g) ==
    /\ status[e] \in EditableStatus
    /\ work[e].source = "MANUAL"
    /\ LET w == [work[e] EXCEPT !.span = span, !.charged = g] IN
         /\ NotBlocked(w, Entries \ {e})
         /\ Accept(h, "edit", [op |-> "edit", entry |-> e, work |-> w,
                               seen |-> status[e]])
    /\ UNCHANGED <<status, work, grant, approval>>

\* By id: neither the status it read nor the approval row is looked at.
EditCommit(h) ==
    /\ Serves(h, "edit")
    /\ LET e == req[h].entry IN
         /\ work' = [work EXCEPT ![e] = req[h].work]
         /\ status' = [status EXCEPT ![e] =
                         IF req[h].seen = "RETURNED" THEN "PENDING"
                                                     ELSE req[h].seen]
    /\ Finish(h)
    /\ UNCHANGED <<grant, approval>>

SubmitRead(h, e) ==
    /\ status[e] \in EditableStatus
    /\ NotBlocked(work[e], Entries \ {e})
    /\ Accept(h, "submit", [op |-> "submit", entry |-> e])
    /\ UNCHANGED <<status, work, grant, approval>>

\* A resubmission reopens the row; the mistake is to keep a decided one.
KeepDecided(row)   == IF row = "NONE" THEN "PENDING" ELSE row
EnsurePending(row) == "PENDING"

SubmitCommit(h) ==
    /\ Serves(h, "submit")
    /\ LET e == req[h].entry IN
         /\ status' = [status EXCEPT ![e] = "PENDING"]
         /\ approval' = [approval EXCEPT ![e] = EnsurePending(@)]
    /\ Finish(h)
    /\ UNCHANGED <<work, grant>>

DecideRead(h, e, decision) ==
    /\ status[e] = "PENDING"
    /\ Accept(h, "decide", [op |-> "decide", entry |-> e,
                            decision |-> decision])
    /\ UNCHANGED <<status, work, grant, approval>>

\* markDecided: a pending row, or one made on the spot, takes the decision;
\* any other makes the transaction throw.  The mistake is where id.
MarkAny(subject)     == subject \in Subjects
MarkDecided(subject) == approval[subject] \in {"NONE", "PENDING"}

DecideCommit(h) ==
    /\ Serves(h, "decide")
    /\ LET e == req[h].entry IN
         /\ MarkDecided(e)
         /\ status' = [status EXCEPT ![e] = req[h].decision]
         /\ approval' = [approval EXCEPT ![e] = req[h].decision]
    /\ Finish(h)
    /\ UNCHANGED <<work, grant>>

-----------------------------------------------------------------------------
(* Overtime authorizations *)

RequestGrant(g) ==
    /\ "overtime" \in Endpoints
    /\ grant[g] = "ABSENT"
    /\ grant' = [grant EXCEPT ![g] = "PENDING"]
    /\ approval' = [approval EXCEPT ![g] = "PENDING"]
    /\ UNCHANGED <<status, work, req>>

DecideGrantRead(h, g, decision) ==
    /\ grant[g] = "PENDING"
    /\ Accept(h, "overtime", [op |-> "decideGrant", grant |-> g,
                              decision |-> decision])
    /\ UNCHANGED <<status, work, grant, approval>>

DecideGrantCommit(h) ==
    /\ Serves(h, "decideGrant")
    /\ LET g == req[h].grant IN
         /\ MarkDecided(g)
         /\ grant' = [grant EXCEPT ![g] = req[h].decision]
         /\ approval' = [approval EXCEPT ![g] = req[h].decision]
    /\ Finish(h)
    /\ UNCHANGED <<status, work>>

CancelGrantRead(h, g) ==
    /\ grant[g] = "PENDING"
    /\ Accept(h, "cancel", [op |-> "cancelGrant", grant |-> g])
    /\ UNCHANGED <<status, work, grant, approval>>

\* markCancelled skips a decided row in silence.
CancelGrantCommit(h) ==
    /\ Serves(h, "cancelGrant")
    /\ LET g == req[h].grant IN
         /\ grant' = [grant EXCEPT ![g] = "CANCELLED"]
         /\ approval' = [approval EXCEPT ![g] =
                           IF @ = "PENDING" THEN "CANCELLED" ELSE @]
    /\ Finish(h)
    /\ UNCHANGED <<status, work>>

-----------------------------------------------------------------------------
(* The inbox backfills a row for everything it read as pending *)

Waiting == {e \in Entries : status[e] = "PENDING"}
           \cup {g \in Grants : grant[g] = "PENDING"}

ListRead(h) ==
    /\ Waiting # {}
    /\ Accept(h, "list", [op |-> "list", todo |-> Waiting])
    /\ UNCHANGED <<status, work, grant, approval>>

ListCheck(h, x) ==
    /\ Serves(h, "list")
    /\ x \in req[h].todo
    /\ LET left == req[h].todo \ {x}
           next(op) == [op |-> op, todo |-> left, subject |-> x] IN
         Continue(h, CASE approval[x] = "PENDING" ->
                            [op |-> "list", todo |-> left]
                       [] approval[x] = "NONE" -> next("insert")
                       [] OTHER -> next("reset"))
    /\ UNCHANGED <<status, work, grant, approval>>

\* The unique key keeps a row that was inserted meanwhile as it is.
ListInsert(h) ==
    /\ Serves(h, "insert")
    /\ approval' = [approval EXCEPT ![req[h].subject] = KeepDecided(@)]
    /\ Continue(h, [op |-> "list", todo |-> req[h].todo])
    /\ UNCHANGED <<status, work, grant>>

\* An update by id, with no guard on the status it read.
ListReset(h) ==
    /\ Serves(h, "reset")
    /\ approval' = [approval EXCEPT ![req[h].subject] = "PENDING"]
    /\ Continue(h, [op |-> "list", todo |-> req[h].todo])
    /\ UNCHANGED <<status, work, grant>>

\* A check that throws, a timeout, a crash, the end of a list.
Abort(h) ==
    /\ req[h] # Idle
    /\ Finish(h)
    /\ UNCHANGED <<status, work, grant, approval>>

-----------------------------------------------------------------------------
EntryStep(h) ==
    \/ \E w \in Work : CreateRead(h, w)
    \/ \E e \in Entries :
         \/ CreateCommit(h, e) \/ SubmitRead(h, e)
         \/ \E span \in Spans, g \in Grants \cup {NoGrant} :
              EditRead(h, e, span, g)
         \/ \E d \in Decisions : DecideRead(h, e, d)
    \/ EditCommit(h) \/ SubmitCommit(h) \/ DecideCommit(h)

GrantStep(h) ==
    \/ \E g \in Grants :
         \/ CancelGrantRead(h, g)
         \/ \E d \in {"APPROVED", "REJECTED"} : DecideGrantRead(h, g, d)
    \/ DecideGrantCommit(h) \/ CancelGrantCommit(h)

InboxStep(h) ==
    \/ ListRead(h)
    \/ \E x \in Subjects : ListCheck(h, x)
    \/ ListInsert(h) \/ ListReset(h)

Next ==
    \/ \E e \in Entries, w \in Work : ClockOut(e, w)
    \/ \E g \in Grants : RequestGrant(g)
    \/ \E h \in Handlers :
         EntryStep(h) \/ GrantStep(h) \/ InboxStep(h) \/ Abort(h)

Spec == Init /\ [][Next]_vars

-----------------------------------------------------------------------------
(* What must hold *)

Booked(e) == status[e] \notin {"ABSENT", "REJECTED"}

\* The decision on record is the one the entry or the authorization carries,
\* whatever approvers, resubmissions and the inbox do at the same time.  A
\* cancellation that read an authorization as pending may follow a decision,
\* and leaves it on record.
DecisionRecorded ==
    /\ \A e \in Entries :
         approval[e] \notin {"NONE", "PENDING"} => approval[e] = status[e]
    /\ \A g \in Grants :
         approval[g] \notin {"NONE", "PENDING"}
           => grant[g] \in {approval[g], "CANCELLED"}

\* Of the approvers who opened the same overtime request one decides (the
\* count of markDecided).  Nothing replaces the decision but a cancellation
\* that was under way already, and nothing replaces that.
GrantDecidedOnce ==
    [][\A g \in Grants : grant[g] \notin {"ABSENT", "PENDING"}
                           => grant'[g] \in {grant[g], "CANCELLED"}]_vars

\* docs/overtime.md: an authorization must be approved before it can cover an
\* entry.  Overtime that counts is charged to one of its own technician that
\* was approved, and stays so on record, even when the entry was checked long
\* before it was written and the authorization was cancelled in between.
OvertimeWasApproved ==
    \A e \in Entries : Booked(e) /\ work[e].charged # NoGrant =>
      LET g == work[e].charged IN
        /\ approval[g] = "APPROVED" /\ grant[g] \in {"APPROVED", "CANCELLED"}
        /\ Holder[g] = work[e].tech

\* Approved or rejected time is final as soon as the requests about it that
\* were under way are over: nobody takes it up again.
Settled(e) ==
    /\ status[e] \in {"APPROVED", "REJECTED"}
    /\ \A h \in Handlers : req[h].op \in {"edit", "submit", "decide"}
                             => req[h].entry # e
SettledTimeIsFinal ==
    [][\A e \in Entries : Settled(e) =>
         /\ Settled(e)'
         /\ status'[e] = status[e] /\ work'[e] = work[e]]_vars

LinkedMinutes(g) ==
    MapThenSumSet(LAMBDA e : Minutes(work[e].span),
                  {e \in Entries : Booked(e) /\ work[e].charged = g})
BookedAt(t, x) ==
    {e \in Entries : /\ Booked(e)
                     /\ work[e].source = "MANUAL" /\ work[e].tech = t
                     /\ work[e].span.from <= x /\ x < work[e].span.to}

\* Each request sums the minutes used before it writes, so as many requests
\* as are served at a time may each use up an authorization, and no more: the
\* cap is never passed by a larger factor, over any history of entries that
\* are edited, returned, rejected and submitted again.
CapPerRequest ==
    \A g \in Grants :
       LinkedMinutes(g) <= Cardinality(Handlers) * MaxMinutes[g]

\* Likewise nobody is booked at one instant more often than requests are
\* served at a time.  The start of a shift is the instant to look at: spans
\* that meet pairwise have one in common.
BookedPerRequest ==
    \A t \in Technicians, s \in Spans :
       Cardinality(BookedAt(t, s.from)) <= Cardinality(Handlers)

\* docs/overtime.md: maxMinutes is a hard cap across all linked entries.
OvertimeWithinCap == \A g \in Grants : LinkedMinutes(g) <= MaxMinutes[g]

\* docs/timesheets.md: OVERLAP blocks manual time.
NoDoubleBooking ==
    \A t \in Technicians, s \in Spans : Cardinality(BookedAt(t, s.from)) <= 1

\* docs/approvals.md: the update on PENDING keeps a double decide from
\* applying twice; a decision is not followed by another one.
DecidedOnce ==
    [][\A e \in Entries : status[e] \in Decisions /\ status'[e] \in Decisions
                            => status'[e] = status[e]]_vars

\* timesheets.service.ts: only draft or returned entries can be edited.
ApprovedHoursStand ==
    [][\A e \in Entries : status[e] = "APPROVED" => work'[e] = work[e]]_vars

\* docs/approvals.md: a resubmission after a return resets the row to PENDING,
\* so that markDecided accepts a decision on every pending entry.  The edit
\* of a returned entry makes it pending too, and leaves its row as it was.
PendingEntryIsDecidable ==
    \A e \in Entries : status[e] = "PENDING" => MarkDecided(e)
=============================================================================
