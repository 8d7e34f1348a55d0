-------------------------- MODULE TimeReviewProofs --------------------------
(***************************************************************************)
(* What TimeReview guarantees for any technicians, entries and             *)
(* authorizations and any number of requests.  Some theorems need that     *)
(* some endpoints are not called: README says what breaks without that.    *)
(***************************************************************************)
EXTENDS TimeReview, FiniteSetTheorems, WellFoundedInduction, TLAPS

\* What a request carries, by the operation it serves.
LEMMA RequestFields ==
  ASSUME NEW r \in Request
  PROVE  /\ r.op = "create" => r.work \in Work
         /\ r.op = "edit" => /\ r.entry \in Entries /\ r.work \in Work
                             /\ r.seen \in EditableStatus
         /\ r.op = "submit" => r.entry \in Entries
         /\ r.op = "decide" => r.entry \in Entries /\ r.decision \in Decisions
         /\ r.op = "decideGrant" => /\ r.grant \in Grants
                                    /\ r.decision \in {"APPROVED", "REJECTED"}
         /\ r.op = "cancelGrant" => r.grant \in Grants
         /\ r.op \in {"list", "insert", "reset"} => r.todo \in SUBSET Subjects
         /\ r.op \in {"insert", "reset"} => r.subject \in Subjects
  BY DEF Request

\* Rows are not deleted: what another request read still exists.
OthersKeepRows ==
    \A e \in Entries : status[e] # "ABSENT" => status'[e] # "ABSENT"

\* A step that changes no table keeps the types as long as it keeps a request.
LEMMA ReadKeepsTypes ==
  ASSUME TypeOK, UNCHANGED <<status, work, grant, approval>>,
         NEW h \in Handlers, NEW r \in Request,
         r.op \in {"edit", "submit", "decide"} => status[r.entry] # "ABSENT",
         req' = [req EXCEPT ![h] = r]
  PROVE  TypeOK'
<1>1. req' \in [Handlers -> Request]
  BY DEF TypeOK
<1>2. \A x \in Handlers : req'[x].op \in {"edit", "submit", "decide"}
                            => status'[req'[x].entry] # "ABSENT"
  BY DEF TypeOK
<1> QED
  BY <1>1, <1>2 DEF TypeOK

LEMMA IdleIsRequest == Idle \in Request /\ Idle.op = "idle"
  BY DEF Idle, Request

\* A request that writes and ends keeps the types of the requests.
LEMMA FinishTypes ==
  ASSUME TypeOK, NEW h \in Handlers, Finish(h), OthersKeepRows
  PROVE  /\ req' \in [Handlers -> Request]
         /\ \A x \in Handlers : req'[x].op \in {"edit", "submit", "decide"}
                                  => status'[req'[x].entry] # "ABSENT"
<1>1. \A x \in Handlers : req[x].op \in {"edit", "submit", "decide"}
                            => req[x].entry \in Entries
  BY RequestFields DEF TypeOK
<1>2. req' = [req EXCEPT ![h] = Idle] /\ req \in [Handlers -> Request]
  BY DEF Finish, TypeOK
<1>3. \A x \in Handlers : req'[x] = IF x = h THEN Idle ELSE req[x]
  BY <1>2
<1>4. req' \in [Handlers -> Request]
  BY <1>2, IdleIsRequest
<1> QED
  BY <1>1, <1>3, <1>4, IdleIsRequest DEF TypeOK, OthersKeepRows

LEMMA InsertTypes ==
  ASSUME TypeOK, NEW e \in Entries, NEW w \in Work,
         NEW to \in EntryStatus \ {"ABSENT"}, Insert(e, w, to),
         req' \in [Handlers -> Request],
         \A x \in Handlers : req'[x].op \in {"edit", "submit", "decide"}
                               => status'[req'[x].entry] # "ABSENT"
  PROVE  TypeOK'
  BY DEF Insert, TypeOK

LEMMA EntryTypes ==
  ASSUME TypeOK, NEW h \in Handlers, EntryStep(h)
  PROVE  TypeOK'
<1> USE DEF Serves, Accept
<1>a. /\ req[h] \in Request
      /\ status \in [Entries -> EntryStatus]
  BY DEF TypeOK
<1>b. /\ req[h].op \in {"edit", "submit", "decide"}
           => /\ req[h].entry \in Entries
              /\ status[req[h].entry] # "ABSENT"
              /\ work[req[h].entry] \in Work
  BY <1>a, RequestFields DEF TypeOK
<1>1. ASSUME NEW w \in Work, CreateRead(h, w)
      PROVE  TypeOK'
  <2>1. [op |-> "create", work |-> w] \in Request
    BY DEF Request
  <2> QED
    BY <1>1, <2>1, ReadKeepsTypes DEF CreateRead
<1>2. ASSUME NEW e \in Entries, CreateCommit(h, e)
      PROVE  TypeOK'
  <2>1. /\ req[h].work \in Work
        /\ "PENDING" \in EntryStatus \ {"ABSENT"}
    BY <1>2, <1>a, RequestFields DEF CreateCommit, EntryStatus
  <2>2. Insert(e, req[h].work, "PENDING") /\ Finish(h) /\ OthersKeepRows
    BY <1>2, <1>a DEF CreateCommit, Insert, OthersKeepRows
  <2> QED
    BY <2>1, <2>2, FinishTypes, InsertTypes
<1>3. ASSUME NEW e \in Entries, SubmitRead(h, e)
      PROVE  TypeOK'
  <2>1. [op |-> "submit", entry |-> e] \in Request
    BY DEF Request
  <2>2. status[e] # "ABSENT"
    BY <1>3 DEF SubmitRead, EditableStatus
  <2> QED
    BY <1>3, <2>1, <2>2, ReadKeepsTypes DEF SubmitRead
<1>4. ASSUME NEW e \in Entries, NEW span \in Spans,
             NEW g \in Grants \cup {NoGrant}, EditRead(h, e, span, g)
      PROVE  TypeOK'
  <2> DEFINE w == [work[e] EXCEPT !.span = span, !.charged = g]
             r == [op |-> "edit", entry |-> e, work |-> w, seen |-> status[e]]
  <2>1. status[e] \in EditableStatus
    BY <1>4 DEF EditRead
  <2>2. status[e] # "ABSENT" /\ work[e] \in Work
    BY <2>1 DEF TypeOK, EditableStatus
  <2>3. w \in Work
    BY <2>2 DEF Work
  <2>4. req' = [req EXCEPT ![h] = r]
    BY <1>4 DEF EditRead
  <2> HIDE DEF w
  <2>5. r \in Request /\ r.entry = e
    BY <2>1, <2>3 DEF Request
  <2> HIDE DEF r
  <2> QED
    BY <1>4, <2>2, <2>4, <2>5, ReadKeepsTypes DEF EditRead
<1>5. ASSUME NEW e \in Entries, NEW d \in Decisions, DecideRead(h, e, d)
      PROVE  TypeOK'
  <2>1. [op |-> "decide", entry |-> e, decision |-> d] \in Request
    BY DEF Request
  <2> QED
    BY <1>5, <2>1, ReadKeepsTypes DEF DecideRead
<1>6. CASE EditCommit(h)
  <2> DEFINE e == req[h].entry
             to == IF req[h].seen = "RETURNED" THEN "PENDING" ELSE req[h].seen
  <2>1. /\ e \in Entries /\ req[h].work \in Work
        /\ to \in EntryStatus \ {"ABSENT"}
    BY <1>6, <1>a, RequestFields DEF EditCommit, EditableStatus, EntryStatus
  <2>2. /\ status' = [status EXCEPT ![e] = to]
        /\ work' = [work EXCEPT ![e] = req[h].work]
        /\ UNCHANGED <<grant, approval>> /\ Finish(h)
    BY <1>6 DEF EditCommit
  <2> HIDE DEF to
  <2>3. OthersKeepRows
    BY <2>1, <2>2, <1>a DEF OthersKeepRows
  <2>4. /\ req' \in [Handlers -> Request]
        /\ \A x \in Handlers : req'[x].op \in {"edit", "submit", "decide"}
                                 => status'[req'[x].entry] # "ABSENT"
    BY <2>2, <2>3, FinishTypes
  <2> QED
    BY <2>1, <2>2, <2>4 DEF TypeOK
<1>7. ASSUME NEW to \in {"PENDING"} \cup Decisions,
             NEW row \in {"PENDING"} \cup Decisions,
             req[h].op \in {"submit", "decide"},
             status' = [status EXCEPT ![req[h].entry] = to],
             approval' = [approval EXCEPT ![req[h].entry] = row],
             Finish(h), UNCHANGED <<work, grant>>
      PROVE  TypeOK'
  <2>1. to \in EntryStatus \ {"ABSENT"} /\ req[h].entry \in Subjects
    BY <1>7, <1>b DEF EntryStatus, Decisions, Subjects
  <2>2. OthersKeepRows
    BY <1>7, <2>1, <1>a DEF OthersKeepRows
  <2>3. /\ req' \in [Handlers -> Request]
        /\ \A x \in Handlers : req'[x].op \in {"edit", "submit", "decide"}
                                 => status'[req'[x].entry] # "ABSENT"
    BY <1>7, <2>2, FinishTypes
  <2>4. approval' \in [Subjects -> {"NONE", "PENDING", "APPROVED", "RETURNED",
                                    "REJECTED", "CANCELLED"}]
    BY <1>7, <2>1 DEF TypeOK, Decisions
  <2>5. /\ status' \in [Entries -> EntryStatus]
        /\ \A e \in Entries : status'[e] # "ABSENT" => work'[e] \in Work
    BY <1>7, <1>b, <2>1 DEF TypeOK
  <2> QED
    BY <1>7, <2>3, <2>4, <2>5 DEF TypeOK
<1>8. CASE SubmitCommit(h)
  BY <1>7, <1>8 DEF SubmitCommit, EnsurePending
<1>9. CASE DecideCommit(h)
  BY <1>7, <1>9, <1>a, RequestFields DEF DecideCommit
<1> QED
  BY <1>1, <1>2, <1>3, <1>4, <1>5, <1>6, <1>8, <1>9 DEF EntryStep

LEMMA OtherTypes ==
  ASSUME TypeOK, NEW h \in Handlers,
         GrantStep(h) \/ InboxStep(h) \/ Abort(h)
  PROVE  TypeOK'
<1> USE DEF Serves, Accept
<1>a. req[h] \in Request
  BY DEF TypeOK
<1>1. ASSUME NEW g \in Grants, CancelGrantRead(h, g)
      PROVE  TypeOK'
  <2>1. [op |-> "cancelGrant", grant |-> g] \in Request
    BY DEF Request
  <2> QED
    BY <1>1, <2>1, ReadKeepsTypes DEF CancelGrantRead
<1>2. ASSUME NEW g \in Grants, NEW d \in {"APPROVED", "REJECTED"},
             DecideGrantRead(h, g, d)
      PROVE  TypeOK'
  <2>1. [op |-> "decideGrant", grant |-> g, decision |-> d] \in Request
    BY DEF Request
  <2> QED
    BY <1>2, <2>1, ReadKeepsTypes DEF DecideGrantRead
<1>3. ASSUME UNCHANGED <<status, work>>, Finish(h),
             grant' \in [Grants -> GrantStatus],
             approval' \in [Subjects -> {"NONE", "PENDING", "APPROVED",
                                         "RETURNED", "REJECTED", "CANCELLED"}]
      PROVE  TypeOK'
  <2>1. OthersKeepRows
    BY <1>3 DEF OthersKeepRows
  <2>2. /\ req' \in [Handlers -> Request]
        /\ \A x \in Handlers : req'[x].op \in {"edit", "submit", "decide"}
                                 => status'[req'[x].entry] # "ABSENT"
    BY <1>3, <2>1, FinishTypes
  <2> QED
    BY <1>3, <2>2 DEF TypeOK
<1>4. CASE DecideGrantCommit(h)
  BY <1>3, <1>4, <1>a, RequestFields
     DEF DecideGrantCommit, TypeOK, GrantStatus, Subjects
<1>5. CASE CancelGrantCommit(h)
  BY <1>3, <1>5, <1>a, RequestFields
     DEF CancelGrantCommit, TypeOK, GrantStatus, Subjects
<1>6. CASE ListRead(h)
  <2>1. Waiting \subseteq Subjects
    BY DEF Waiting, Subjects
  <2>2. [op |-> "list", todo |-> Waiting] \in Request
    BY <2>1 DEF Request
  <2> HIDE DEF Waiting
  <2> QED
    BY <1>6, <2>2, ReadKeepsTypes DEF ListRead
<1>7. ASSUME NEW x \in Subjects, ListCheck(h, x)
      PROVE  TypeOK'
  <2> DEFINE left == req[h].todo \ {x}
  <2>1. left \in SUBSET Subjects
    BY <1>7, <1>a, RequestFields DEF ListCheck
  <2>2. /\ [op |-> "list", todo |-> left] \in Request
        /\ [op |-> "insert", todo |-> left, subject |-> x] \in Request
        /\ [op |-> "reset", todo |-> left, subject |-> x] \in Request
    BY <2>1 DEF Request
  <2> QED
    BY <1>7, <2>2, ReadKeepsTypes DEF ListCheck, Continue
<1>8. CASE ListInsert(h) \/ ListReset(h)
  <2> DEFINE r == [op |-> "list", todo |-> req[h].todo]
  <2>1. r \in Request /\ r.op = "list"
    BY <1>8, <1>a, RequestFields DEF ListInsert, ListReset, Request
  <2>2. /\ UNCHANGED <<status, work, grant>>
        /\ req' = [req EXCEPT ![h] = r]
        /\ req[h].subject \in Subjects
    BY <1>8, <1>a, RequestFields DEF ListInsert, ListReset, Continue
  <2>3. approval' \in [Subjects -> {"NONE", "PENDING", "APPROVED", "RETURNED",
                                    "REJECTED", "CANCELLED"}]
    BY <1>8, <2>2 DEF ListInsert, ListReset, KeepDecided, TypeOK
  <2> HIDE DEF r
  <2>4. /\ req' \in [Handlers -> Request]
        /\ \A x \in Handlers : req'[x].op \in {"edit", "submit", "decide"}
                                 => status'[req'[x].entry] # "ABSENT"
    BY <2>1, <2>2 DEF TypeOK
  <2> QED
    BY <2>2, <2>3, <2>4 DEF TypeOK
<1>9. CASE Abort(h)
  BY <1>3, <1>9 DEF Abort, TypeOK
<1> QED
  BY <1>1, <1>2, <1>4, <1>5, <1>6, <1>7, <1>8, <1>9 DEF GrantStep, InboxStep

LEMMA TypeStep ==
  ASSUME TypeOK, [Next]_vars
  PROVE  TypeOK'
<1>1. ASSUME NEW e \in Entries, NEW w \in Work, ClockOut(e, w)
      PROVE  TypeOK'
  <2>1. /\ Insert(e, w, "DRAFT") /\ req' = req
        /\ "DRAFT" \in EntryStatus \ {"ABSENT"}
    BY <1>1 DEF ClockOut, EntryStatus
  <2>2. \A x \in Handlers : req'[x].op \in {"edit", "submit", "decide"}
                              => status'[req'[x].entry] # "ABSENT"
    <3>1. \A x \in Handlers : req[x].op \in {"edit", "submit", "decide"}
                                => req[x].entry \in Entries
      BY RequestFields DEF TypeOK
    <3> QED
      BY <2>1, <3>1 DEF Insert, TypeOK
  <2>3. req' \in [Handlers -> Request]
    BY <2>1 DEF TypeOK
  <2> QED
    BY <2>1, <2>2, <2>3, InsertTypes
<1>2. ASSUME NEW g \in Grants, RequestGrant(g)
      PROVE  TypeOK'
  BY <1>2 DEF RequestGrant, TypeOK, GrantStatus, Subjects
<1>3. ASSUME UNCHANGED vars
      PROVE  TypeOK'
  BY <1>3 DEF TypeOK, vars
<1> QED
  BY <1>1, <1>2, <1>3, EntryTypes, OtherTypes DEF Next

\* Every row holds values of its type and every request in flight is one a
\* handler can be serving, about a row that exists.
THEOREM TypeCorrect == Spec => []TypeOK
<1>1. Init => TypeOK
  BY IdleIsRequest DEF Init, TypeOK, EntryStatus, GrantStatus
<1>2. TypeOK /\ [Next]_vars => TypeOK'
  BY TypeStep
<1> QED
  BY <1>1, <1>2, PTL DEF Spec

-----------------------------------------------------------------------------
(* How a step changes the requests *)

\* What h may do next: a request of an endpoint nobody calls does not appear,
\* and one that will write the time of an entry has read, in this step, that
\* it may.
Allowed(h, r) ==
    /\ r.op = "edit" => "edit" \in Endpoints
    /\ r.op \in {"list", "insert", "reset"} =>
         "list" \in Endpoints \/ req[h].op \in {"list", "insert", "reset"}
    /\ r.op = "create" => /\ r.work.source = "MANUAL"
                          /\ NotBlocked(r.work, Entries)
    /\ r.op = "edit" => /\ r.work.source = "MANUAL"
                        /\ NotBlocked(r.work, Entries \ {r.entry})
    /\ r.op \in {"edit", "submit"} => status[r.entry] \in EditableStatus
    /\ r.op = "decide" => status[r.entry] = "PENDING"
    /\ r.op = "cancelGrant" => grant[r.grant] = "PENDING"
    /\ r.op \in {"create", "edit", "submit", "decide"} =>
         /\ req[h] = Idle
         /\ UNCHANGED <<status, work, grant, approval>>

LEMMA RequestStep ==
  ASSUME TypeOK, NEW h \in Handlers,
         EntryStep(h) \/ GrantStep(h) \/ InboxStep(h) \/ Abort(h)
  PROVE  \E r : req' = [req EXCEPT ![h] = r] /\ Allowed(h, r)
<1> DEFINE P == \E r : req' = [req EXCEPT ![h] = r] /\ Allowed(h, r)
<1> USE DEF Accept, Serves, Continue
<1>0. ASSUME NEW r, req' = [req EXCEPT ![h] = r], Allowed(h, r)
      PROVE  P
  BY <1>0
<1> HIDE DEF P
<1>1. ASSUME NEW w \in Work, CreateRead(h, w)
      PROVE  P
  <2> DEFINE r == [op |-> "create", work |-> w]
  <2>1. req' = [req EXCEPT ![h] = r] /\ Allowed(h, r)
    BY <1>1 DEF CreateRead, Allowed
  <2> HIDE DEF r
  <2> QED
    BY <1>0, <2>1
<1>2. ASSUME NEW e \in Entries, NEW span \in Spans,
             NEW g \in Grants \cup {NoGrant}, EditRead(h, e, span, g)
      PROVE  P
  <2> DEFINE w == [work[e] EXCEPT !.span = span, !.charged = g]
             r == [op |-> "edit", entry |-> e, work |-> w, seen |-> status[e]]
  <2>1. /\ NotBlocked(w, Entries \ {e}) /\ "edit" \in Endpoints
        /\ status[e] \in EditableStatus /\ work[e].source = "MANUAL"
        /\ req[h] = Idle /\ req' = [req EXCEPT ![h] = r]
        /\ UNCHANGED <<status, work, grant, approval>>
    BY <1>2 DEF EditRead
  <2>2. w.source = "MANUAL"
    BY <2>1 DEF TypeOK, EditableStatus, Work
  <2> HIDE DEF w
  <2>3. Allowed(h, r)
    BY <2>1, <2>2 DEF Allowed
  <2> HIDE DEF r
  <2> QED
    BY <1>0, <2>1, <2>3
<1>3. ASSUME NEW e \in Entries, SubmitRead(h, e)
      PROVE  P
  <2> DEFINE r == [op |-> "submit", entry |-> e]
  <2>1. req' = [req EXCEPT ![h] = r] /\ Allowed(h, r)
    BY <1>3 DEF SubmitRead, Allowed
  <2> QED
    BY <1>0, <2>1
<1>4. ASSUME NEW e \in Entries, NEW d \in Decisions, DecideRead(h, e, d)
      PROVE  P
  <2> DEFINE r == [op |-> "decide", entry |-> e, decision |-> d]
  <2>1. req' = [req EXCEPT ![h] = r] /\ Allowed(h, r)
    BY <1>4 DEF DecideRead, Allowed
  <2> QED
    BY <1>0, <2>1
<1>5. ASSUME NEW g \in Grants, CancelGrantRead(h, g)
      PROVE  P
  <2> DEFINE r == [op |-> "cancelGrant", grant |-> g]
  <2>1. req' = [req EXCEPT ![h] = r] /\ Allowed(h, r)
    BY <1>5 DEF CancelGrantRead, Allowed
  <2> QED
    BY <1>0, <2>1
<1>6. ASSUME NEW g \in Grants, NEW d \in {"APPROVED", "REJECTED"},
             DecideGrantRead(h, g, d)
      PROVE  P
  <2> DEFINE r == [op |-> "decideGrant", grant |-> g, decision |-> d]
  <2>1. req' = [req EXCEPT ![h] = r] /\ Allowed(h, r)
    BY <1>6 DEF DecideGrantRead, Allowed
  <2> QED
    BY <1>0, <2>1
<1>7. ASSUME ListRead(h)
      PROVE  P
  <2> DEFINE r == [op |-> "list", todo |-> Waiting]
  <2>1. req' = [req EXCEPT ![h] = r] /\ Allowed(h, r)
    BY <1>7 DEF ListRead, Allowed
  <2> QED
    BY <1>0, <2>1
<1>8. ASSUME NEW x \in Subjects, ListCheck(h, x)
      PROVE  P
  <2> DEFINE left == req[h].todo \ {x}
             skip == [op |-> "list", todo |-> left]
             insert == [op |-> "insert", todo |-> left, subject |-> x]
             reset == [op |-> "reset", todo |-> left, subject |-> x]
  <2>1. Allowed(h, skip) /\ Allowed(h, insert) /\ Allowed(h, reset)
    BY <1>8 DEF ListCheck, Allowed
  <2>2. \/ req' = [req EXCEPT ![h] = skip]
        \/ req' = [req EXCEPT ![h] = insert]
        \/ req' = [req EXCEPT ![h] = reset]
    <3>1. CASE approval[x] = "PENDING"
      BY <1>8, <3>1 DEF ListCheck
    <3>2. CASE approval[x] = "NONE"
      BY <1>8, <3>2 DEF ListCheck
    <3>3. CASE approval[x] \notin {"PENDING", "NONE"}
      BY <1>8, <3>3 DEF ListCheck
    <3> QED
      BY <3>1, <3>2, <3>3
  <2> HIDE DEF skip, insert, reset
  <2> QED
    BY <1>0, <2>1, <2>2
<1>9. ASSUME ListInsert(h) \/ ListReset(h)
      PROVE  P
  <2> DEFINE r == [op |-> "list", todo |-> req[h].todo]
  <2>1. req' = [req EXCEPT ![h] = r] /\ Allowed(h, r)
    BY <1>9 DEF ListInsert, ListReset, Allowed
  <2> QED
    BY <1>0, <2>1
<1>10. ASSUME Finish(h)
      PROVE  P
  <2>1. req' = [req EXCEPT ![h] = Idle] /\ Allowed(h, Idle)
    BY <1>10 DEF Finish, Idle, Allowed
  <2> QED
    BY <1>0, <2>1
<1>11. /\ \A e \in Entries : CreateCommit(h, e) => Finish(h)
       /\ EditCommit(h) \/ SubmitCommit(h) \/ DecideCommit(h) => Finish(h)
       /\ DecideGrantCommit(h) \/ CancelGrantCommit(h) => Finish(h)
       /\ Abort(h) => Finish(h)
  BY DEF CreateCommit, EditCommit, SubmitCommit, DecideCommit,
     DecideGrantCommit, CancelGrantCommit, Abort
<1>12. EntryStep(h) => P
  BY <1>1, <1>2, <1>3, <1>4, <1>10, <1>11 DEF EntryStep
<1>13. GrantStep(h) => P
  BY <1>5, <1>6, <1>10, <1>11 DEF GrantStep
<1>14. InboxStep(h) => P
  BY <1>7, <1>8, <1>9 DEF InboxStep
<1> QED
  BY <1>10, <1>11, <1>12, <1>13, <1>14 DEF P

\* Which steps of a handler write the time of an entry.
LEMMA TimeWriters ==
  ASSUME NEW h \in Handlers,
         EntryStep(h) \/ GrantStep(h) \/ InboxStep(h) \/ Abort(h)
  PROVE  \/ UNCHANGED <<status, work>>
         \/ \E e \in Entries : CreateCommit(h, e)
         \/ EditCommit(h) \/ SubmitCommit(h) \/ DecideCommit(h)
<1>1. CASE EntryStep(h)
  BY <1>1 DEF EntryStep, CreateRead, SubmitRead, EditRead, DecideRead
<1>2. CASE GrantStep(h) \/ InboxStep(h) \/ Abort(h)
  BY <1>2 DEF GrantStep, InboxStep, Abort, CancelGrantRead, DecideGrantRead,
     DecideGrantCommit, CancelGrantCommit, ListRead, ListCheck, ListInsert,
     ListReset
<1> QED
  BY <1>1, <1>2

-----------------------------------------------------------------------------
(* The approval row records the decision that was taken *)

\* An edit writes an entry and leaves its approval row: DecisionRecorded is
\* about a system without edits in flight.
RecordInv ==
    /\ DecisionRecorded
    /\ \A h \in Handlers : req[h].op # "edit"

LEMMA RecordStep ==
  ASSUME TypeOK, RecordInv, Next, "edit" \notin Endpoints
  PROVE  RecordInv'
<1> USE DEF Serves, RecordInv, DecisionRecorded
<1>a. /\ approval \in [Subjects -> {"NONE", "PENDING", "APPROVED", "RETURNED",
                                    "REJECTED", "CANCELLED"}]
      /\ status \in [Entries -> EntryStatus]
      /\ grant \in [Grants -> GrantStatus]
      /\ req \in [Handlers -> Request]
      /\ Subjects = Entries \cup Grants
  BY DEF TypeOK, Subjects
<1> DEFINE EntryWrite(e, to, row) ==
             /\ e \in Entries /\ row \in {"PENDING", to}
             /\ status' = [status EXCEPT ![e] = to]
             /\ approval' = [approval EXCEPT ![e] = row]
             /\ UNCHANGED grant
           GrantWrite(g, to, row) ==
             /\ g \in Grants /\ (row \in {"PENDING", to} \/ to = "CANCELLED")
             /\ grant' = [grant EXCEPT ![g] = to]
             /\ approval' = [approval EXCEPT ![g] = row]
             /\ UNCHANGED status
           RowWrite(x, row) ==
             /\ x \in Subjects /\ row \in {"PENDING", approval[x]}
             /\ approval' = [approval EXCEPT ![x] = row]
             /\ UNCHANGED <<status, grant>>
<1>1. ASSUME NEW e \in Entries, NEW w, NEW to, Insert(e, w, to)
      PROVE  DecisionRecorded'
  BY <1>1, <1>a DEF Insert
<1>2. ASSUME NEW e, NEW to, NEW row, EntryWrite(e, to, row)
      PROVE  DecisionRecorded'
  BY <1>2, <1>a, IdAssumption
<1>3. ASSUME NEW g, NEW to, NEW row, GrantWrite(g, to, row)
      PROVE  DecisionRecorded'
  BY <1>3, <1>a, IdAssumption
<1>4. ASSUME NEW x, NEW row, RowWrite(x, row)
      PROVE  DecisionRecorded'
  BY <1>4, <1>a
<1>5. ASSUME UNCHANGED <<status, grant, approval>>
      PROVE  DecisionRecorded'
  BY <1>5
<1>6. ASSUME NEW e \in Entries, NEW w \in Work, ClockOut(e, w)
      PROVE  RecordInv'
  BY <1>6, <1>1 DEF ClockOut
<1>7. ASSUME NEW g \in Grants, RequestGrant(g)
      PROVE  RecordInv'
  <2>1. GrantWrite(g, "PENDING", "PENDING") /\ UNCHANGED req
    BY <1>7 DEF RequestGrant
  <2> HIDE DEF GrantWrite
  <2> QED
    BY <2>1, <1>3
<1>8. ASSUME NEW h \in Handlers,
             EntryStep(h) \/ GrantStep(h) \/ InboxStep(h) \/ Abort(h)
      PROVE  RecordInv'
  <2>a. req[h] \in Request
    BY <1>a
  <2>1. \A x \in Handlers : req'[x].op # "edit"
    <3>1. PICK r : req' = [req EXCEPT ![h] = r] /\ Allowed(h, r)
      BY <1>8, RequestStep
    <3>2. r.op # "edit"
      BY <3>1 DEF Allowed
    <3> QED
      BY <3>1, <3>2, <1>a
  <2>2. ASSUME NEW e \in Entries, CreateCommit(h, e)
        PROVE  DecisionRecorded'
    BY <2>2, <2>a, <1>1, RequestFields DEF CreateCommit
  <2>3. ASSUME SubmitCommit(h)
        PROVE  DecisionRecorded'
    <3>1. EntryWrite(req[h].entry, "PENDING", "PENDING")
      BY <2>3, <2>a, RequestFields DEF SubmitCommit, EnsurePending
    <3> HIDE DEF EntryWrite
    <3> QED
      BY <3>1, <1>2
  <2>4. ASSUME DecideCommit(h)
        PROVE  DecisionRecorded'
    <3>1. EntryWrite(req[h].entry, req[h].decision, req[h].decision)
      BY <2>4, <2>a, RequestFields DEF DecideCommit
    <3> HIDE DEF EntryWrite
    <3> QED
      BY <3>1, <1>2
  <2>5. ASSUME DecideGrantCommit(h)
        PROVE  DecisionRecorded'
    <3>1. GrantWrite(req[h].grant, req[h].decision, req[h].decision)
      BY <2>5, <2>a, RequestFields DEF DecideGrantCommit
    <3> HIDE DEF GrantWrite
    <3> QED
      BY <3>1, <1>3
  <2>6. ASSUME CancelGrantCommit(h)
        PROVE  DecisionRecorded'
    <3>1. req[h].grant \in Grants
      BY <2>6, <2>a, RequestFields DEF CancelGrantCommit
    <3>2. PICK row : GrantWrite(req[h].grant, "CANCELLED", row)
      BY <2>6, <3>1 DEF CancelGrantCommit
    <3> HIDE DEF GrantWrite
    <3> QED
      BY <3>2, <1>3
  <2>7. ASSUME ListInsert(h)
        PROVE  DecisionRecorded'
    <3>1. RowWrite(req[h].subject, KeepDecided(approval[req[h].subject]))
      BY <2>7, <2>a, <1>a, RequestFields DEF ListInsert, KeepDecided
    <3> HIDE DEF RowWrite
    <3> QED
      BY <3>1, <1>4
  <2>8. ASSUME ListReset(h)
        PROVE  DecisionRecorded'
    <3>1. RowWrite(req[h].subject, "PENDING")
      BY <2>8, <2>a, RequestFields DEF ListReset
    <3> HIDE DEF RowWrite
    <3> QED
      BY <3>1, <1>4
  <2>9. EntryStep(h) \/ GrantStep(h) \/ InboxStep(h) \/ Abort(h) =>
          \/ UNCHANGED <<status, grant, approval>>
          \/ \E e \in Entries : CreateCommit(h, e)
          \/ SubmitCommit(h) \/ DecideCommit(h)
          \/ DecideGrantCommit(h) \/ CancelGrantCommit(h)
          \/ ListInsert(h) \/ ListReset(h) \/ EditCommit(h)
    BY DEF EntryStep, GrantStep, InboxStep, Abort, CreateRead, SubmitRead,
       EditRead, DecideRead, CancelGrantRead, DecideGrantRead, ListRead,
       ListCheck
  <2>10. ~ EditCommit(h)
    BY DEF EditCommit
  <2> QED
    BY <1>5, <1>8, <2>1, <2>2, <2>3, <2>4, <2>5, <2>6, <2>7, <2>8, <2>9,
       <2>10
<1> QED
  BY <1>6, <1>7, <1>8 DEF Next

\* Without edits a recorded decision is the one that the entry or the
\* authorization carries, whatever else interleaves; a cancellation alone may
\* come after it.
THEOREM DecisionTheorem ==
  ASSUME "edit" \notin Endpoints
  PROVE  Spec => []DecisionRecorded
<1>1. Init => RecordInv
  BY DEF Init, RecordInv, DecisionRecorded, Idle, Subjects
<1>2. TypeOK /\ RecordInv /\ [Next]_vars => RecordInv'
  <2>1. ASSUME RecordInv, UNCHANGED vars
        PROVE  RecordInv'
    BY <2>1 DEF vars, RecordInv, DecisionRecorded
  <2> QED
    BY <2>1, RecordStep
<1>3. RecordInv => DecisionRecorded
  BY DEF RecordInv
<1> QED
  BY <1>1, <1>2, <1>3, TypeCorrect, PTL DEF Spec
-----------------------------------------------------------------------------
(* Overtime that counts was approved *)

\* What OvertimeWasApproved says of one entry.
Backed(w) ==
    w.charged # NoGrant =>
      /\ approval[w.charged] = "APPROVED"
      /\ grant[w.charged] \in {"APPROVED", "CANCELLED"}
      /\ Holder[w.charged] = w.tech

Decided(g) == grant[g] \notin {"ABSENT", "PENDING"}

\* The row of a decided authorization lets no other decision through.  It is
\* the inbox that opens decided rows again: none is in flight.
RowsAgree ==
    \A g \in Grants :
      /\ grant[g] \in {"APPROVED", "REJECTED"} => approval[g] = grant[g]
      /\ grant[g] = "CANCELLED" => approval[g] # "PENDING"
      /\ grant[g] # "ABSENT" => approval[g] # "NONE"

OvertimeInv ==
    /\ RowsAgree
    /\ \A e \in Entries : status[e] # "ABSENT" => Backed(work[e])
    /\ \A h \in Handlers :
         /\ req[h].op \notin {"list", "insert", "reset"}
         /\ req[h].op \in {"create", "edit"} => Backed(req[h].work)
         /\ req[h].op = "cancelGrant" => grant[req[h].grant] # "ABSENT"

GrantsStand ==
    \A g \in Grants : Decided(g) => /\ grant'[g] \in {grant[g], "CANCELLED"}
                                    /\ approval'[g] = approval[g]

\* Which steps write a table, when the inbox is not there.
LEMMA Writers ==
  ASSUME OvertimeInv, NEW h \in Handlers,
         EntryStep(h) \/ GrantStep(h) \/ InboxStep(h) \/ Abort(h),
         "list" \notin Endpoints
  PROVE  \/ UNCHANGED <<status, work, grant, approval>>
         \/ \E e \in Entries : CreateCommit(h, e)
         \/ EditCommit(h) \/ SubmitCommit(h) \/ DecideCommit(h)
         \/ DecideGrantCommit(h) \/ CancelGrantCommit(h)
<1>1. ~ ListInsert(h) /\ ~ ListReset(h) /\ ~ ListRead(h)
  BY DEF OvertimeInv, ListInsert, ListReset, ListRead, Serves, Accept
<1> QED
  BY <1>1 DEF EntryStep, GrantStep, InboxStep, Abort, CreateRead, SubmitRead,
     EditRead, DecideRead, CancelGrantRead, DecideGrantRead, ListCheck

\* What each step that writes them makes of an authorization and its row.
GrantMoves(g) ==
    \/ UNCHANGED <<grant[g], approval[g]>>
    \/ grant[g] = "ABSENT" /\ grant'[g] = "PENDING" /\ approval'[g] = "PENDING"
    \/ /\ MarkDecided(g)
       /\ grant'[g] \in {"APPROVED", "REJECTED"} /\ approval'[g] = grant'[g]
    \/ /\ grant[g] # "ABSENT" /\ grant'[g] = "CANCELLED"
       /\ approval'[g] = IF approval[g] = "PENDING" THEN "CANCELLED"
                                                    ELSE approval[g]

LEMMA GrantFate ==
  ASSUME TypeOK, OvertimeInv, Next, "list" \notin Endpoints, NEW g \in Grants
  PROVE  GrantMoves(g)
<1> USE DEF GrantMoves
<1>a. /\ approval \in [Subjects -> {"NONE", "PENDING", "APPROVED", "RETURNED",
                                    "REJECTED", "CANCELLED"}]
      /\ grant \in [Grants -> GrantStatus] /\ req \in [Handlers -> Request]
      /\ g \in Subjects /\ g \notin Entries
  BY IdAssumption DEF TypeOK, Subjects
<1>1. ASSUME UNCHANGED <<grant, approval>>
      PROVE  GrantMoves(g)
  BY <1>1
<1>2. ASSUME NEW x \in Grants, RequestGrant(x)
      PROVE  GrantMoves(g)
  BY <1>2, <1>a DEF RequestGrant
<1>3. ASSUME NEW h \in Handlers, SubmitCommit(h) \/ DecideCommit(h)
      PROVE  GrantMoves(g)
  <2>1. req[h].entry \in Entries
    BY <1>3, <1>a, RequestFields DEF SubmitCommit, DecideCommit, Serves
  <2>2. grant' = grant /\ approval'[g] = approval[g]
    BY <1>3, <1>a, <2>1 DEF SubmitCommit, DecideCommit
  <2> QED
    BY <2>2
<1>4. ASSUME NEW h \in Handlers, DecideGrantCommit(h)
      PROVE  GrantMoves(g)
  <2>1. /\ req[h].grant \in Grants
        /\ req[h].decision \in {"APPROVED", "REJECTED"}
    BY <1>4, <1>a, RequestFields DEF DecideGrantCommit, Serves
  <2> QED
    BY <1>4, <1>a, <2>1 DEF DecideGrantCommit
<1>5. ASSUME NEW h \in Handlers, CancelGrantCommit(h)
      PROVE  GrantMoves(g)
  <2>1. req[h].grant \in Grants /\ grant[req[h].grant] # "ABSENT"
    BY <1>5, <1>a, RequestFields DEF CancelGrantCommit, Serves, OvertimeInv
  <2> QED
    BY <1>5, <1>a, <2>1 DEF CancelGrantCommit
<1>6. ASSUME NEW h \in Handlers,
             (\E e \in Entries : CreateCommit(h, e)) \/ EditCommit(h)
      PROVE  GrantMoves(g)
  BY <1>1, <1>6 DEF CreateCommit, Insert, EditCommit
<1>7. ASSUME NEW e \in Entries, NEW w \in Work, ClockOut(e, w)
      PROVE  GrantMoves(g)
  BY <1>1, <1>7 DEF ClockOut, Insert
<1>8. ASSUME NEW h \in Handlers,
             EntryStep(h) \/ GrantStep(h) \/ InboxStep(h) \/ Abort(h)
      PROVE  GrantMoves(g)
  <2> HIDE DEF GrantMoves
  <2> QED
    BY <1>1, <1>3, <1>4, <1>5, <1>6, <1>8, Writers
<1> QED
  BY <1>2, <1>7, <1>8 DEF Next

\* One approver decides: markDecided finds the row of the first decision.
LEMMA GrantsStandStep ==
  ASSUME TypeOK, OvertimeInv, Next, "list" \notin Endpoints
  PROVE  GrantsStand
<1> SUFFICES ASSUME NEW g \in Grants, Decided(g)
             PROVE  /\ grant'[g] \in {grant[g], "CANCELLED"}
                    /\ approval'[g] = approval[g]
  BY DEF GrantsStand
<1>1. approval[g] \notin {"NONE", "PENDING"}
  BY DEF OvertimeInv, RowsAgree, Decided, TypeOK, GrantStatus
<1> QED
  BY <1>1, GrantFate DEF GrantMoves, MarkDecided, Decided

\* What was backed before a step is backed after it.
LEMMA BackedStays ==
  ASSUME GrantsStand, NEW w \in Work, Backed(w)
  PROVE  Backed(w)'
  BY DEF GrantsStand, Backed, Work, Decided

\* A request that passes its check names an authorization that was approved.
LEMMA CheckedIsBacked ==
  ASSUME OvertimeInv, NEW w \in Work, NEW S, NotBlocked(w, S)
  PROVE  Backed(w)
  BY DEF OvertimeInv, RowsAgree, NotBlocked, Covered, Backed, Work

LEMMA OvertimeStep ==
  ASSUME TypeOK, OvertimeInv, Next, "list" \notin Endpoints
  PROVE  OvertimeInv'
<1> DEFINE Times == \A e \in Entries : status[e] # "ABSENT" => Backed(work[e])
           Reqs == \A h \in Handlers :
                     /\ req[h].op \notin {"list", "insert", "reset"}
                     /\ req[h].op \in {"create", "edit"}
                          => Backed(req[h].work)
                     /\ req[h].op = "cancelGrant"
                          => grant[req[h].grant] # "ABSENT"
<1>a. /\ status \in [Entries -> EntryStatus]
      /\ work \in [Entries -> Work \cup {NoWork}]
      /\ \A e \in Entries : status[e] # "ABSENT" => work[e] \in Work
      /\ req \in [Handlers -> Request]
      /\ \A h \in Handlers : req[h].op \in {"edit", "submit", "decide"}
                                => status[req[h].entry] # "ABSENT"
  BY DEF TypeOK
<1>b. GrantsStand
  BY GrantsStandStep
<1>c. RowsAgree /\ Times /\ Reqs
  BY DEF OvertimeInv
<1>d. \A g \in Grants : grant[g] # "ABSENT" => grant'[g] # "ABSENT"
  BY GrantFate DEF GrantMoves
<1>e. \A w \in Work : Backed(w) => Backed(w)'
  BY <1>b, BackedStays
<1>1. RowsAgree'
  <2> SUFFICES ASSUME NEW g \in Grants
               PROVE  /\ grant'[g] \in {"APPROVED", "REJECTED"}
                           => approval'[g] = grant'[g]
                      /\ grant'[g] = "CANCELLED" => approval'[g] # "PENDING"
                      /\ grant'[g] # "ABSENT" => approval'[g] # "NONE"
    BY DEF RowsAgree
  <2> QED
    BY <1>c, GrantFate DEF GrantMoves, RowsAgree
<1> HIDE DEF Times, Reqs
<1>2. ASSUME UNCHANGED <<status, work>>
      PROVE  Times'
  <2> SUFFICES ASSUME NEW e \in Entries, status[e] # "ABSENT"
               PROVE  Backed(work[e])'
    BY <1>2 DEF Times
  <2>1. work[e] \in Work /\ Backed(work[e])
    BY <1>a, <1>c DEF Times
  <2> QED
    BY <1>2, <1>e, <2>1 DEF Backed
<1>3. ASSUME NEW e \in Entries, NEW w \in Work, Backed(w),
             \A d \in Entries \ {e} : UNCHANGED <<status[d], work[d]>>,
             work'[e] = w
      PROVE  Times'
  <2> SUFFICES ASSUME NEW d \in Entries, status'[d] # "ABSENT"
               PROVE  Backed(work[d])'
    BY DEF Times
  <2>1. CASE d = e
    BY <1>3, <1>e, <2>1 DEF Backed
  <2>2. CASE d # e
    <3>1. work[d] \in Work /\ Backed(work[d]) /\ work'[d] = work[d]
      BY <1>3, <1>a, <1>c, <2>2 DEF Times
    <3> QED
      BY <1>e, <3>1 DEF Backed
  <2> QED
    BY <2>1, <2>2
<1>4. ASSUME NEW e \in Entries, NEW w \in Work, ClockOut(e, w)
      PROVE  Times' /\ Reqs'
  <2>1. Backed(w) /\ UNCHANGED <<grant, approval, req>>
    BY <1>4 DEF ClockOut, Insert, Backed
  <2>2. Times'
    BY <1>3, <1>4, <1>a, <2>1 DEF ClockOut, Insert
  <2>3. Reqs'
    BY <2>1, <1>c DEF Reqs, Backed
  <2> QED
    BY <2>2, <2>3
<1>5. ASSUME NEW h \in Handlers, req'[h] = req[h]
      PROVE  /\ req'[h].op \notin {"list", "insert", "reset"}
             /\ req'[h].op \in {"create", "edit"} => Backed(req[h].work)'
             /\ req'[h].op = "cancelGrant" => grant'[req'[h].grant] # "ABSENT"
  <2>1. /\ req[h].op \in {"create", "edit"} => req[h].work \in Work
        /\ req[h].op = "cancelGrant" => req[h].grant \in Grants
    BY <1>a, RequestFields
  <2> QED
    BY <1>5, <1>c, <1>d, <1>e, <2>1 DEF Reqs, Backed
<1>6. ASSUME NEW g \in Grants, RequestGrant(g)
      PROVE  Times' /\ Reqs'
  BY <1>2, <1>5, <1>6 DEF RequestGrant, Reqs
<1>7. ASSUME NEW h \in Handlers,
             EntryStep(h) \/ GrantStep(h) \/ InboxStep(h) \/ Abort(h)
      PROVE  Times' /\ Reqs'
  <2>a. req[h] \in Request
    BY <1>a
  <2>1. Reqs'
    <3>1. PICK r : req' = [req EXCEPT ![h] = r] /\ Allowed(h, r)
      BY <1>7, RequestStep
    <3>2. req'[h] = r /\ r \in Request
      BY <3>1, <1>a, TypeStep DEF TypeOK
    <3>3. /\ r.op \notin {"list", "insert", "reset"}
          /\ r.op = "cancelGrant" => grant'[r.grant] # "ABSENT"
      BY <3>1, <3>2, <1>c, <1>d, RequestFields DEF Allowed, Reqs
    <3>4. r.op \in {"create", "edit"} => Backed(r.work)'
      BY <3>1, <3>2, <1>e, CheckedIsBacked, RequestFields DEF Allowed
    <3>5. \A x \in Handlers : x # h => req'[x] = req[x]
      BY <3>1, <1>a
    <3>6. ASSUME NEW x \in Handlers
          PROVE  /\ req'[x].op \notin {"list", "insert", "reset"}
                 /\ req'[x].op \in {"create", "edit"} => Backed(req[x].work)'
                 /\ req'[x].op = "cancelGrant"
                      => grant'[req'[x].grant] # "ABSENT"
      <4>1. CASE x = h
        BY <3>2, <3>3, <3>4, <4>1 DEF Backed
      <4>2. CASE x # h
        BY <1>5, <3>5, <4>2
      <4> QED
        BY <4>1, <4>2
    <3> QED
      BY <3>6 DEF Reqs
  <2>2. ASSUME NEW e \in Entries, CreateCommit(h, e)
        PROVE  Times'
    <3>1. req[h].work \in Work /\ Backed(req[h].work)
      BY <2>2, <2>a, <1>c, RequestFields DEF CreateCommit, Serves, Reqs
    <3>2. /\ \A d \in Entries \ {e} : UNCHANGED <<status[d], work[d]>>
          /\ work'[e] = req[h].work
      BY <2>2, <1>a DEF CreateCommit, Insert
    <3> QED
      BY <3>1, <3>2, <1>3
  <2>3. ASSUME EditCommit(h)
        PROVE  Times'
    <3>1. /\ req[h].entry \in Entries /\ req[h].work \in Work
          /\ Backed(req[h].work)
      BY <2>3, <2>a, <1>c, RequestFields DEF EditCommit, Serves, Reqs
    <3>2. /\ \A d \in Entries \ {req[h].entry} :
               UNCHANGED <<status[d], work[d]>>
          /\ work'[req[h].entry] = req[h].work
      BY <2>3, <3>1, <1>a DEF EditCommit
    <3> QED
      BY <3>1, <3>2, <1>3
  <2>4. ASSUME SubmitCommit(h) \/ DecideCommit(h)
        PROVE  Times'
    <3>1. /\ req[h].entry \in Entries /\ status[req[h].entry] # "ABSENT"
      BY <2>4, <2>a, <1>a, RequestFields
         DEF SubmitCommit, DecideCommit, Serves
    <3>2. /\ \A d \in Entries \ {req[h].entry} :
               UNCHANGED <<status[d], work[d]>>
          /\ work'[req[h].entry] = work[req[h].entry]
      BY <2>4, <3>1, <1>a DEF SubmitCommit, DecideCommit
    <3>3. work[req[h].entry] \in Work /\ Backed(work[req[h].entry])
      BY <3>1, <1>a, <1>c DEF Times
    <3> QED
      BY <3>1, <3>2, <3>3, <1>3
  <2> QED
    BY <1>2, <1>7, <2>1, <2>2, <2>3, <2>4, TimeWriters
<1> QED
  BY <1>1, <1>4, <1>6, <1>7 DEF Next, OvertimeInv, Times, Reqs

LEMMA OvertimeInvariant ==
  ASSUME "list" \notin Endpoints
  PROVE  Spec => []OvertimeInv
<1>1. Init => OvertimeInv
  BY DEF Init, OvertimeInv, RowsAgree, Idle
<1>2. TypeOK /\ OvertimeInv /\ [Next]_vars => OvertimeInv'
  <2>1. ASSUME OvertimeInv, UNCHANGED vars
        PROVE  OvertimeInv'
    BY <2>1 DEF vars, OvertimeInv, RowsAgree, Backed
  <2> QED
    BY <2>1, OvertimeStep
<1> QED
  BY <1>1, <1>2, TypeCorrect, PTL DEF Spec

\* Overtime that counts has an authorization of its own technician that was
\* approved, for any number of requests that were checked before they were
\* written and any cancellations in between.
THEOREM OvertimeTheorem ==
  ASSUME "list" \notin Endpoints
  PROVE  Spec => []OvertimeWasApproved
<1>1. OvertimeInv => OvertimeWasApproved
  BY DEF OvertimeInv, OvertimeWasApproved, Backed, Booked
<1> QED
  BY <1>1, OvertimeInvariant, PTL

\* The decision on an authorization is taken once, whoever else opened it:
\* only a cancellation under way may follow it, and nothing follows that.
THEOREM GrantTheorem ==
  ASSUME "list" \notin Endpoints
  PROVE  Spec => GrantDecidedOnce
<1>1. TypeOK /\ OvertimeInv /\ [Next]_vars => [GrantsStand]_vars
  BY GrantsStandStep
<1>2. [GrantsStand]_vars =>
        [\A g \in Grants : grant[g] \notin {"ABSENT", "PENDING"}
                             => grant'[g] \in {grant[g], "CANCELLED"}]_vars
  BY DEF GrantsStand, Decided
<1> QED
  BY <1>1, <1>2, TypeCorrect, OvertimeInvariant, PTL DEF Spec, GrantDecidedOnce

-----------------------------------------------------------------------------
(* What markDecided promises of an entry, and which operation breaks it *)

\* What a step may do to an entry and its approval row.
Fate(e) ==
    \/ status'[e] = status[e] /\ approval'[e] = approval[e]
    \/ /\ status[e] = "ABSENT" /\ status'[e] \in {"DRAFT", "PENDING"}
       /\ approval'[e] = approval[e]
    \/ /\ \E h \in Handlers : req[h].op = "edit"
       /\ status'[e] \notin Decisions /\ approval'[e] = approval[e]
    \/ status'[e] = "PENDING" /\ approval'[e] = "PENDING"
    \/ /\ MarkDecided(e)
       /\ status'[e] \in Decisions /\ approval'[e] = status'[e]
    \/ /\ \E h \in Handlers : req[h].op \in {"insert", "reset"}
       /\ status'[e] = status[e] /\ approval'[e] \in {"PENDING", approval[e]}

LEMMA EntryFate ==
  ASSUME TypeOK, Next, NEW e \in Entries
  PROVE  Fate(e)
<1> USE DEF Fate, Serves
<1>a. /\ status \in [Entries -> EntryStatus]
      /\ approval \in [Subjects -> {"NONE", "PENDING", "APPROVED", "RETURNED",
                                    "REJECTED", "CANCELLED"}]
      /\ req \in [Handlers -> Request]
      /\ e \in Subjects /\ e \notin Grants
  BY IdAssumption DEF TypeOK, Subjects
<1>1. ASSUME NEW d \in Entries, NEW w, NEW to \in {"DRAFT", "PENDING"},
             Insert(d, w, to)
      PROVE  Fate(e)
  BY <1>1, <1>a DEF Insert
<1>2. ASSUME NEW g \in Grants, NEW row,
             UNCHANGED status, approval' = [approval EXCEPT ![g] = row]
      PROVE  Fate(e)
  BY <1>2, <1>a
<1>3. ASSUME UNCHANGED <<status, approval>>
      PROVE  Fate(e)
  BY <1>3
<1>4. ASSUME NEW h \in Handlers, EntryStep(h)
      PROVE  Fate(e)
  <2>a. req[h] \in Request
    BY <1>a
  <2>1. ASSUME EditCommit(h)
        PROVE  Fate(e)
    <3>1. req[h].entry \in Entries /\ req[h].seen \in EditableStatus
      BY <2>1, <2>a, RequestFields DEF EditCommit
    <3>2. CASE e = req[h].entry
      <4>1. status'[e] \in {"DRAFT", "PENDING"} /\ approval'[e] = approval[e]
        BY <2>1, <3>1, <3>2, <1>a DEF EditCommit, EditableStatus
      <4> QED
        BY <2>1, <4>1 DEF EditCommit, Decisions
    <3>3. CASE e # req[h].entry
      BY <2>1, <3>3, <1>a DEF EditCommit
    <3> QED
      BY <3>2, <3>3
  <2>2. ASSUME SubmitCommit(h)
        PROVE  Fate(e)
    BY <2>2, <2>a, <1>a, RequestFields DEF SubmitCommit, EnsurePending
  <2>3. ASSUME DecideCommit(h)
        PROVE  Fate(e)
    <3>1. req[h].entry \in Entries /\ req[h].decision \in Decisions
      BY <2>3, <2>a, RequestFields DEF DecideCommit
    <3> QED
      BY <2>3, <3>1, <1>a DEF DecideCommit
  <2>4. ASSUME NEW d \in Entries, CreateCommit(h, d)
        PROVE  Fate(e)
    BY <2>4, <1>1 DEF CreateCommit
  <2> QED
    BY <1>4, <1>3, <2>1, <2>2, <2>3, <2>4
       DEF EntryStep, CreateRead, SubmitRead, EditRead, DecideRead
<1>5. ASSUME NEW h \in Handlers, GrantStep(h)
      PROVE  Fate(e)
  <2>1. CASE DecideGrantCommit(h) \/ CancelGrantCommit(h)
    <3>1. req[h].grant \in Grants
      BY <2>1, <1>a, RequestFields DEF DecideGrantCommit, CancelGrantCommit
    <3> QED
      BY <2>1, <3>1, <1>a DEF DecideGrantCommit, CancelGrantCommit
  <2> QED
    BY <1>3, <1>5, <2>1 DEF GrantStep, CancelGrantRead, DecideGrantRead
<1>6. ASSUME NEW h \in Handlers, InboxStep(h) \/ Abort(h)
      PROVE  Fate(e)
  <2>1. CASE ListInsert(h) \/ ListReset(h)
    <3>1. req[h].subject \in Subjects
      BY <2>1, <1>a, RequestFields DEF ListInsert, ListReset
    <3> QED
      BY <2>1, <3>1, <1>a DEF ListInsert, ListReset, KeepDecided
  <2> QED
    BY <1>3, <1>6, <2>1 DEF InboxStep, Abort, ListRead, ListCheck
<1>7. ASSUME NEW d \in Entries, NEW w \in Work, ClockOut(d, w)
      PROVE  Fate(e)
  BY <1>1, <1>7 DEF ClockOut
<1>8. ASSUME NEW g \in Grants, RequestGrant(g)
      PROVE  Fate(e)
  BY <1>2, <1>8 DEF RequestGrant
<1> QED
  BY <1>4, <1>5, <1>6, <1>7, <1>8 DEF Next

\* Requests of an endpoint nobody calls are not there.
NoEdits   == \A h \in Handlers : req[h].op # "edit"
NoInboxes == \A h \in Handlers : req[h].op \notin {"list", "insert", "reset"}

LEMMA RequestsAbsent ==
  ASSUME TypeOK, Next
  PROVE  /\ NoEdits /\ "edit" \notin Endpoints => NoEdits'
         /\ NoInboxes /\ "list" \notin Endpoints => NoInboxes'
<1>1. ASSUME NEW h \in Handlers,
             EntryStep(h) \/ GrantStep(h) \/ InboxStep(h) \/ Abort(h)
      PROVE  /\ NoEdits /\ "edit" \notin Endpoints => NoEdits'
             /\ NoInboxes /\ "list" \notin Endpoints => NoInboxes'
  <2>1. PICK r : req' = [req EXCEPT ![h] = r] /\ Allowed(h, r)
    BY <1>1, RequestStep
  <2>2. \A x \in Handlers : req'[x] = IF x = h THEN r ELSE req[x]
    BY <2>1 DEF TypeOK
  <2> QED
    BY <2>1, <2>2 DEF Allowed, NoEdits, NoInboxes
<1>2. ASSUME UNCHANGED req
      PROVE  UNCHANGED <<NoEdits, NoInboxes>>
  BY <1>2 DEF NoEdits, NoInboxes
<1> QED
  BY <1>1, <1>2 DEF Next, ClockOut, RequestGrant

\* An entry that waits has a row that waits, or none yet.
Undecided ==
    \A e \in Entries : status[e] \in {"ABSENT", "PENDING"} => MarkDecided(e)

\* Without edits every pending entry can be decided, whatever approvers,
\* resubmissions and the inbox do at the same time: MCTimeStuck has the edit
\* of a returned entry, which is the one operation that leaves its row behind.
THEOREM DecidableTheorem ==
  ASSUME "edit" \notin Endpoints
  PROVE  Spec => []PendingEntryIsDecidable
<1>1. Init => Undecided /\ NoEdits
  BY DEF Init, Undecided, NoEdits, Idle, MarkDecided, Subjects
<1>2. TypeOK /\ Undecided /\ NoEdits /\ [Next]_vars => (Undecided /\ NoEdits)'
  <2>1. ASSUME TypeOK, Undecided, NoEdits, Next
        PROVE  (Undecided /\ NoEdits)'
    <3>1. NoEdits'
      BY <2>1, RequestsAbsent
    <3>2. ASSUME NEW e \in Entries
          PROVE  status'[e] \in {"ABSENT", "PENDING"}
                   => approval'[e] \in {"NONE", "PENDING"}
      <4>1. Fate(e)
        BY <2>1, EntryFate
      <4>2. CASE UNCHANGED <<status[e], approval[e]>>
        BY <2>1, <4>2 DEF Undecided, MarkDecided
      <4> QED
        BY <2>1, <4>1, <4>2
           DEF Fate, Undecided, NoEdits, MarkDecided, Decisions
    <3> QED
      BY <3>1, <3>2 DEF Undecided, MarkDecided
  <2>2. ASSUME Undecided, NoEdits, UNCHANGED vars
        PROVE  (Undecided /\ NoEdits)'
    BY <2>2 DEF vars, Undecided, NoEdits, MarkDecided
  <2> QED
    BY <2>1, <2>2
<1>3. Undecided => PendingEntryIsDecidable
  BY DEF Undecided, PendingEntryIsDecidable
<1> QED
  BY <1>1, <1>2, <1>3, TypeCorrect, PTL DEF Spec

\* A decided entry has the row of its decision, which lets no other through.
RowDecided ==
    \A e \in Entries : status[e] \in Decisions => approval[e] = status[e]

\* docs/approvals.md: without the refresh of the inbox, a double decide never
\* applies twice, for any number of approvers, edits and resubmissions: the
\* backfill, which MCTimeTwice has, is the one operation that reopens a row.
THEOREM DecidedOnceTheorem ==
  ASSUME "list" \notin Endpoints
  PROVE  Spec => DecidedOnce
<1> DEFINE Once == \A e \in Entries :
                     status[e] \in Decisions /\ status'[e] \in Decisions
                       => status'[e] = status[e]
<1>1. Init => RowDecided /\ NoInboxes
  BY DEF Init, RowDecided, NoInboxes, Idle, Decisions
<1>2. ASSUME TypeOK, RowDecided, NoInboxes, Next
      PROVE  Once /\ (RowDecided /\ NoInboxes)'
  <2>1. NoInboxes'
    BY <1>2, RequestsAbsent
  <2>2. ASSUME NEW e \in Entries
        PROVE  /\ status[e] \in Decisions /\ status'[e] \in Decisions
                    => status'[e] = status[e]
               /\ status'[e] \in Decisions => approval'[e] = status'[e]
    <3>1. Fate(e)
      BY <1>2, EntryFate
    <3>2. CASE status'[e] = status[e] /\ approval'[e] = approval[e]
      BY <1>2, <3>2 DEF RowDecided
    <3> QED
      BY <1>2, <3>1, <3>2
         DEF Fate, RowDecided, NoInboxes, MarkDecided, Decisions
  <2> QED
    BY <2>1, <2>2 DEF RowDecided
<1>3. ASSUME RowDecided, NoInboxes, UNCHANGED vars
      PROVE  (RowDecided /\ NoInboxes)'
  BY <1>3 DEF vars, RowDecided, NoInboxes
<1>4. TypeOK /\ RowDecided /\ NoInboxes /\ [Next]_vars
        => (RowDecided /\ NoInboxes)'
  BY <1>2, <1>3
<1>5. TypeOK /\ RowDecided /\ NoInboxes /\ [Next]_vars
        => [\A e \in Entries :
              status[e] \in Decisions /\ status'[e] \in Decisions
                => status'[e] = status[e]]_vars
  BY <1>2
<1> QED
  BY <1>1, <1>4, <1>5, TypeCorrect, PTL DEF Spec, DecidedOnce

-----------------------------------------------------------------------------
(* Settled time is final *)

\* Approved and rejected time is not taken up again: whoever read it before it
\* was decided has ended, and every check refuses what was decided since.
THEOREM SettledTheorem == Spec => SettledTimeIsFinal
<1> DEFINE Stands == \A e \in Entries : Settled(e) =>
                       /\ Settled(e)'
                       /\ status'[e] = status[e] /\ work'[e] = work[e]
<1>1. ASSUME TypeOK, Next, NEW e \in Entries, Settled(e)
      PROVE  Settled(e)' /\ status'[e] = status[e] /\ work'[e] = work[e]
  <2>a. /\ status \in [Entries -> EntryStatus] /\ req \in [Handlers -> Request]
        /\ work \in [Entries -> Work \cup {NoWork}]
        /\ status[e] \in {"APPROVED", "REJECTED"}
        /\ \A h \in Handlers : req[h].op \in {"edit", "submit", "decide"}
                                 => req[h].entry # e
    BY <1>1 DEF TypeOK, Settled
  <2>1. ASSUME NEW d \in Entries, NEW w, NEW to, Insert(d, w, to)
        PROVE  status'[e] = status[e] /\ work'[e] = work[e]
    BY <2>1, <2>a DEF Insert
  <2>2. ASSUME NEW d \in Entries, NEW w \in Work, ClockOut(d, w)
        PROVE  Settled(e)' /\ status'[e] = status[e] /\ work'[e] = work[e]
    BY <2>1, <2>2, <2>a DEF ClockOut, Settled
  <2>3. ASSUME NEW g \in Grants, RequestGrant(g)
        PROVE  Settled(e)' /\ status'[e] = status[e] /\ work'[e] = work[e]
    BY <2>3, <2>a DEF RequestGrant, Settled
  <2>4. ASSUME NEW h \in Handlers,
               EntryStep(h) \/ GrantStep(h) \/ InboxStep(h) \/ Abort(h)
        PROVE  Settled(e)' /\ status'[e] = status[e] /\ work'[e] = work[e]
    <3>1. PICK r : req' = [req EXCEPT ![h] = r] /\ Allowed(h, r)
      BY <1>1, <2>4, RequestStep
    <3>2. r.op \in {"edit", "submit", "decide"} => r.entry # e
      BY <2>a, <3>1 DEF Allowed, EditableStatus
    <3>3. ASSUME EditCommit(h) \/ SubmitCommit(h) \/ DecideCommit(h)
          PROVE  status'[e] = status[e] /\ work'[e] = work[e]
      <4>1. req[h].entry # e
        BY <2>a, <3>3 DEF EditCommit, SubmitCommit, DecideCommit, Serves
      <4> QED
        BY <2>a, <3>3, <4>1 DEF EditCommit, SubmitCommit, DecideCommit
    <3>4. status'[e] = status[e] /\ work'[e] = work[e]
      BY <2>1, <2>4, <3>3, TimeWriters DEF CreateCommit
    <3>5. \A x \in Handlers : req'[x] = IF x = h THEN r ELSE req[x]
      BY <2>a, <3>1
    <3> QED
      BY <2>a, <3>2, <3>4, <3>5 DEF Settled
  <2> QED
    BY <1>1, <2>2, <2>3, <2>4 DEF Next
<1>2. TypeOK /\ [Next]_vars => [Stands]_vars
  BY <1>1
<1>3. [Stands]_vars =>
        [\A e \in Entries : Settled(e) =>
           /\ Settled(e)'
           /\ status'[e] = status[e] /\ work'[e] = work[e]]_vars
  OBVIOUS
<1> QED
  BY <1>2, <1>3, TypeCorrect, PTL DEF Spec, SettledTimeIsFinal

-----------------------------------------------------------------------------
(* The weights of a set, added up *)

\* g adds up the weights of every subset of S, in the order CHOOSE takes its
\* elements.
Adds(g, wt, S) ==
    g = [T \in SUBSET S |->
           IF T = {} THEN 0
           ELSE LET x == CHOOSE x \in T : TRUE
                IN  wt[x] + g[T \ {x}]]

Adding(wt, S) == CHOOSE g : Adds(g, wt, S)
Total(wt, S)  == Adding(wt, S)[S]

Any(T) == CHOOSE x \in T : TRUE

LEMMA AnyOne ==
  ASSUME NEW T, T # {}
  PROVE  Any(T) \in T
  BY DEF Any

\* Induction over the subsets of a finite set, as the least counterexample.
LEMMA Minimal ==
  ASSUME NEW S, IsFiniteSet(S), NEW B, B \subseteq SUBSET S, B # {}
  PROVE  \E T \in B : \A U \in B : U \subseteq T => U = T
<1> DEFINE R == StrictSubsetOrdering(S)
<1>1. IsWellFoundedOn(R, FiniteSubsetsOf(S))
  BY FS_StrictSubsetOrderingWellFounded
<1>2. B \subseteq FiniteSubsetsOf(S)
  BY FS_Subset DEF FiniteSubsetsOf
<1> HIDE DEF R
<1>3. \E T \in B : \A U \in B : ~ (<<U, T>> \in R)
  BY <1>1, <1>2, WFMin
<1> QED
  BY <1>3 DEF R, StrictSubsetOrdering

LEMMA AddsStep ==
  ASSUME NEW g, NEW wt, NEW S, Adds(g, wt, S), NEW T \in SUBSET S
  PROVE  g[T] = IF T = {} THEN 0 ELSE wt[Any(T)] + g[T \ {Any(T)}]
  BY DEF Adds, Any

\* All that add up the same weights agree.
LEMMA AddsOnce ==
  ASSUME NEW wt, NEW wu, NEW S, NEW T, NEW g, NEW h,
         Adds(g, wt, S), Adds(h, wu, T),
         NEW U, IsFiniteSet(U), U \subseteq S, U \subseteq T,
         \A e \in U : wt[e] = wu[e]
  PROVE  g[U] = h[U]
<1> SUFFICES ASSUME g[U] # h[U] PROVE FALSE
  OBVIOUS
<1> DEFINE B == {V \in SUBSET U : g[V] # h[V]}
<1>1. PICK V \in B : \A W \in B : W \subseteq V => W = V
  <2>1. B # {} /\ B \subseteq SUBSET U
    OBVIOUS
  <2> HIDE DEF B
  <2> QED
    BY <2>1, Minimal
<1>2. V \in SUBSET S /\ V \in SUBSET T
  OBVIOUS
<1>3. V # {}
  BY <1>2, AddsStep
<1>4. Any(V) \in V
  BY <1>3, AnyOne
<1>5. g[V \ {Any(V)}] = h[V \ {Any(V)}]
  BY <1>1, <1>4
<1>6. wt[Any(V)] = wu[Any(V)]
  BY <1>4
<1> QED
  BY <1>2, <1>3, <1>5, <1>6, AddsStep

LEMMA SomethingAdds ==
  ASSUME NEW wt, NEW S, IsFiniteSet(S)
  PROVE  Adds(Adding(wt, S), wt, S)
<1> SUFFICES ASSUME ~ \E g : Adds(g, wt, S) PROVE FALSE
  BY DEF Adding
<1> DEFINE B == {T \in SUBSET S : ~ \E g : Adds(g, wt, T)}
<1>1. PICK T \in B : \A U \in B : U \subseteq T => U = T
  <2>1. B # {} /\ B \subseteq SUBSET S
    OBVIOUS
  <2> HIDE DEF B
  <2> QED
    BY <2>1, Minimal
<1> DEFINE Part(V) == Adding(wt, V)
           g == [V \in SUBSET T |->
                   IF V = {} THEN 0
                   ELSE wt[Any(V)] + Part(V \ {Any(V)})[V \ {Any(V)}]]
<1>2. \A V \in SUBSET T : V # T => Adds(Part(V), wt, V)
  BY <1>1 DEF Adding
<1>3. \A V \in SUBSET T : V # T => g[V] = Part(V)[V]
  <2> TAKE V \in SUBSET T
  <2> HAVE V # T
  <2> DEFINE W == V \ {Any(V)}
  <2>1. V \in SUBSET V /\ Adds(Part(V), wt, V) /\ W \in SUBSET T
    BY <1>2
  <2>2. CASE V = {}
    BY <2>1, <2>2, AddsStep
  <2>3. CASE V # {}
    <3>1. W # T /\ W \subseteq V
      OBVIOUS
    <3>2. Adds(Part(W), wt, W)
      BY <1>2, <2>1, <3>1
    <3>3. IsFiniteSet(W)
      BY <2>1, FS_Subset
    <3>4. Part(V)[W] = Part(W)[W]
      BY <2>1, <3>1, <3>2, <3>3, AddsOnce
    <3>5. Part(V)[V] = wt[Any(V)] + Part(V)[W]
      BY <2>1, <2>3, AddsStep
    <3> QED
      BY <2>3, <3>4, <3>5
  <2> QED
    BY <2>2, <2>3
<1>4. Adds(g, wt, T)
  <2>1. \A V \in SUBSET T :
          g[V] = IF V = {} THEN 0 ELSE wt[Any(V)] + g[V \ {Any(V)}]
    <3> TAKE V \in SUBSET T
    <3>1. V # {} => V \ {Any(V)} # T /\ V \ {Any(V)} \in SUBSET T
      BY AnyOne
    <3>2. V # {} => g[V \ {Any(V)}] = Part(V \ {Any(V)})[V \ {Any(V)}]
      BY <1>3, <3>1
    <3> QED
      BY <3>2
  <2> HIDE DEF Part
  <2>2. g = [V \in SUBSET T |-> g[V]]
    OBVIOUS
  <2> HIDE DEF g
  <2> QED
    BY <2>1, <2>2 DEF Adds, Any
<1> QED
  BY <1>1, <1>4

\* The same weights have the same sum.
LEMMA TotalStands ==
  ASSUME NEW wt, NEW wu, NEW S, IsFiniteSet(S),
         \A e \in S : wt[e] = wu[e]
  PROVE  Total(wt, S) = Total(wu, S)
<1>1. Adds(Adding(wt, S), wt, S) /\ Adds(Adding(wu, S), wu, S)
  BY SomethingAdds
<1> QED
  BY <1>1, AddsOnce DEF Total

LEMMA TotalStep ==
  ASSUME NEW wt, NEW S, IsFiniteSet(S)
  PROVE  Total(wt, S) = IF S = {} THEN 0
                        ELSE wt[Any(S)] + Total(wt, S \ {Any(S)})
<1>1. Adds(Adding(wt, S), wt, S)
  BY SomethingAdds
<1>2. CASE S = {}
  BY <1>1, <1>2, AddsStep DEF Total
<1>3. CASE S # {}
  <2> DEFINE T == S \ {Any(S)}
  <2>1. IsFiniteSet(T)
    BY FS_Subset
  <2>2. Adds(Adding(wt, T), wt, T)
    BY <2>1, SomethingAdds
  <2>3. Adding(wt, S)[T] = Adding(wt, T)[T]
    BY <1>1, <2>1, <2>2, AddsOnce
  <2> QED
    BY <1>1, <1>3, <2>3, AddsStep DEF Total
<1> QED
  BY <1>2, <1>3

LEMMA TotalIsNat ==
  ASSUME NEW wt, NEW S, IsFiniteSet(S), \A e \in S : wt[e] \in Nat
  PROVE  Total(wt, S) \in Nat
<1> SUFFICES ASSUME Total(wt, S) \notin Nat PROVE FALSE
  OBVIOUS
<1> DEFINE B == {T \in SUBSET S : Total(wt, T) \notin Nat}
<1>1. PICK T \in B : \A U \in B : U \subseteq T => U = T
  <2>1. B # {} /\ B \subseteq SUBSET S
    OBVIOUS
  <2> HIDE DEF B
  <2> QED
    BY <2>1, Minimal
<1>2. IsFiniteSet(T)
  BY FS_Subset
<1>3. T # {}
  <2> SUFFICES ASSUME T = {} PROVE FALSE
    OBVIOUS
  <2>1. Total(wt, T) = 0 /\ Total(wt, T) \notin Nat
    BY <1>2, TotalStep
  <2> QED
    BY <2>1
<1>4. Any(T) \in T
  BY <1>3, AnyOne
<1>5. Total(wt, T \ {Any(T)}) \in Nat /\ wt[Any(T)] \in Nat
  BY <1>1, <1>4
<1> QED
  BY <1>2, <1>3, <1>5, TotalStep

\* The order does not matter: any element may be taken out first.
LEMMA TotalTakesOut ==
  ASSUME NEW wt, NEW S, IsFiniteSet(S), \A e \in S : wt[e] \in Nat,
         NEW x \in S
  PROVE  Total(wt, S) = wt[x] + Total(wt, S \ {x})
<1> SUFFICES ASSUME Total(wt, S) # wt[x] + Total(wt, S \ {x}) PROVE FALSE
  OBVIOUS
<1> DEFINE B == {T \in SUBSET S :
                   \E y \in T : Total(wt, T) # wt[y] + Total(wt, T \ {y})}
<1>1. PICK T \in B : \A U \in B : U \subseteq T => U = T
  <2>1. B # {} /\ B \subseteq SUBSET S
    OBVIOUS
  <2> HIDE DEF B
  <2> QED
    BY <2>1, Minimal
<1>2. PICK y \in T : Total(wt, T) # wt[y] + Total(wt, T \ {y})
  OBVIOUS
<1> DEFINE a == Any(T)
<1>3. IsFiniteSet(T) /\ a \in T
  BY FS_Subset, AnyOne
<1> HIDE DEF a
<1>4. Total(wt, T) = wt[a] + Total(wt, T \ {a})
  BY <1>3, TotalStep DEF a
<1>5. a # y
  BY <1>2, <1>4
<1>6. /\ Total(wt, T \ {a}) = wt[y] + Total(wt, (T \ {a}) \ {y})
      /\ Total(wt, T \ {y}) = wt[a] + Total(wt, (T \ {y}) \ {a})
  <2>1. \A z \in T : T \ {z} \in SUBSET S /\ T \ {z} \notin B
    BY <1>1
  <2>2. \A z \in T : \A v \in T \ {z} :
          Total(wt, T \ {z}) = wt[v] + Total(wt, (T \ {z}) \ {v})
    BY <2>1
  <2>3. y \in T \ {a} /\ a \in T \ {y}
    BY <1>3, <1>5
  <2> QED
    BY <1>3, <2>2, <2>3
<1>7. (T \ {a}) \ {y} = (T \ {y}) \ {a} /\ IsFiniteSet((T \ {y}) \ {a})
  BY <1>3, FS_Subset
<1>8. /\ Total(wt, (T \ {y}) \ {a}) \in Nat
      /\ wt[a] \in Nat /\ wt[y] \in Nat
  BY <1>3, <1>7, TotalIsNat
<1>9. Total(wt, T) = wt[y] + Total(wt, T \ {y})
  <2>1. Total(wt, T \ {a}) = wt[y] + Total(wt, (T \ {y}) \ {a})
    BY <1>6, <1>7
  <2> QED
    BY <1>4, <1>6, <1>8, <2>1
<1> QED
  BY <1>2, <1>9

LEMMA TotalWithout ==
  ASSUME NEW wt, NEW S, IsFiniteSet(S), \A e \in S : wt[e] \in Nat,
         NEW x
  PROVE  Total(wt, S \ {x}) <= Total(wt, S)
<1>1. IsFiniteSet(S \ {x})
  BY FS_Subset
<1>2. Total(wt, S \ {x}) \in Nat /\ Total(wt, S) \in Nat
  BY <1>1, TotalIsNat
<1>3. CASE x \in S
  <2>1. Total(wt, S) = wt[x] + Total(wt, S \ {x}) /\ wt[x] \in Nat
    BY <1>3, TotalTakesOut
  <2> QED
    BY <1>2, <2>1
<1>4. CASE x \notin S
  <2>1. S \ {x} = S
    BY <1>4
  <2> QED
    BY <1>2, <2>1
<1> QED
  BY <1>3, <1>4

\* A part adds up to no more, and the rest to what is left.
LEMMA TotalSplits ==
  ASSUME NEW wt, NEW S, IsFiniteSet(S), \A e \in S : wt[e] \in Nat,
         NEW T, T \subseteq S
  PROVE  Total(wt, S) = Total(wt, T) + Total(wt, S \ T)
<1> DEFINE Bad(U) == Total(wt, U \cup (S \ T)) # Total(wt, U) + Total(wt, S \ T)
           B == {U \in SUBSET T : Bad(U)}
<1> SUFFICES ASSUME B # {} PROVE FALSE
  <2>1. T \cup (S \ T) = S
    OBVIOUS
  <2> QED
    BY <2>1
<1>1. PICK U \in B : \A V \in B : V \subseteq U => V = U
  <2>1. B \subseteq SUBSET T /\ IsFiniteSet(T)
    BY FS_Subset
  <2> HIDE DEF B
  <2> QED
    BY <2>1, Minimal
<1> DEFINE R == S \ T
<1>2. /\ IsFiniteSet(U) /\ IsFiniteSet(R) /\ IsFiniteSet(U \cup R)
      /\ U \cap R = {} /\ U \cup R \subseteq S
  BY FS_Subset
<1>3. Bad(U)
  OBVIOUS
<1>4. Total(wt, R) \in Nat
  BY <1>2, TotalIsNat
<1>5. U # {}
  <2> SUFFICES ASSUME U = {} PROVE FALSE
    OBVIOUS
  <2>1. Total(wt, U) = 0
    BY <1>2, TotalStep
  <2>2. U \cup R = R
    OBVIOUS
  <2> QED
    BY <1>3, <1>4, <2>1, <2>2
<1>6. PICK x : x \in U
  BY <1>5
<1> DEFINE V == U \ {x}
<1>7. Total(wt, V \cup R) = Total(wt, V) + Total(wt, R)
  <2>1. V \in SUBSET T /\ V \subseteq U /\ V # U
    BY <1>6
  <2>2. ~ Bad(V)
    BY <1>1, <2>1
  <2> QED
    BY <2>2
<1>8. Total(wt, U) = wt[x] + Total(wt, V)
  BY <1>2, <1>6, TotalTakesOut
<1>9. Total(wt, U \cup R) = wt[x] + Total(wt, V \cup R)
  <2>1. (U \cup R) \ {x} = V \cup R /\ x \in U \cup R
    BY <1>2, <1>6
  <2> QED
    BY <1>2, <2>1, TotalTakesOut
<1>10. wt[x] \in Nat /\ Total(wt, V) \in Nat
  <2>1. IsFiniteSet(V) /\ \A e \in V : wt[e] \in Nat
    BY <1>2, FS_Subset
  <2> QED
    BY <1>2, <1>6, <2>1, TotalIsNat
<1> HIDE DEF V, R
<1>11. Total(wt, U \cup R) = Total(wt, U) + Total(wt, R)
  BY <1>4, <1>7, <1>8, <1>9, <1>10
<1> QED
  BY <1>3, <1>11 DEF R

LEMMA TotalOfPart ==
  ASSUME NEW wt, NEW S, IsFiniteSet(S), \A e \in S : wt[e] \in Nat,
         NEW T, T \subseteq S
  PROVE  Total(wt, T) <= Total(wt, S)
<1>1. Total(wt, S) = Total(wt, T) + Total(wt, S \ T)
  BY TotalSplits
<1>2. IsFiniteSet(T) /\ IsFiniteSet(S \ T)
  BY FS_Subset
<1>3. Total(wt, T) \in Nat /\ Total(wt, S \ T) \in Nat
  BY <1>2, TotalIsNat
<1> QED
  BY <1>1, <1>3

LEMMA TotalOfEqual ==
  ASSUME NEW wt, NEW S, IsFiniteSet(S), NEW m \in Nat, \A e \in S : wt[e] = m
  PROVE  Total(wt, S) = Cardinality(S) * m
<1> SUFFICES ASSUME Total(wt, S) # Cardinality(S) * m PROVE FALSE
  OBVIOUS
<1> DEFINE B == {T \in SUBSET S : Total(wt, T) # Cardinality(T) * m}
<1>1. PICK T \in B : \A U \in B : U \subseteq T => U = T
  <2>1. B # {} /\ B \subseteq SUBSET S
    OBVIOUS
  <2> HIDE DEF B
  <2> QED
    BY <2>1, Minimal
<1>2. IsFiniteSet(T)
  BY FS_Subset
<1>3. T # {}
  <2> SUFFICES ASSUME T = {} PROVE FALSE
    OBVIOUS
  <2>1. Total(wt, T) = 0 /\ Cardinality(T) = 0
    BY <1>2, TotalStep, FS_EmptySet
  <2> QED
    BY <1>1, <2>1
<1>4. PICK x : x \in T
  BY <1>3
<1> DEFINE U == T \ {x}
<1>5. /\ Total(wt, U) = Cardinality(U) * m
      /\ Cardinality(T) = Cardinality(U) + 1 /\ Cardinality(U) \in Nat
  <2>1. U \in SUBSET S /\ U # T /\ U \subseteq T
    BY <1>4
  <2>2. Cardinality(U) = Cardinality(T) - 1 /\ IsFiniteSet(U)
    BY <1>2, <1>4, FS_RemoveElement
  <2>3. Cardinality(T) \in Nat /\ Cardinality(U) \in Nat
    BY <1>2, <2>2, FS_CardinalityType
  <2> QED
    BY <1>1, <2>1, <2>2, <2>3
<1>6. Total(wt, T) = m + Total(wt, U)
  BY <1>2, <1>4, TotalTakesOut
<1>7. Total(wt, T) # Cardinality(T) * m
  OBVIOUS
<1> HIDE DEF U, B
<1>8. (Cardinality(U) + 1) * m = Cardinality(U) * m + m
  BY <1>5
<1> QED
  BY <1>5, <1>6, <1>7, <1>8

LEMMA TotalIsBounded ==
  ASSUME NEW wt, NEW S, IsFiniteSet(S), NEW m \in Nat,
         \A e \in S : wt[e] \in Nat /\ wt[e] <= m
  PROVE  Total(wt, S) <= Cardinality(S) * m
<1> SUFFICES ASSUME ~ (Total(wt, S) <= Cardinality(S) * m) PROVE FALSE
  OBVIOUS
<1> DEFINE B == {T \in SUBSET S : ~ (Total(wt, T) <= Cardinality(T) * m)}
<1>1. PICK T \in B : \A U \in B : U \subseteq T => U = T
  <2>1. B # {} /\ B \subseteq SUBSET S
    OBVIOUS
  <2> HIDE DEF B
  <2> QED
    BY <2>1, Minimal
<1>2. IsFiniteSet(T)
  BY FS_Subset
<1>3. T # {}
  <2> SUFFICES ASSUME T = {} PROVE FALSE
    OBVIOUS
  <2>1. Total(wt, T) = 0 /\ Cardinality(T) = 0
    BY <1>2, TotalStep, FS_EmptySet
  <2> QED
    BY <1>1, <2>1
<1>4. PICK x : x \in T
  BY <1>3
<1> DEFINE U == T \ {x}
<1>5. /\ Total(wt, U) <= Cardinality(U) * m
      /\ Cardinality(T) = Cardinality(U) + 1 /\ Cardinality(U) \in Nat
      /\ Total(wt, U) \in Nat
  <2>1. U \in SUBSET S /\ U # T /\ U \subseteq T
    BY <1>4
  <2>2. Cardinality(U) = Cardinality(T) - 1 /\ IsFiniteSet(U)
    BY <1>2, <1>4, FS_RemoveElement
  <2>3. Cardinality(T) \in Nat /\ Cardinality(U) \in Nat
    BY <1>2, <2>2, FS_CardinalityType
  <2>4. Total(wt, U) \in Nat
    BY <2>1, <2>2, TotalIsNat
  <2> QED
    BY <1>1, <2>1, <2>2, <2>3, <2>4
<1>6. Total(wt, T) = wt[x] + Total(wt, U) /\ wt[x] \in Nat /\ wt[x] <= m
  BY <1>2, <1>4, TotalTakesOut
<1>7. ~ (Total(wt, T) <= Cardinality(T) * m)
  OBVIOUS
<1> HIDE DEF U, B
<1>8. (Cardinality(U) + 1) * m = Cardinality(U) * m + m
  BY <1>5
<1>9. Cardinality(U) * m \in Nat
  BY <1>5
<1> QED
  BY <1>5, <1>6, <1>7, <1>8, <1>9

\* The sum the model takes of the minutes of entries is such a total.
LEMMA MinutesAddUp ==
  ASSUME NEW S, IsFiniteSet(S), NEW wt,
         \A e \in S : wt[e] = Minutes(work[e].span)
  PROVE  MapThenSumSet(LAMBDA e : Minutes(work[e].span), S) = Total(wt, S)
<1> DEFINE Sums(g) ==
             g = [T \in SUBSET S |->
                    IF T = {} THEN 0
                    ELSE LET x == CHOOSE x \in T : TRUE
                         IN  Minutes(work[x].span) + g[T \ {x}]]
<1>1. MapThenSumSet(LAMBDA e : Minutes(work[e].span), S)
        = (CHOOSE g : Sums(g))[S]
  BY DEF MapThenSumSet, MapThenFoldSet
<1>2. ASSUME NEW g
      PROVE  Sums(g) <=> Adds(g, wt, S)
  <2>1. \A T \in SUBSET S :
          (IF T = {} THEN 0 ELSE LET x == CHOOSE x \in T : TRUE
                                IN  Minutes(work[x].span) + g[T \ {x}])
            = (IF T = {} THEN 0 ELSE LET x == CHOOSE x \in T : TRUE
                                    IN  wt[x] + g[T \ {x}])
    <3> TAKE T \in SUBSET S
    <3>1. T # {} => (CHOOSE x \in T : TRUE) \in S
      BY AnyOne DEF Any
    <3> QED
      BY <3>1
  <2> QED
    BY <2>1 DEF Adds
<1> HIDE DEF Sums
<1>3. Sums(CHOOSE g : Sums(g))
  BY <1>2, SomethingAdds
<1>4. (CHOOSE g : Sums(g))[S] = Adding(wt, S)[S]
  BY <1>2, <1>3, SomethingAdds, AddsOnce
<1> QED
  BY <1>1, <1>4 DEF Total

-----------------------------------------------------------------------------
(* What the requests served at a time can add up to *)

Live(st, e) == st[e] \notin {"ABSENT", "REJECTED"}

\* A submission or a decision under way may make the entry count again.
Revives(rq, h, e) == rq[h].op \in {"submit", "decide"} /\ rq[h].entry = e
Writes(rq, h) == rq[h].op \in {"create", "edit"}

\* Rows that may count together once the requests in flight are through: those
\* of entries, and those a request will write, in place of the entry it edits.
Possible(st, rq, S) ==
    /\ S \subseteq Entries \cup Handlers
    /\ \A e \in S \cap Entries :
         Live(st, e) \/ \E h \in Handlers : Revives(rq, h, e)
    /\ \A h \in S \cap Handlers :
         Writes(rq, h) /\ (rq[h].op = "edit" => rq[h].entry \notin S)

\* The weight of each row under a measure of work.
Load(wt, wk, rq) ==
    [x \in Entries \cup Handlers |->
       IF x \in Entries THEN IF wk[x] \in Work THEN wt[wk[x]] ELSE 0
       ELSE IF Writes(rq, x) THEN wt[rq[x].work] ELSE 0]

Written(st) == {e \in Entries : st[e] # "ABSENT"}

\* Every request leaves room for m, so no rows that may count together weigh
\* more than m for each request served at a time.
Loaded(wt, m, st, wk, rq) ==
    /\ IsFiniteSet(Written(st))
    /\ \A x \in Entries \cup Handlers : Load(wt, wk, rq)[x] <= m
    /\ \A S : Possible(st, rq, S)
                => Total(Load(wt, wk, rq), S) <= Cardinality(Handlers) * m

\* The types of the two tables and the requests, before or after a step.
Typed(st, wk, rq) ==
    /\ st \in [Entries -> EntryStatus]
    /\ wk \in [Entries -> Work \cup {NoWork}]
    /\ \A e \in Entries : st[e] # "ABSENT" => wk[e] \in Work
    /\ rq \in [Handlers -> Request]
    /\ \A h \in Handlers : rq[h].op \in {"edit", "submit", "decide"}
                             => st[rq[h].entry] # "ABSENT"

\* What a check found out for work w beside the entries outside X.
Room(wt, m, st, wk, rq, w, X) ==
    LET B == {e \in Entries \ X : Live(st, e)} IN
      /\ wt[w] <= m
      /\ wt[w] = 0 \/ wt[w] + Total(Load(wt, wk, rq), B) <= m

LEMMA LoadFacts ==
  ASSUME NEW st, NEW wk, NEW rq, Typed(st, wk, rq), NEW wt \in [Work -> Nat],
         IsFiniteSet(Written(st)), NEW S, Possible(st, rq, S)
  PROVE  /\ IsFiniteSet(S)
         /\ \A x \in Entries \cup Handlers : Load(wt, wk, rq)[x] \in Nat
<1>1. \A h \in Handlers : Writes(rq, h) => rq[h].work \in Work
  BY RequestFields DEF Typed, Writes
<1>2. \A x \in Entries \cup Handlers : Load(wt, wk, rq)[x] \in Nat
  BY <1>1 DEF Load
<1>3. S \subseteq Written(st) \cup Handlers
  <2>1. \A e \in Entries : \A h \in Handlers :
          Revives(rq, h, e) => st[e] # "ABSENT"
    BY DEF Typed, Revives
  <2> QED
    BY <2>1 DEF Possible, Written, Live
<1>4. IsFiniteSet(Written(st) \cup Handlers)
  BY HandlerAssumption, FS_Union
<1> QED
  BY <1>2, <1>3, <1>4, FS_Subset

\* A step that leaves the tables alone and the handler without work to write
\* makes no more rows possible.
LEMMA LoadAside ==
  ASSUME NEW st, NEW wk, NEW rq, Typed(st, wk, rq), NEW wt \in [Work -> Nat],
         NEW m \in Nat, Loaded(wt, m, st, wk, rq), NEW h \in Handlers, NEW r,
         r.op \notin {"create", "edit"},
         r.op \in {"submit", "decide"} => Live(st, r.entry)
  PROVE  Loaded(wt, m, st, wk, [rq EXCEPT ![h] = r])
<1> DEFINE rr == [rq EXCEPT ![h] = r]
<1>1. \A x \in Handlers : rr[x] = IF x = h THEN r ELSE rq[x]
  BY DEF Typed
<1> HIDE DEF rr
<1>2. \A x \in Entries \cup Handlers :
        Load(wt, wk, rr)[x] = IF x = h THEN 0 ELSE Load(wt, wk, rq)[x]
  BY <1>1, HandlerAssumption DEF Load, Writes
<1>3. \A x \in Entries \cup Handlers : Load(wt, wk, rr)[x] <= m
  BY <1>2 DEF Loaded
<1>4. ASSUME NEW S, Possible(st, rr, S)
      PROVE  Total(Load(wt, wk, rr), S) <= Cardinality(Handlers) * m
  <2>1. h \notin S
    BY <1>1, <1>4 DEF Possible, Writes
  <2>2. Possible(st, rq, S)
    <3>1. \A e \in S \cap Entries :
            Live(st, e) \/ \E x \in Handlers : Revives(rq, x, e)
      BY <1>1, <1>4 DEF Possible, Revives
    <3>2. \A x \in S \cap Handlers : rr[x] = rq[x]
      BY <1>1, <2>1
    <3> QED
      BY <1>4, <3>1, <3>2 DEF Possible, Writes
  <2>3. IsFiniteSet(S)
    BY <2>2, LoadFacts DEF Loaded
  <2>4. \A x \in S : Load(wt, wk, rr)[x] = Load(wt, wk, rq)[x]
    BY <1>2, <2>1, <2>2 DEF Possible
  <2>5. Total(Load(wt, wk, rr), S) = Total(Load(wt, wk, rq), S)
    BY <2>3, <2>4, TotalStands
  <2> QED
    BY <2>2, <2>5 DEF Loaded
<1> QED
  BY <1>3, <1>4 DEF Loaded, rr

\* Beside the work a handler will write, all that its check did not count are
\* rows of the other handlers.
LEMMA OthersAreFew ==
  ASSUME NEW st, NEW rq, NEW h \in Handlers, NEW R,
         R \subseteq (Entries \cup Handlers) \ {h}, IsFiniteSet(R),
         \A x \in R \cap Entries :
           \E k \in Handlers \ {h} : Revives(rq, k, x),
         \A x \in R \cap Handlers : Writes(rq, x)
  PROVE  /\ Cardinality(Handlers) \in Nat /\ Cardinality(R) \in Nat
         /\ Cardinality(R) + 1 <= Cardinality(Handlers)
<1> DEFINE By(x) == IF x \in Handlers THEN x
                    ELSE CHOOSE k \in Handlers \ {h} : Revives(rq, k, x)
           f == [x \in R |-> By(x)]
           O == Handlers \ {h}
<1>1. \A x \in R : /\ By(x) \in O
                   /\ x \in Handlers => By(x) = x
                   /\ x \in Entries => Revives(rq, By(x), x)
  BY HandlerAssumption
<1>2. \A x, y \in R : By(x) = By(y) => x = y
  <2> SUFFICES ASSUME NEW x \in R, NEW y \in R, By(x) = By(y) PROVE x = y
    OBVIOUS
  <2> HIDE DEF By
  <2>1. CASE x \in Handlers /\ y \in Handlers
    BY <1>1, <2>1
  <2>2. CASE x \in Entries /\ y \in Entries
    BY <1>1, <2>2 DEF Revives
  <2>3. CASE x \in Handlers /\ y \in Entries
    BY <1>1, <2>3 DEF Revives, Writes
  <2>4. CASE x \in Entries /\ y \in Handlers
    BY <1>1, <2>4 DEF Revives, Writes
  <2> QED
    BY <2>1, <2>2, <2>3, <2>4
<1>3. f \in Injection(R, O)
  <2> HIDE DEF By, O
  <2>1. f \in [R -> O] /\ \A x \in R : f[x] = By(x)
    BY <1>1
  <2> HIDE DEF f
  <2> QED
    BY <1>2, <2>1 DEF Injection, IsInjective
<1>4. /\ IsFiniteSet(O) /\ Cardinality(O) = Cardinality(Handlers) - 1
  BY HandlerAssumption, FS_RemoveElement
<1>5. Cardinality(R) <= Cardinality(O)
  BY <1>3, <1>4, FS_Injection
<1>6. /\ Cardinality(Handlers) \in Nat /\ Cardinality(O) \in Nat
      /\ Cardinality(R) \in Nat
  BY <1>4, HandlerAssumption, FS_CardinalityType
<1> QED
  BY <1>4, <1>5, <1>6

\* A request that passed its check takes the place of the handler.
LEMMA LoadRead ==
  ASSUME NEW st, NEW wk, NEW rq, Typed(st, wk, rq), NEW wt \in [Work -> Nat],
         NEW m \in Nat, Loaded(wt, m, st, wk, rq), NEW h \in Handlers,
         rq[h] = Idle, NEW r \in Request, NEW X,
         \/ r.op = "create" /\ X = {}
         \/ r.op = "edit" /\ X = {r.entry},
         Room(wt, m, st, wk, rq, r.work, X)
  PROVE  Loaded(wt, m, st, wk, [rq EXCEPT ![h] = r])
<1> DEFINE rr == [rq EXCEPT ![h] = r]
           old == Load(wt, wk, rq)
           new == Load(wt, wk, rr)
           B == {e \in Entries \ X : Live(st, e)}
           n == Cardinality(Handlers)
<1>1. /\ \A x \in Handlers : rr[x] = IF x = h THEN r ELSE rq[x]
      /\ ~ Writes(rq, h) /\ \A e : ~ Revives(rq, h, e)
      /\ r.op \in {"create", "edit"} /\ r.work \in Work
  BY RequestFields, IdleIsRequest DEF Typed, Writes, Revives, Idle
<1> HIDE DEF rr
<1>2. \A x \in Entries \cup Handlers :
        new[x] = IF x = h THEN wt[r.work] ELSE old[x]
  BY <1>1, HandlerAssumption DEF Load, Writes
<1>3. wt[r.work] \in Nat /\ wt[r.work] <= m
  BY <1>1 DEF Room
<1>4. \A x \in Entries \cup Handlers : new[x] <= m
  BY <1>2, <1>3 DEF Loaded
<1>5. ASSUME NEW S, Possible(st, rr, S)
      PROVE  Total(new, S) <= n * m
  <2> DEFINE T == S \ {h}
  <2>1. Possible(st, rq, T)
    <3>1. \A e \in T \cap Entries :
            Live(st, e) \/ \E x \in Handlers : Revives(rq, x, e)
      BY <1>1, <1>5 DEF Possible, Revives
    <3>2. \A x \in T \cap Handlers : rr[x] = rq[x]
      BY <1>1
    <3> QED
      BY <1>5, <3>1, <3>2 DEF Possible, Writes
  <2>2. /\ IsFiniteSet(T) /\ IsFiniteSet(S)
        /\ \A x \in Entries \cup Handlers : old[x] \in Nat
    <3>1. IsFiniteSet(T) /\ \A x \in Entries \cup Handlers : old[x] \in Nat
      BY <2>1, LoadFacts DEF Loaded
    <3>2. IsFiniteSet(T \cup {h}) /\ S \subseteq T \cup {h}
      BY <3>1, FS_AddElement
    <3> QED
      BY <3>1, <3>2, FS_Subset
  <2>3. S \subseteq Entries \cup Handlers /\ T \subseteq Entries \cup Handlers
    BY <1>5 DEF Possible
  <2>4. Total(new, T) = Total(old, T)
    <3>1. \A x \in T : new[x] = old[x]
      BY <1>2, <2>3
    <3> QED
      BY <2>2, <3>1, TotalStands
  <2>5. Total(old, T) <= n * m
    BY <2>1 DEF Loaded
  <2>6. CASE h \notin S
    <3>1. T = S
      BY <2>6
    <3> QED
      BY <2>4, <2>5, <3>1
  <2>7. CASE h \in S
    <3>0. \A x \in S : new[x] \in Nat
      BY <1>2, <1>3, <2>2, <2>3
    <3> HIDE DEF new, old
    <3>1. Total(new, S) = wt[r.work] + Total(old, T)
      <4>1. Total(new, S) = new[h] + Total(new, T)
        BY <2>2, <2>7, <3>0, TotalTakesOut
      <4> QED
        BY <1>2, <2>4, <4>1
    <3>2. CASE wt[r.work] = 0
      <4>1. Total(old, T) \in Nat
        BY <2>2, <2>3, TotalIsNat
      <4> QED
        BY <2>5, <3>1, <3>2, <4>1
    <3>3. CASE wt[r.work] # 0
      <4>1. wt[r.work] + Total(old, B) <= m
        BY <3>3 DEF Room, old
      <4> DEFINE C == T \cap B
                 R == T \ C
      <4>2. Total(old, T) = Total(old, C) + Total(old, R)
        BY <2>2, <2>3, TotalSplits
      <4>3. IsFiniteSet(B) /\ \A x \in B : old[x] \in Nat
        <5>1. B \subseteq Written(st)
          BY DEF Written, Live
        <5> QED
          BY <2>2, <5>1, FS_Subset DEF Loaded
      <4>4. Total(old, C) <= Total(old, B)
        BY <4>3, TotalOfPart
      <4>5. IsFiniteSet(C) /\ IsFiniteSet(R)
        BY <2>2, FS_Subset
      <4>6. /\ Total(old, C) \in Nat /\ Total(old, B) \in Nat
            /\ Total(old, R) \in Nat
        BY <2>2, <2>3, <4>3, <4>5, TotalIsNat
      <4>7. /\ n \in Nat /\ Cardinality(R) \in Nat
            /\ Cardinality(R) + 1 <= n
        <5>1. R \subseteq (Entries \cup Handlers) \ {h}
          BY <2>3
        <5>2. ASSUME NEW x \in R \cap Entries
              PROVE  \E k \in Handlers \ {h} : Revives(rq, k, x)
          <6>1. x \in S \cap Entries /\ x \notin X
            <7>1. r.op = "edit" => r.entry \notin S
              BY <1>1, <1>5, <2>7 DEF Possible
            <7> QED
              BY <5>2, <7>1
          <6>2. ~ Live(st, x)
            BY <5>2, <6>1
          <6>3. PICK k \in Handlers : Revives(rq, k, x)
            BY <2>1, <5>2, <6>2 DEF Possible
          <6> QED
            BY <1>1, <6>3
        <5>3. \A x \in R \cap Handlers : Writes(rq, x)
          BY <2>1 DEF Possible
        <5> QED
          BY <4>5, <5>1, <5>2, <5>3, OthersAreFew
      <4>8. Total(old, R) <= Cardinality(R) * m
        <5>1. \A x \in R : old[x] \in Nat /\ old[x] <= m
          BY <2>2, <2>3 DEF Loaded, old
        <5> QED
          BY <4>5, <5>1, TotalIsBounded
      <4> HIDE DEF B, C, R, n
      <4>9. (Cardinality(R) + 1) * m <= n * m
        BY <4>7
      <4>10. (Cardinality(R) + 1) * m = Cardinality(R) * m + m
        BY <4>7
      <4>11. Cardinality(R) * m \in Nat /\ n * m \in Nat
        BY <4>7
      <4> QED
        BY <1>3, <3>1, <4>1, <4>2, <4>4, <4>6, <4>8, <4>9, <4>10, <4>11
    <3> QED
      BY <3>2, <3>3
  <2> QED
    BY <2>6, <2>7
<1> QED
  BY <1>4, <1>5 DEF Loaded, rr

\* A write puts the work of the request in the place of its handler.
LEMMA LoadWrite ==
  ASSUME NEW st, NEW wk, NEW rq, Typed(st, wk, rq), NEW wt \in [Work -> Nat],
         NEW m \in Nat, Loaded(wt, m, st, wk, rq), NEW h \in Handlers,
         NEW e \in Entries, NEW to \in EntryStatus \ {"ABSENT"},
         \/ rq[h].op = "create" /\ st[e] = "ABSENT"
         \/ rq[h].op = "edit" /\ rq[h].entry = e
  PROVE  Loaded(wt, m, [st EXCEPT ![e] = to], [wk EXCEPT ![e] = rq[h].work],
                [rq EXCEPT ![h] = Idle])
<1> DEFINE ss == [st EXCEPT ![e] = to]
           ww == [wk EXCEPT ![e] = rq[h].work]
           rr == [rq EXCEPT ![h] = Idle]
           old == Load(wt, wk, rq)
           new == Load(wt, ww, rr)
<1>1. /\ \A x \in Handlers : rr[x] = IF x = h THEN Idle ELSE rq[x]
      /\ \A d \in Entries : ss[d] = IF d = e THEN to ELSE st[d]
      /\ \A d \in Entries : ww[d] = IF d = e THEN rq[h].work ELSE wk[d]
      /\ rq[h].work \in Work /\ Writes(rq, h) /\ ~ Writes(rr, h)
      /\ \A d : ~ Revives(rr, h, d)
  BY RequestFields, IdleIsRequest DEF Typed, Writes, Revives, Idle
<1> HIDE DEF ss, ww, rr
<1>2. /\ new[e] = old[h]
      /\ \A x \in (Entries \cup Handlers) \ {e, h} : new[x] = old[x]
      /\ new[h] = 0
  BY <1>1, HandlerAssumption DEF Load, Writes
<1>3. IsFiniteSet(Written(ss))
  <2>1. IsFiniteSet(Written(st) \cup {e})
    BY FS_AddElement DEF Loaded
  <2>2. Written(ss) \subseteq Written(st) \cup {e}
    BY <1>1 DEF Written
  <2> QED
    BY <2>1, <2>2, FS_Subset
<1>4. \A x \in Entries \cup Handlers : new[x] <= m
  <2> HIDE DEF new, old
  <2>1. \A x \in Entries \cup Handlers : old[x] <= m
    BY DEF Loaded, old
  <2> QED
    BY <1>2, <2>1
<1>5. ASSUME NEW S, Possible(ss, rr, S)
      PROVE  Total(new, S) <= Cardinality(Handlers) * m
  <2>1. h \notin S /\ S \subseteq Entries \cup Handlers
    BY <1>1, <1>5 DEF Possible
  <2>2. \A d \in (S \cap Entries) \ {e} :
          Live(st, d) \/ \E k \in Handlers \ {h} : Revives(rq, k, d)
    <3> TAKE d \in (S \cap Entries) \ {e}
    <3>1. Live(ss, d) \/ \E k \in Handlers : Revives(rr, k, d)
      BY <1>5 DEF Possible
    <3>2. Live(ss, d) => Live(st, d)
      BY <1>1 DEF Live
    <3>3. \A k \in Handlers : Revives(rr, k, d) => k # h /\ Revives(rq, k, d)
      BY <1>1 DEF Revives
    <3> QED
      BY <3>1, <3>2, <3>3
  <2>3. \A k \in S \cap Handlers :
          Writes(rq, k) /\ (rq[k].op = "edit" => rq[k].entry \notin S)
    BY <1>1, <1>5, <2>1 DEF Possible, Writes
  <2>4. CASE e \notin S
    <3>1. Possible(st, rq, S)
      BY <2>1, <2>2, <2>3, <2>4 DEF Possible
    <3>2. IsFiniteSet(S)
      BY <3>1, LoadFacts DEF Loaded
    <3>3. \A x \in S : new[x] = old[x]
      BY <1>2, <2>1, <2>4
    <3>4. Total(new, S) = Total(old, S)
      BY <3>2, <3>3, TotalStands
    <3> QED
      BY <3>1, <3>4 DEF Loaded
  <2>5. CASE e \in S
    <3> DEFINE U == S \ {e}
               T == U \cup {h}
    <3>1. Possible(st, rq, T)
      <4>1. T \subseteq Entries \cup Handlers /\ e \notin T
        BY <2>1, HandlerAssumption
      <4>2. \A d \in T \cap Entries :
              Live(st, d) \/ \E k \in Handlers : Revives(rq, k, d)
        BY <2>2, HandlerAssumption
      <4>3. \A k \in (T \cap Handlers) \ {h} : rq[k].op = "edit"
              => rq[k].entry \notin T
        <5> TAKE k \in (T \cap Handlers) \ {h}
        <5>1. rq[k].op = "edit" => rq[k].entry \in Entries
          BY RequestFields DEF Typed
        <5> QED
          BY <2>3, <5>1, HandlerAssumption
      <4>4. rq[h].op = "edit" => rq[h].entry \notin T
        <5>1. rq[h].op = "edit" => rq[h].entry = e
          OBVIOUS
        <5> QED
          BY <4>1, <5>1
      <4>5. \A k \in T \cap Handlers : Writes(rq, k)
        BY <1>1, <2>3
      <4> HIDE DEF T
      <4> QED
        BY <4>1, <4>2, <4>3, <4>4, <4>5 DEF Possible
    <3>2. /\ IsFiniteSet(T) /\ \A x \in Entries \cup Handlers : old[x] \in Nat
      BY <3>1, LoadFacts DEF Loaded
    <3>3. IsFiniteSet(U) /\ IsFiniteSet(S)
      <4>1. IsFiniteSet(U) /\ IsFiniteSet(U \cup {e}) /\ S = U \cup {e}
        BY <2>5, <3>2, FS_Subset, FS_AddElement
      <4> QED
        BY <4>1
    <3> HIDE DEF new, old
    <3>4. \A x \in U : new[x] = old[x]
      BY <1>2, <2>1
    <3>5. Total(new, U) = Total(old, U)
      BY <3>3, <3>4, TotalStands
    <3>6. Total(new, S) = old[h] + Total(new, U)
      <4>1. \A x \in S : new[x] \in Nat
        BY <1>2, <2>1, <3>2
      <4> QED
        BY <1>2, <2>5, <3>3, <4>1, TotalTakesOut
    <3>7. Total(old, T) = old[h] + Total(old, U)
      <4>1. h \in T /\ T \ {h} = U
        BY <2>1
      <4>2. \A x \in T : old[x] \in Nat
        BY <2>1, <3>2
      <4> HIDE DEF T, U
      <4> QED
        BY <3>2, <4>1, <4>2, TotalTakesOut
    <3>8. Total(old, T) <= Cardinality(Handlers) * m
      BY <3>1 DEF Loaded, old
    <3> QED
      BY <3>5, <3>6, <3>7, <3>8
  <2> QED
    BY <2>4, <2>5
<1> QED
  BY <1>3, <1>4, <1>5 DEF Loaded, ss, ww, rr

\* An entry that a submission or a decision writes counted already.
LEMMA LoadStatus ==
  ASSUME NEW st, NEW wk, NEW rq, Typed(st, wk, rq), NEW wt \in [Work -> Nat],
         NEW m \in Nat, Loaded(wt, m, st, wk, rq), NEW h \in Handlers,
         rq[h].op \in {"submit", "decide"},
         NEW to \in EntryStatus \ {"ABSENT"}
  PROVE  Loaded(wt, m, [st EXCEPT ![rq[h].entry] = to], wk,
                [rq EXCEPT ![h] = Idle])
<1> DEFINE e == rq[h].entry
           ss == [st EXCEPT ![e] = to]
           rr == [rq EXCEPT ![h] = Idle]
<1>1. /\ \A x \in Handlers : rr[x] = IF x = h THEN Idle ELSE rq[x]
      /\ \A d \in Entries : ss[d] = IF d = e THEN to ELSE st[d]
      /\ e \in Entries /\ st[e] # "ABSENT" /\ Revives(rq, h, e)
      /\ ~ Writes(rq, h) /\ ~ Writes(rr, h) /\ \A d : ~ Revives(rr, h, d)
  BY RequestFields, IdleIsRequest DEF Typed, Writes, Revives, Idle
<1> HIDE DEF ss, rr, e
<1>2. Written(ss) = Written(st)
  BY <1>1 DEF Written
<1>3. \A x \in Entries \cup Handlers : Load(wt, wk, rr)[x] = Load(wt, wk, rq)[x]
  BY <1>1 DEF Load, Writes
<1>4. ASSUME NEW S, Possible(ss, rr, S)
      PROVE  Total(Load(wt, wk, rr), S) <= Cardinality(Handlers) * m
  <2>1. Possible(st, rq, S)
    <3>1. ASSUME NEW d \in S \cap Entries
          PROVE  Live(st, d) \/ \E k \in Handlers : Revives(rq, k, d)
      <4>1. Live(ss, d) \/ \E k \in Handlers : Revives(rr, k, d)
        BY <1>4, <3>1 DEF Possible
      <4>2. Live(ss, d) => Live(st, d) \/ d = e
        BY <1>1 DEF Live
      <4>3. \A k \in Handlers : Revives(rr, k, d) => Revives(rq, k, d)
        BY <1>1 DEF Revives
      <4> QED
        BY <1>1, <4>1, <4>2, <4>3
    <3>2. h \notin S
      BY <1>1, <1>4 DEF Possible
    <3>3. \A k \in S \cap Handlers : rr[k] = rq[k]
      BY <1>1, <3>2
    <3> QED
      BY <1>4, <3>1, <3>3 DEF Possible, Writes
  <2>2. IsFiniteSet(S) /\ S \subseteq Entries \cup Handlers
    BY <2>1, LoadFacts DEF Loaded, Possible
  <2>3. Total(Load(wt, wk, rr), S) = Total(Load(wt, wk, rq), S)
    BY <1>3, <2>2, TotalStands
  <2> QED
    BY <2>1, <2>3 DEF Loaded
<1> QED
  BY <1>2, <1>3, <1>4 DEF Loaded, ss, rr, e

\* Clocked time that no authorization covers weighs nothing.
LEMMA LoadClock ==
  ASSUME NEW st, NEW wk, NEW rq, Typed(st, wk, rq), NEW wt \in [Work -> Nat],
         NEW m \in Nat, Loaded(wt, m, st, wk, rq),
         NEW e \in Entries, st[e] = "ABSENT", NEW w \in Work, wt[w] = 0
  PROVE  Loaded(wt, m, [st EXCEPT ![e] = "DRAFT"], [wk EXCEPT ![e] = w], rq)
<1> DEFINE ss == [st EXCEPT ![e] = "DRAFT"]
           ww == [wk EXCEPT ![e] = w]
           old == Load(wt, wk, rq)
           new == Load(wt, ww, rq)
<1>1. /\ \A d \in Entries : ss[d] = IF d = e THEN "DRAFT" ELSE st[d]
      /\ \A d \in Entries : ww[d] = IF d = e THEN w ELSE wk[d]
  BY DEF Typed
<1> HIDE DEF ss, ww
<1>2. \A x \in Entries \cup Handlers : new[x] = IF x = e THEN 0 ELSE old[x]
  BY <1>1, HandlerAssumption DEF Load
<1>3. IsFiniteSet(Written(ss))
  <2>1. IsFiniteSet(Written(st) \cup {e})
    BY FS_AddElement DEF Loaded
  <2>2. Written(ss) \subseteq Written(st) \cup {e}
    BY <1>1 DEF Written
  <2> QED
    BY <2>1, <2>2, FS_Subset
<1>4. \A x \in Entries \cup Handlers : new[x] <= m
  BY <1>2 DEF Loaded
<1>5. ASSUME NEW S, Possible(ss, rq, S)
      PROVE  Total(new, S) <= Cardinality(Handlers) * m
  <2> DEFINE T == S \ {e}
  <2>1. Possible(st, rq, T)
    BY <1>1, <1>5 DEF Possible, Live
  <2>2. /\ IsFiniteSet(T) /\ \A x \in Entries \cup Handlers : old[x] \in Nat
    BY <2>1, LoadFacts DEF Loaded
  <2>3. IsFiniteSet(S)
    <3>1. IsFiniteSet(T \cup {e}) /\ S \subseteq T \cup {e}
      BY <2>2, FS_AddElement
    <3> QED
      BY <3>1, FS_Subset
  <2>4. S \subseteq Entries \cup Handlers
    BY <1>5 DEF Possible
  <2>5. Total(old, T) <= Cardinality(Handlers) * m
    BY <2>1 DEF Loaded
  <2> HIDE DEF new, old
  <2>6. Total(new, T) = Total(old, T)
    <3>1. \A x \in T : new[x] = old[x]
      BY <1>2, <2>4
    <3> QED
      BY <2>2, <3>1, TotalStands
  <2>7. Total(new, S) = Total(new, T)
    <3>1. CASE e \in S
      <4>1. \A x \in S : new[x] \in Nat
        BY <1>2, <2>2, <2>4
      <4>2. Total(new, S) = new[e] + Total(new, T)
        BY <2>3, <3>1, <4>1, TotalTakesOut
      <4>3. Total(new, T) \in Nat
        BY <2>2, <4>1, TotalIsNat
      <4> QED
        BY <1>2, <4>2, <4>3
    <3>2. CASE e \notin S
      <4>1. S = T
        BY <3>2
      <4> QED
        BY <4>1
    <3> QED
      BY <3>1, <3>2
  <2> QED
    BY <2>5, <2>6, <2>7
<1> QED
  BY <1>3, <1>4, <1>5 DEF Loaded, ss, ww

-----------------------------------------------------------------------------
(* Both measures are kept *)

\* A measure of work that clocked time has none of, and that a check which
\* lets work pass has left room for.
Checks(wt, m) ==
    \A w \in Work :
      /\ w.source = "CLOCK" /\ w.charged = NoGrant => wt[w] = 0
      /\ \A X : w.source = "MANUAL" /\ NotBlocked(w, Entries \ X)
                  => Room(wt, m, status, work, req, w, X)

LEMMA LoadStep ==
  ASSUME TypeOK, NEW wt \in [Work -> Nat], NEW m \in Nat,
         Loaded(wt, m, status, work, req), Checks(wt, m), [Next]_vars
  PROVE  Loaded(wt, m, status', work', req')
<1>a. Typed(status, work, req)
  BY DEF TypeOK, Typed
<1>1. ASSUME NEW e \in Entries, NEW w \in Work, ClockOut(e, w)
      PROVE  Loaded(wt, m, status', work', req')
  <2>1. wt[w] = 0
    BY <1>1 DEF ClockOut, Checks
  <2> QED
    BY <1>1, <1>a, <2>1, LoadClock DEF ClockOut, Insert
<1>2. ASSUME NEW h \in Handlers, EntryStep(h) \/ GrantStep(h) \/ InboxStep(h)
                                   \/ Abort(h)
      PROVE  Loaded(wt, m, status', work', req')
  <2>a. req[h] \in Request
    BY DEF TypeOK
  <2>1. ASSUME NEW e \in Entries, CreateCommit(h, e)
        PROVE  Loaded(wt, m, status', work', req')
    <3>1. /\ status' = [status EXCEPT ![e] = "PENDING"]
          /\ work' = [work EXCEPT ![e] = req[h].work]
          /\ req' = [req EXCEPT ![h] = Idle]
          /\ req[h].op = "create" /\ status[e] = "ABSENT"
      BY <2>1 DEF CreateCommit, Insert, Finish, Serves
    <3>2. "PENDING" \in EntryStatus \ {"ABSENT"}
      BY DEF EntryStatus
    <3> QED
      BY <1>a, <3>1, <3>2, LoadWrite
  <2>2. ASSUME EditCommit(h)
        PROVE  Loaded(wt, m, status', work', req')
    <3>1. PICK to \in EntryStatus \ {"ABSENT"} :
            status' = [status EXCEPT ![req[h].entry] = to]
      BY <2>2, <2>a, RequestFields
         DEF EditCommit, EditableStatus, EntryStatus, Serves
    <3>2. /\ work' = [work EXCEPT ![req[h].entry] = req[h].work]
          /\ req' = [req EXCEPT ![h] = Idle]
          /\ req[h].op = "edit" /\ req[h].entry \in Entries
      BY <2>2, <2>a, RequestFields DEF EditCommit, Finish, Serves
    <3> QED
      BY <1>a, <3>1, <3>2, LoadWrite
  <2>3. ASSUME SubmitCommit(h) \/ DecideCommit(h)
        PROVE  Loaded(wt, m, status', work', req')
    <3>1. PICK to \in EntryStatus \ {"ABSENT"} :
            status' = [status EXCEPT ![req[h].entry] = to]
      BY <2>3, <2>a, RequestFields
         DEF SubmitCommit, DecideCommit, EntryStatus, Decisions, Serves
    <3>2. /\ work' = work /\ req' = [req EXCEPT ![h] = Idle]
          /\ req[h].op \in {"submit", "decide"}
      BY <2>3 DEF SubmitCommit, DecideCommit, Finish, Serves
    <3> QED
      BY <1>a, <3>1, <3>2, LoadStatus
  <2>4. ASSUME UNCHANGED <<status, work>>
        PROVE  Loaded(wt, m, status', work', req')
    <3>1. PICK r : req' = [req EXCEPT ![h] = r] /\ Allowed(h, r)
      BY <1>2, RequestStep
    <3>2. r \in Request
      <4>1. req' \in [Handlers -> Request] /\ req'[h] = r
        BY <3>1, TypeStep DEF TypeOK
      <4> QED
        BY <4>1
    <3>3. CASE r.op \in {"create", "edit"}
      <4>1. PICK X : /\ \/ r.op = "create" /\ X = {}
                        \/ r.op = "edit" /\ X = {r.entry}
                     /\ NotBlocked(r.work, Entries \ X)
        <5>1. r.op = "create" => NotBlocked(r.work, Entries \ {})
          <6>1. Entries \ {} = Entries
            OBVIOUS
          <6> QED
            BY <3>1, <6>1 DEF Allowed
        <5>2. r.op = "edit" => NotBlocked(r.work, Entries \ {r.entry})
          BY <3>1 DEF Allowed
        <5> QED
          BY <3>3, <5>1, <5>2
      <4>2. /\ r.work \in Work /\ r.work.source = "MANUAL"
            /\ req[h] = Idle
        BY <3>1, <3>2, <3>3, RequestFields DEF Allowed
      <4>3. Room(wt, m, status, work, req, r.work, X)
        BY <4>1, <4>2 DEF Checks
      <4>4. Loaded(wt, m, status, work, [req EXCEPT ![h] = r])
        BY <1>a, <3>2, <4>1, <4>2, <4>3, LoadRead
      <4> QED
        BY <2>4, <3>1, <4>4
    <3>4. CASE r.op \notin {"create", "edit"}
      <4>1. r.op \in {"submit", "decide"} => Live(status, r.entry)
        BY <3>1 DEF Allowed, EditableStatus, Live
      <4>2. Loaded(wt, m, status, work, [req EXCEPT ![h] = r])
        BY <1>a, <3>4, <4>1, LoadAside
      <4> QED
        BY <2>4, <3>1, <4>2
    <3> QED
      BY <3>3, <3>4
  <2> QED
    BY <1>2, <2>1, <2>2, <2>3, <2>4, TimeWriters
<1>3. ASSUME UNCHANGED <<status, work, req>>
      PROVE  Loaded(wt, m, status', work', req')
  BY <1>3
<1> QED
  BY <1>1, <1>2, <1>3 DEF Next, vars, RequestGrant

LEMMA LoadInit ==
  ASSUME Init, NEW wt \in [Work -> Nat], NEW m \in Nat
  PROVE  Loaded(wt, m, status, work, req)
<1>1. /\ Written(status) = {} /\ IsFiniteSet(Written(status))
  BY FS_EmptySet DEF Init, Written
<1>2. \A h \in Handlers : ~ Writes(req, h) /\ \A e : ~ Revives(req, h, e)
  BY DEF Init, Idle, Writes, Revives
<1>3. \A x \in Entries \cup Handlers : Load(wt, work, req)[x] = 0
  BY <1>2 DEF Init, Load, NoWork, Work
<1>4. ASSUME NEW S, Possible(status, req, S)
      PROVE  Total(Load(wt, work, req), S) <= Cardinality(Handlers) * m
  <2>1. S = {}
    BY <1>2, <1>4 DEF Possible, Init, Live
  <2>2. Total(Load(wt, work, req), {}) = 0
    BY TotalStep, FS_EmptySet
  <2>3. Cardinality(Handlers) \in Nat
    BY HandlerAssumption, FS_CardinalityType
  <2>4. 0 <= Cardinality(Handlers) * m
    BY <2>3
  <2> QED
    BY <2>1, <2>2, <2>4
<1> QED
  BY <1>1, <1>3, <1>4 DEF Loaded

\* What counts together may count together.
LEMMA LoadBounds ==
  ASSUME TypeOK, NEW wt \in [Work -> Nat], NEW m \in Nat,
         Loaded(wt, m, status, work, req),
         NEW S, S \subseteq {e \in Entries : Booked(e)}
  PROVE  /\ IsFiniteSet(S)
         /\ Total(Load(wt, work, req), S) <= Cardinality(Handlers) * m
         /\ \A e \in S : Load(wt, work, req)[e] = wt[work[e]]
<1>1. Possible(status, req, S)
  BY HandlerAssumption DEF Possible, Booked, Live
<1>2. IsFiniteSet(S)
  <2>1. S \subseteq Written(status)
    BY DEF Booked, Written
  <2> QED
    BY <2>1, FS_Subset DEF Loaded
<1>3. \A e \in S : Load(wt, work, req)[e] = wt[work[e]]
  BY DEF Load, Booked, TypeOK
<1> QED
  BY <1>1, <1>2, <1>3 DEF Loaded

\* What weighs nothing may be left out.
LEMMA TotalOfRest ==
  ASSUME NEW wt, NEW S, IsFiniteSet(S), \A e \in S : wt[e] \in Nat,
         NEW T, T \subseteq S, \A e \in S \ T : wt[e] = 0
  PROVE  Total(wt, S) = Total(wt, T)
<1>1. Total(wt, S) = Total(wt, T) + Total(wt, S \ T)
  BY TotalSplits
<1>2. IsFiniteSet(T) /\ IsFiniteSet(S \ T)
  BY FS_Subset
<1>3. Total(wt, S \ T) = Cardinality(S \ T) * 0
  BY <1>2, TotalOfEqual
<1>4. Cardinality(S \ T) * 0 = 0 /\ Total(wt, T) \in Nat
  BY <1>2, FS_CardinalityType, TotalIsNat
<1> QED
  BY <1>1, <1>3, <1>4

\* The minutes of work that is charged to g.
ChargedTo(g) ==
    [w \in Work |-> IF w.charged = g THEN Minutes(w.span) ELSE 0]

LEMMA ChargedChecks ==
  ASSUME TypeOK, NEW g \in Grants,
         Loaded(ChargedTo(g), MaxMinutes[g], status, work, req)
  PROVE  Checks(ChargedTo(g), MaxMinutes[g])
<1> DEFINE wt == ChargedTo(g)
           m == MaxMinutes[g]
           ld == Load(wt, work, req)
<1>1. wt \in [Work -> Nat] /\ m \in Nat
  BY SpanAssumption DEF ChargedTo, Minutes, Work
<1>2. \A w \in Work :
        wt[w] = IF w.charged = g THEN Minutes(w.span) ELSE 0
  BY DEF ChargedTo
<1> HIDE DEF wt, m
<1>3. ASSUME NEW w \in Work, w.charged = NoGrant
      PROVE  wt[w] = 0
  BY <1>2, <1>3, IdAssumption
<1>4. ASSUME NEW w \in Work, NEW X, NotBlocked(w, Entries \ X)
      PROVE  Room(wt, m, status, work, req, w, X)
  <2> DEFINE B == {e \in Entries \ X : Live(status, e)}
             C == {e \in Entries \ X : Counted(e) /\ work[e].charged = g}
  <2>1. CASE w.charged # g
    BY <1>1, <1>2, <2>1 DEF Room
  <2>2. CASE w.charged = g
    <3>1. Minutes(w.span) + UsedMinutes(g, Entries \ X) <= m
      BY <1>4, <2>2, IdAssumption DEF NotBlocked, Covered, m
    <3>2. C \subseteq B /\ B \subseteq {e \in Entries : Booked(e)}
      BY DEF Live, Booked, Counted, COUNTED, InReview
    <3>3. /\ IsFiniteSet(B) /\ IsFiniteSet(C)
          /\ \A e \in B : ld[e] = wt[work[e]] /\ work[e] \in Work
      <4>1. Loaded(wt, m, status, work, req)
        BY DEF wt, m
      <4>2. IsFiniteSet(B) /\ \A e \in B : ld[e] = wt[work[e]]
        BY <1>1, <3>2, <4>1, LoadBounds
      <4>3. \A e \in B : work[e] \in Work
        BY DEF TypeOK, Live
      <4> QED
        BY <3>2, <4>2, <4>3, FS_Subset
    <3>4. /\ \A e \in B : ld[e] \in Nat
          /\ \A e \in C : ld[e] = Minutes(work[e].span)
          /\ \A e \in B \ C : ld[e] = 0
      <4>1. \A e \in B : Counted(e)
        BY DEF TypeOK, Live, Counted, COUNTED, InReview, EntryStatus
      <4> HIDE DEF ld
      <4> QED
        BY <1>1, <1>2, <3>2, <3>3, <4>1
    <3> HIDE DEF ld
    <3>5. UsedMinutes(g, Entries \ X) = Total(ld, C)
      BY <3>3, <3>4, MinutesAddUp DEF UsedMinutes
    <3>6. Total(ld, B) = Total(ld, C) /\ Total(ld, C) \in Nat
      BY <3>2, <3>3, <3>4, TotalOfRest, TotalIsNat
    <3>7. wt[w] \in Nat /\ wt[w] = Minutes(w.span) /\ m \in Nat
      BY <1>1, <1>2, <2>2
    <3>8. wt[w] + Total(ld, B) <= m /\ wt[w] <= m
      BY <3>1, <3>5, <3>6, <3>7
    <3> QED
      BY <3>8 DEF Room, ld
  <2> QED
    BY <2>1, <2>2
<1> QED
  BY <1>3, <1>4 DEF Checks, wt, m

\* docs/overtime.md: a cap across all linked entries.  Whatever is created,
\* edited, returned, rejected and submitted again, the entries linked to an
\* authorization never add up to more than its minutes for each request that
\* is served at a time.
THEOREM CapTheorem == Spec => []CapPerRequest
<1> DEFINE Linked(g) == Loaded(ChargedTo(g), MaxMinutes[g], status, work, req)
           Inv == \A g \in Grants : Linked(g)
<1>1. \A g \in Grants : ChargedTo(g) \in [Work -> Nat] /\ MaxMinutes[g] \in Nat
  BY SpanAssumption DEF ChargedTo, Minutes, Work
<1>2. Init => Inv
  BY <1>1, LoadInit
<1>3. TypeOK /\ Inv /\ [Next]_vars => Inv'
  <2> SUFFICES ASSUME TypeOK, Inv, [Next]_vars, NEW g \in Grants
               PROVE  Linked(g)'
    OBVIOUS
  <2>1. Linked(g)
    OBVIOUS
  <2> QED
    BY <1>1, <2>1, ChargedChecks, LoadStep
<1>4. TypeOK /\ Inv => CapPerRequest
  <2> SUFFICES ASSUME TypeOK, Inv, NEW g \in Grants
               PROVE  LinkedMinutes(g) <= Cardinality(Handlers) * MaxMinutes[g]
    BY DEF CapPerRequest
  <2> DEFINE S == {e \in Entries : Booked(e) /\ work[e].charged = g}
             ld == Load(ChargedTo(g), work, req)
  <2>1. Linked(g) /\ S \subseteq {e \in Entries : Booked(e)}
    OBVIOUS
  <2>2. /\ IsFiniteSet(S)
        /\ Total(ld, S) <= Cardinality(Handlers) * MaxMinutes[g]
        /\ \A e \in S : ld[e] = ChargedTo(g)[work[e]]
    BY <1>1, <2>1, LoadBounds
  <2>3. \A e \in S : ld[e] = Minutes(work[e].span)
    BY <2>2 DEF ChargedTo, TypeOK, Booked
  <2>4. LinkedMinutes(g) = Total(ld, S)
    <3> HIDE DEF ld
    <3> QED
      BY <2>2, <2>3, MinutesAddUp DEF LinkedMinutes
  <2> QED
    BY <2>2, <2>4
<1> QED
  BY <1>2, <1>3, <1>4, TypeCorrect, PTL DEF Spec

\* Manual work of t that covers the instant x.
At(t, x) ==
    [w \in Work |-> IF /\ w.source = "MANUAL" /\ w.tech = t
                       /\ w.span.from <= x /\ x < w.span.to THEN 1 ELSE 0]

LEMMA AtChecks ==
  ASSUME TypeOK, NEW t \in Technicians, NEW x \in Nat,
         Loaded(At(t, x), 1, status, work, req)
  PROVE  Checks(At(t, x), 1)
<1> DEFINE wt == At(t, x)
           ld == Load(wt, work, req)
<1>1. wt \in [Work -> Nat]
  BY DEF At
<1>2. \A w \in Work :
        wt[w] = IF /\ w.source = "MANUAL" /\ w.tech = t
                   /\ w.span.from <= x /\ x < w.span.to THEN 1 ELSE 0
  BY DEF At
<1> HIDE DEF wt
<1>3. ASSUME NEW w \in Work, w.source = "CLOCK"
      PROVE  wt[w] = 0
  BY <1>2, <1>3
<1>4. ASSUME NEW w \in Work, NEW X, NotBlocked(w, Entries \ X)
      PROVE  Room(wt, 1, status, work, req, w, X)
  <2> DEFINE B == {e \in Entries \ X : Live(status, e)}
  <2>1. CASE wt[w] = 0
    BY <2>1 DEF Room
  <2>2. CASE wt[w] # 0
    <3>1. /\ w.source = "MANUAL" /\ w.tech = t /\ w.span \in Spans
          /\ w.span.from <= x /\ x < w.span.to /\ wt[w] = 1
      BY <1>2, <2>2 DEF Work
    <3>2. B \subseteq {e \in Entries : Booked(e)}
      BY DEF Live, Booked
    <3>3. /\ IsFiniteSet(B) /\ \A e \in B : ld[e] = wt[work[e]]
      BY <1>1, <3>2, LoadBounds DEF wt
    <3>4. \A e \in B : ld[e] = 0
      <4> SUFFICES ASSUME NEW e \in B PROVE ld[e] = 0
        OBVIOUS
      <4>1. /\ Counted(e) /\ work[e] \in Work /\ work[e].span \in Spans
        BY DEF TypeOK, Live, Counted, COUNTED, InReview, EntryStatus, Work
      <4>2. work[e].tech = t => ~ WindowsOverlap(w.span, work[e].span)
        BY <1>4, <3>1, <4>1 DEF NotBlocked
      <4>3. /\ w.span.from \in Nat /\ w.span.to \in Nat
            /\ work[e].span.from \in Nat /\ work[e].span.to \in Nat
        BY <3>1, <4>1, SpanAssumption
      <4>4. wt[work[e]] = 0
        BY <1>2, <3>1, <4>1, <4>2, <4>3 DEF WindowsOverlap
      <4> QED
        BY <3>3, <4>4
    <3> HIDE DEF ld
    <3>5. Total(ld, B) = Cardinality(B) * 0
      BY <3>3, <3>4, TotalOfEqual
    <3>6. Cardinality(B) * 0 = 0
      BY <3>3, FS_CardinalityType
    <3>7. wt[w] + Total(ld, B) <= 1 /\ wt[w] <= 1
      BY <3>1, <3>5, <3>6
    <3> QED
      BY <3>7 DEF Room, ld
  <2> QED
    BY <2>1, <2>2
<1> QED
  BY <1>3, <1>4 DEF Checks, wt

\* docs/timesheets.md: OVERLAP blocks manual time.  Whatever is created,
\* edited, returned, rejected and submitted again, nobody is booked at one
\* instant more often than requests are served at a time.
THEOREM BookingTheorem == Spec => []BookedPerRequest
<1> DEFINE Seen(t, x) == Loaded(At(t, x), 1, status, work, req)
           Inv == \A t \in Technicians, x \in Nat : Seen(t, x)
<1>1. /\ \A t \in Technicians, x \in Nat : At(t, x) \in [Work -> Nat]
      /\ 1 \in Nat
  BY DEF At
<1>2. Init => Inv
  BY <1>1, LoadInit
<1>3. TypeOK /\ Inv /\ [Next]_vars => Inv'
  <2> SUFFICES ASSUME TypeOK, Inv, [Next]_vars,
                      NEW t \in Technicians, NEW x \in Nat
               PROVE  Seen(t, x)'
    OBVIOUS
  <2>1. Seen(t, x)
    OBVIOUS
  <2> QED
    BY <1>1, <2>1, AtChecks, LoadStep
<1>4. TypeOK /\ Inv => BookedPerRequest
  <2> SUFFICES ASSUME TypeOK, Inv, NEW t \in Technicians, NEW s \in Spans
               PROVE  Cardinality(BookedAt(t, s.from)) <= Cardinality(Handlers)
    BY DEF BookedPerRequest
  <2> DEFINE x == s.from
             S == BookedAt(t, x)
             ld == Load(At(t, x), work, req)
  <2>1. x \in Nat /\ S \subseteq {e \in Entries : Booked(e)}
    BY SpanAssumption DEF BookedAt
  <2>2. /\ IsFiniteSet(S) /\ Total(ld, S) <= Cardinality(Handlers) * 1
        /\ \A e \in S : ld[e] = At(t, x)[work[e]]
    <3>1. Seen(t, x)
      BY <2>1
    <3> HIDE DEF x
    <3> QED
      BY <1>1, <2>1, <3>1, LoadBounds
  <2>3. \A e \in S : ld[e] = 1
    <3>1. \A e \in S : work[e] \in Work
      BY DEF TypeOK, BookedAt, Booked
    <3> QED
      BY <2>2, <3>1 DEF At, BookedAt
  <2> HIDE DEF ld, S
  <2>4. Total(ld, S) = Cardinality(S) * 1
    BY <2>2, <2>3, TotalOfEqual
  <2>5. Cardinality(S) \in Nat /\ Cardinality(Handlers) \in Nat
    BY <2>2, HandlerAssumption, FS_CardinalityType
  <2> QED
    BY <2>2, <2>4, <2>5 DEF S
<1> QED
  BY <1>2, <1>3, <1>4, TypeCorrect, PTL DEF Spec
=============================================================================
