---------------------------- MODULE StorageQuota ----------------------------
(***************************************************************************)
(* The files of a workspace: the reservation (StorageUpload) an upload     *)
(* makes of the plan's bytes, the object it stores, the row (JobFile, or   *)
(* the logo of the organization) that makes it count, and their removal.   *)
(*                                                                         *)
(* A reservation locks the organization's row.  Rows that refer to the     *)
(* organization cannot be inserted, and the organization cannot be         *)
(* updated, while that lock is held, so transactions are single actions    *)
(* that wait for it.  A refused reservation keeps it while it writes an    *)
(* audit row through another connection, which waits for the lock itself   *)
(* until the transaction times out.                                        *)
(*                                                                         *)
(* A job file is a client operation id, whose object key is derived from   *)
(* it and which the field client sends again until it is answered; a logo  *)
(* is a key made for one request.  Whether the job still takes files is    *)
(* the business of JobLifecycle.                                           *)
(***************************************************************************)
EXTENDS Naturals, FiniteSets, FiniteSetsExt

CONSTANTS
    Records,     \* job files, by client operation id (bound)
    Logos,       \* keys of uploaded logos (bound)
    Size,        \* bytes of each
    Limit,       \* maxStorageBytes
    Handlers,    \* requests served at the same time (bound)
    NoKey,
    NoHandler

Keys == Records \cup Logos

ASSUME SizeAssumption == Size \in [Keys -> Nat] /\ Limit \in Nat
ASSUME KeyAssumption ==
    Records \cap Logos = {} /\ NoKey \notin Keys /\ NoHandler \notin Handlers

VARIABLES
    upload,     \* StorageUpload.status of each key; LATE is PENDING past its time
    file,       \* the JobFile row of each record, and how it came and went
    logo,       \* Organization.logoObjectKey
    objects,    \* keys in the object store
    task,       \* what each handler is doing
    lock,       \* the handler that holds the organization's row
    asked       \* shown keys somebody asked to remove (history)

vars == <<upload, file, logo, objects, task, lock, asked>>

Status == {"NONE", "PENDING", "LATE", "COMPLETED", "FAILED", "EXPIRED"}
Idle   == [pc |-> "idle", key |-> NoKey, old |-> NoKey]
Task   == [pc : {"idle", "reserve", "refused", "put", "commit", "clear",
                 "delete", "erase"},
           key : Keys \cup {NoKey}, old : Logos \cup {NoKey}]

TypeOK ==
    /\ upload \in [Keys -> Status]
    /\ file \in [Records -> {"none", "stored", "overdue", "removed"}]
    /\ logo \in Logos \cup {NoKey}
    /\ objects \subseteq Keys /\ asked \subseteq Keys
    /\ task \in [Handlers -> Task]
    /\ lock \in Handlers \cup {NoHandler}
    /\ lock # NoHandler <=> \E h \in Handlers : task[h].pc = "refused"

-----------------------------------------------------------------------------
Bytes(S) == MapThenSumSet(LAMBDA k : Size[k], S)

\* "overdue" is a row as any other: it was written after its reservation had
\* run out, which nothing in the code looks at.
Rows    == {k \in Records : file[k] \in {"stored", "overdue"}}
Shown   == Rows \cup ({logo} \ {NoKey})
Pending == {k \in Keys : upload[k] = "PENDING"}

At(h, pc)   == task[h].pc = pc
Goes(h, pc) == task' = [task EXCEPT ![h].pc = pc]
Ends(h)     == task' = [task EXCEPT ![h] = Idle]
Unlocked    == lock = NoHandler

Init ==
    /\ upload = [k \in Keys |-> "NONE"]
    /\ file = [k \in Records |-> "none"]
    /\ logo = NoKey
    /\ objects = {} /\ asked = {}
    /\ task = [h \in Handlers |-> Idle]
    /\ lock = NoHandler

-----------------------------------------------------------------------------
(* Upload *)

\* storeFile and captureSignature: an id that is stored already is answered
\* from its row, which changes nothing.
StartFile(h, k) ==
    /\ At(h, "idle") /\ k \notin Rows
    /\ task' = [task EXCEPT ![h] = [Idle EXCEPT !.pc = "reserve", !.key = k]]
    /\ UNCHANGED <<upload, file, logo, objects, lock, asked>>

\* uploadLogo reads the logo it will replace.
StartLogo(h, k) ==
    /\ At(h, "idle")
    /\ upload[k] = "NONE" /\ \A g \in Handlers : task[g].key # k
    /\ task' = [task EXCEPT ![h] = [pc |-> "reserve", key |-> k, old |-> logo]]
    /\ UNCHANGED <<upload, file, logo, objects, lock, asked>>

\* What a logo replaces is counted once, by what was read before the lock.
Net(t) ==
    IF t.old # NoKey
      THEN IF Size[t.key] > Size[t.old] THEN Size[t.key] - Size[t.old] ELSE 0
      ELSE Size[t.key]

\* The mistake is to look at what is stored and not at what is reserved.
StoredRoom(h) == Bytes(Shown) + Net(task[h]) <= Limit
Room(h) == Bytes(Shown) + Bytes(Pending) + Net(task[h]) <= Limit

\* objectKey is unique: a key that was reserved once, whatever became of it,
\* is not reserved again.  The mistake is to reuse the row of a past upload.
NotPending(k) == upload[k] # "PENDING"
NewKey(k) == upload[k] = "NONE"

Reserve(h) ==
    /\ At(h, "reserve") /\ Unlocked
    /\ Room(h) /\ NewKey(task[h].key)
    /\ upload' = [upload EXCEPT ![task[h].key] = "PENDING"]
    /\ Goes(h, "put")
    /\ UNCHANGED <<file, logo, objects, lock, asked>>

\* The insert fails, and the request answers from the row another request
\* wrote in the meantime or fails.
Collide(h) ==
    /\ At(h, "reserve") /\ Unlocked
    /\ Room(h) /\ ~ NewKey(task[h].key)
    /\ Ends(h)
    /\ UNCHANGED <<upload, file, logo, objects, lock, asked>>

\* The audit row of a refusal waits for the lock of its own transaction.
Refuse(h) ==
    /\ At(h, "reserve") /\ Unlocked
    /\ ~ Room(h)
    /\ lock' = h
    /\ Goes(h, "refused")
    /\ UNCHANGED <<upload, file, logo, objects, asked>>

\* The transaction ends when its time is over; the audit row is written and
\* the refusal goes out.
TransactionTimeout(h) ==
    /\ At(h, "refused")
    /\ lock' = NoHandler
    /\ Ends(h)
    /\ UNCHANGED <<upload, file, logo, objects, asked>>

Put(h) ==
    /\ At(h, "put")
    /\ objects' = objects \cup {task[h].key}
    /\ Goes(h, "commit")
    /\ UNCHANGED <<upload, file, logo, lock, asked>>

\* failReservation; the object may have been stored all the same.
PutFails(h) ==
    LET k == task[h].key IN
      /\ At(h, "put")
      /\ objects' \in {objects, objects \cup {k}}
      /\ upload' = IF upload[k] \in {"PENDING", "LATE"}
                     THEN [upload EXCEPT ![k] = "FAILED"] ELSE upload
      /\ Ends(h)
      /\ UNCHANGED <<file, logo, lock, asked>>

\* completeReservation: what it returns is not looked at.
Completed(k) ==
    IF upload[k] \in {"PENDING", "LATE"}
      THEN [upload EXCEPT ![k] = "COMPLETED"] ELSE upload

CommitFile(h) ==
    LET k == task[h].key IN
      /\ At(h, "commit") /\ k \in Records /\ Unlocked
      /\ file' = [file EXCEPT ![k] = IF upload[k] = "PENDING" THEN "stored"
                                                             ELSE "overdue"]
      /\ upload' = Completed(k)
      /\ Ends(h)
      /\ UNCHANGED <<logo, objects, lock, asked>>

\* The previous logo's object is deleted after the row names the new one.
CommitLogo(h) ==
    LET k == task[h].key IN
      /\ At(h, "commit") /\ k \in Logos /\ Unlocked
      /\ logo' = k
      /\ upload' = Completed(k)
      /\ IF task[h].old # NoKey THEN Goes(h, "clear") ELSE Ends(h)
      /\ asked' = asked \ {logo}
      /\ UNCHANGED <<file, objects, lock>>

\* The write of the rows fails: the object stays, and so does the
\* reservation until its time is over.
CommitFails(h) ==
    /\ At(h, "commit")
    /\ Ends(h)
    /\ UNCHANGED <<upload, file, logo, objects, lock, asked>>

\* The mistake is to delete what the organization shows by then.
ClearShown(h) ==
    /\ At(h, "clear")
    /\ objects' = objects \ {logo}
    /\ Ends(h)
    /\ UNCHANGED <<upload, file, logo, lock, asked>>
Clear(h) ==
    /\ At(h, "clear")
    /\ objects' \in {objects, objects \ {task[h].old}}
    /\ Ends(h)
    /\ UNCHANGED <<upload, file, logo, lock, asked>>

-----------------------------------------------------------------------------
(* Removal: the object first, then the row *)

StartRemoval(h, k) ==
    /\ At(h, "idle")
    /\ task' = [task EXCEPT ![h] = [Idle EXCEPT !.pc = "delete", !.key = k]]
    /\ asked' = asked \cup ({k} \ {NoKey})
    /\ UNCHANGED <<upload, file, logo, objects, lock>>

\* A failure of the object store fails the request.
Delete(h) ==
    /\ At(h, "delete")
    /\ \/ objects' = objects \ {task[h].key} /\ Goes(h, "erase")
       \/ task[h].key # NoKey /\ Ends(h) /\ UNCHANGED objects
    /\ UNCHANGED <<upload, file, logo, lock, asked>>

\* remove deletes the row if it is still there; removeLogo clears whatever
\* logo there is by then.
Erase(h) ==
    LET k == task[h].key IN
      /\ At(h, "erase") /\ Unlocked
      /\ IF k \in Records
           THEN /\ file' = IF k \in Rows THEN [file EXCEPT ![k] = "removed"]
                                         ELSE file
                /\ asked' = asked \ {k}
                /\ UNCHANGED logo
           ELSE /\ logo' = NoKey
                /\ asked' = asked \ {logo}
                /\ UNCHANGED file
      /\ Ends(h)
      /\ UNCHANGED <<upload, objects, lock>>

-----------------------------------------------------------------------------
(* Beside the handlers *)

Lapse(k) ==
    /\ upload[k] = "PENDING"
    /\ upload' = [upload EXCEPT ![k] = "LATE"]
    /\ UNCHANGED <<file, logo, objects, task, lock, asked>>

\* expireStaleReservations, when somebody opens the storage page.
ExpireStale ==
    /\ \E k \in Keys : upload[k] = "LATE"
    /\ upload' = [k \in Keys |-> IF upload[k] = "LATE" THEN "EXPIRED"
                                                       ELSE upload[k]]
    /\ UNCHANGED <<file, logo, objects, task, lock, asked>>

\* The process of a handler dies; its transaction is rolled back.
Crash(h) ==
    /\ ~ At(h, "idle")
    /\ lock' = IF lock = h THEN NoHandler ELSE lock
    /\ Ends(h)
    /\ UNCHANGED <<upload, file, logo, objects, asked>>

Serve(h) ==
    \/ Reserve(h) \/ Collide(h) \/ Refuse(h) \/ TransactionTimeout(h)
    \/ Put(h) \/ PutFails(h)
    \/ CommitFile(h) \/ CommitLogo(h) \/ CommitFails(h) \/ Clear(h)
    \/ Delete(h) \/ Erase(h)

Next ==
    \/ \E h \in Handlers :
         \/ Serve(h) \/ Crash(h)
         \/ \E k \in Records : StartFile(h, k)
         \/ \E k \in Logos : StartLogo(h, k)
         \/ \E k \in Rows \cup {logo} : StartRemoval(h, k)
    \/ \E k \in Keys : Lapse(k)
    \/ ExpireStale

Spec == Init /\ [][Next]_vars

\* PostgreSQL serves the waiters of a row lock in their order.
FairSpec == Spec /\ \A h \in Handlers : SF_vars(Serve(h))

-----------------------------------------------------------------------------
(* Properties *)

\* The job files of a workspace, seen as a QuotaAccount: whatever fails,
\* expires, is sent again or removed in between, the files written in time
\* and the uploads that still hold their reservation stay within the plan.
\* Files written after their time are not covered: the code stores them
\* whether there is room or not.
Account == INSTANCE QuotaAccount WITH
    Items  <- Records,
    Charge <- Bytes,
    Limit  <- Limit,
    phase  <- [k \in Records |->
                 CASE file[k] = "stored"               -> "CHARGED"
                   [] file[k] \in {"overdue", "removed"} -> "GONE"
                   [] OTHER ->
                        CASE upload[k] = "NONE"    -> "NEW"
                          [] upload[k] = "PENDING" -> "HELD"
                          [] OTHER                 -> "GONE"]
KeepsAccount == Account!Spec

\* What a user sees can be downloaded: a row whose object is gone, or a logo,
\* is one somebody asked to remove, whatever raced with it or died half-way.
ShownIsStored == \A k \in Shown : k \in objects \/ k \in asked

\* A file that was removed does not come back when the field client sends its
\* upload again, or when an earlier sending is served late.
RemovedStaysRemoved ==
    [][\A k \in Records : file[k] = "removed" => file'[k] = "removed"]_vars

\* Every request on files is answered, a refused one too, although its audit
\* row waits for its own transaction, with everybody else behind that lock.
EveryRequestEnds ==
    \A h \in Handlers : task[h].pc # "idle" ~> task[h].pc = "idle"
=============================================================================
