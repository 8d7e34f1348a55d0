# FieldKeel: a TLA+ model of its concurrent core

FieldKeel is a multi-tenant application for field service companies: a NestJS
API over PostgreSQL (`api/`) and a Next.js web client (`web/`) that technicians
use without coverage. This project models the parts where requests, workers,
webhooks and tabs meet: a job from draft to approval with its clock, time
entries, overtime and Approvals Center; the offline queue; a turn of the AI
assistant and the ledger it is charged to; files under the storage quota;
sessions of a user; the mail ledger of the subscription; and the card payment
of an invoice. TLC checks small instances; TLAPS proves every safety property of
the runs for every value of the constants.

Paths below are relative to `src/`; `A/` is `api/src/` and `O/` is
`api/src/organizations/`.

## The system

| Component | State it keeps | Operations | What is hard |
|---|---|---|---|
| Jobs (`O/jobs.service.ts`, `job-workflow.service.ts`) | `Job.status`, schedule, requirement flags, crew, `updatedAt` | create, update, dispatch, complete, return, cancel | every handler reads without a lock and writes in a later transaction |
| Schedule (`O/schedule.service.ts`) | the same rows | reschedule with crew | optimistic concurrency on `updatedAt` |
| Execution and field capture (`O/job-execution.service.ts`, `job-field.service.ts`) | completion summary, safety controls, work logs, materials | updateCompletion, records, confirmSafety, submit | a record allowed by an old status; submission against clock-ins |
| Files and signatures (`O/job-files.service.ts`) | photos, `JobSignature`, objects | add, remove, sign | the same, and an object store beside the database |
| Clock (`O/clock.service.ts`) | `ClockSession`, its audit row, a draft `TimeEntry` | clockIn, clockOut | replays, two sessions of one technician, a job that closes meanwhile |
| Timesheets (`O/timesheets.service.ts`) | `TimeEntry` | createManual, updateManual, submit, decide | nothing is locked: overlap and caps are checked before the write |
| Overtime (`O/overtime.service.ts`) | `OvertimeAuthorization` | create, decide, cancel | one cap shared by many entries |
| Approvals Center (`O/approval-records.service.ts`, `approvals.service.ts`) | one `Approval` row per subject | ensurePending, markDecided, markCancelled, inbox refresh | the refresh of the inbox *writes* rows from a stale read |
| Offline queue (`web/src/lib/offline/`) | rows in IndexedDB, `running` of each tab | queueOfflineOp, syncNow, retryOfflineOp | several tabs, lost and late requests, interrupted passes |
| AI usage ledger (`A/ai/usage/`) | `AiUsageEvent` with a lease and an owner token | begin, heartbeat, complete, fail, expire | a worker whose lease ran out is still at work; one allowance for a month |
| AI conversation (`A/ai/ai.service.ts`, `tools/`) | chat rows, the session | sendMessage, failover, rounds of tools, deleteSession | answers and ledger must agree; a heartbeat beside the handler |
| Storage quota and branding (`A/storage/`, `O/organization-branding.service.ts`) | `StorageUpload`, the logo, the audit row of a refusal | reserve, complete, fail, expire, upload and remove | reservations against stored bytes, objects written outside the transaction |
| Authentication (`A/auth/`) | `RefreshSession`, `PasswordResetToken`, cookies | login, refresh, logout, forgot, reset | tabs share cookies; reuse of a token ends every session |
| Subscription mail (`A/subscription/subscription-delivery.service.ts`) | `SubscriptionNotification` | drain: claim, check, attempt, send, record | workers that die, pause or change provider after the mail went out |
| Billing (`A/billing/paddle.service.ts`, `invoice.service.ts`) | `Invoice`, `Subscription`, `PaddleWebhookEvent` | checkout, webhooks, confirm, overdue, void, discount | repeated webhooks, crashes between three writes, staff beside them |

They interact through the database and through calls in one transaction: submit
and the decisions write the job and its `Approval` row together, clock-in moves
a job to IN_PROGRESS, clock-out leaves the draft entry that timesheets submit,
the inbox backfills the rows of jobs, entries and overtime, the offline queue
repeats the clock and record requests with an id of the client, the ledger
decides which chat rows a provider is shown, a stored file completes the
reservation of its bytes, and a confirmed invoice moves the subscription and
supersedes reminders. The components that are not modelled are listed in
`PROJECT.json` with the reason.

What makes them correct: a job follows its status machine and agrees with its
approval row whatever interleaves; nobody works on a submitted job; a technician
has one open session and a replay does not close a second; closed jobs and
closed sessions do not change, nor do evidence and settled time once the
requests that were under way are over; overtime was approved, and no request
alone uses more of an authorization than it has; a queued action is applied once and settled in the end; an
allowance of the plan is never exceeded and nothing that was let go is charged;
a client is told what the ledger says; what is shown can be downloaded; a
refresh token has one successor; nobody gets a mail twice; an invoice is paid
once, and a payment that was recorded was applied.

## Modules

`JobWorkflow` is the abstract specification of a job: its status machine
(`JOB_TRANSITIONS`, `assertTransition`, `assertCancel`) and who is on its clock,
one atomic step per transition. `QuotaAccount` is the abstract specification of
an allowance: an item is new, held, charged or gone, a hold is made within the
limit only, and nothing comes back. It has no handlers, leases or locks.

`JobLifecycle` is the API as it runs. A handler is a sequence of round trips:
each read outside a transaction and each transaction is one action
(`CompleteRead`, `CompleteValidate`, `CompleteCommit`), and what the handler
remembers between them is its record in `req[h]`. Each transaction takes the row
lock of the job, so it is one action with the guards of its `updateMany`.
`current` holds the handlers whose copy of a row still has its `updatedAt`
(`Touch` empties it). `clockOuts` is the log of each technician's clock-outs, of
which a replay is looked up among the latest `AuditWindow` (`take: 40` in
`findClockOutAudit`, `O/clock.service.ts:578`). `Abort` is every rejection,
timeout and crash: the transaction is rolled back. Boolean columns are sets of jobs. It EXTENDS nothing
of the project and instantiates `JobWorkflow`; the mapping reads `working` off
the open sessions.

`TimeReview` is timesheets, overtime and their approval rows, in the same form.
Nothing there locks, so writes go by id as the code's do. `ClockOut` of
`JobLifecycle` appears as the draft it leaves.

`OfflineSync` is the queue of the web client with the server behind it in one
step. `StartPass`, `Begin`, `Deliver`, `Settle` and `EndPass` are the awaits of
`syncNow` and `runOne` in each tab; `Begin` and `Settle` put the row *as it was
listed*. `ActOnline`, `ActUnanswered` and `ActOffline` are the three ways a
click ends. `GiveUp` loses a request or leaves it in `late`, from which
`DeliverLate` serves it at any time.

`AiTurn` composes the conversation and the ledger, because a turn is a handler
between the two. `turn[h].pc` is the next statement of `sendMessage`,
`selectProviderWithFailover` or `runToolOrchestrationLoop`; each conditional
update of the ledger (`Owned`: still PENDING, my token) is one action. `beat`
is the heartbeat beside the handler. `sendMessage` returns the promise of the
tool loop without awaiting it, so its `finally` stops the heartbeat there
(`Locked`); the model has that. `Lapse` lets a lease run out at any time,
`Crash` kills a handler, `Expire` is the usage page. Two mappings to
`QuotaAccount`: the tasks of the current month here, and the job files of the
plan in `StorageQuota`.

`StorageQuota` has the reservation (`upload`), the rows that count (`file`,
`logo`), the object store, and the lock on the organization's row, which a
refused reservation still holds while its audit row waits for it (`Refuse`,
`TransactionTimeout`). An upload is `Reserve`, `Put`, `CommitFile` or
`CommitLogo`, `Clear`; a removal deletes the object, then the row.

`Sessions` has the session rows, the reset tokens, the cookies of each browser
and one request per tab. The read, the claim of the old row, the insert of the
new one and the arrival of the answer are separate actions; `Lose` drops an
answer or a server.

`MailOutbox` has the row, the workers (`Scan`, `Claim`, `Cancel`, `Review`,
`Attempt`, `Send`, `Record`), the provider each process is configured with, what
Resend remembers of the idempotency key, and what arrived. Time is ticks: a
lease, `SAFE_RETRY_MS` and the life of a key keep their order.

`CardBilling` has the invoice, the subscription, the Paddle transactions and the
recorded events. A webhook is `Deliver`, `Look`, `Price`, `ConfirmRead`,
`ConfirmApply`, `Record`, with a crash between any two; renewals, failed
payments, checkouts, the staff's confirmations, mark paid, void, the discounted
term, the customer's payment notice and the overdue pass write beside it.

Each module of a component has an `MC...` module with its small instances and a
`...Proofs` module with its theorems.

### What the models leave out

- Requests that one validation rejects (formats, ranges, descriptions, dates)
  have no effect and are not enumerated.
- A job has no team in the instances (`TeamJobs` is a constant, empty there);
  one safety control stands for the three; the organization's
  signature setting is folded into the job's; an approved manual entry that
  counts as work time is the constant `ManualWork`.
- The status SUBMITTED of old rows is not written by any code and is left out.
- `approvals.decide` and the bulk decision call the operations that are actions
  here, one subject per transaction, so they have no actions of their own.
- Time is ordered, not measured: spans are small intervals, `clientOccurredAt`
  is the order of the user's actions, the two minutes of `recentClosedSession`
  and a backoff may or may not have passed.
- The server of `OfflineSync` recognises every clock-out it served before: fewer
  than the 40 of `AuditWindow` come between two deliveries of one.
- In `OfflineSync` the bytes of photos, the prepared snapshots, sign-out and
  failing writes of IndexedDB are not modelled; the hazards name them. WORK_LOG
  stands for MATERIAL, PHOTO and SIGNATURE, which store by the same id. The
  types COMPLETION, SUBMIT and SAFETY are never queued by any page, so
  `assertJobNotStale` never compares anything.
- `AiTurn` has one user and one conversation, since ids of another are refused
  on sight. Token counts, the metadata of attempts, what tools do, and proposals
  are left out.
- `StorageQuota`: whether the job still takes files is `JobLifecycle`'s. A file
  whose reservation ran out before its row was written is stored by the code
  whether there is room or not; the mapping to the account calls it gone, and
  that is the limit of `KeepsAccount`.
- `Sessions`: an access token carries the id of its session and is looked up, so
  it is not told apart from it. Registration and e-mail verification are left
  out.
- `MailOutbox`: rows do not interact, so the instance has one. Which milestone
  mails are queued is the initial row.
- `CardBilling`: adjustments and refunds, `subscription.*` events, issuing an
  invoice and prices are left out; a period is known by the year it ends.

`Endpoints` names the operations that clients call in an instance. It keeps
instances small, and where a property holds only without an operation the
instance leaves that operation out and this README says so.

## Runs

Every run is exhaustive. `CHECK_DEADLOCK FALSE` is set throughout: the ids that
may be used are bounded, and when they are used up and nobody calls, the
instance may stop.

| Run | Bounds | Shows |
|---|---|---|
| `job_decide` | one job, one technician, three sessions, one event, an audit window of one, two requests at a time; no safety or sign-off flags (1.2 million states) | `FollowsWorkflow` (the refinement), `NoWorkOnSubmittedJob`, `SubmittedJobIsDecidable`, `DecisionAgrees`, `OneOpenSession`, `ClockOutOncePerEvent`, `ClosedSessionsAreFinal` against clock, dispatch, reschedule, submit, decide, cancel and inbox |
| `job_field` | one job that needs safety and a signature, one technician, one record, two requests (1.2 million) | `TypeOK`; `ClosedJobKeepsItsTerms`: an edit form or a reassignment opened before the decision does not land after it; `EvidenceSealed`: a submitted job gets no record but from a capture that had begun before |
| `time_decide` | two technicians, two entries, one authorization, two requests, with the inbox and cancellations, without edits (0.4 million) | `DecisionRecorded`; `PendingEntryIsDecidable`, which an edit of a returned entry breaks (`MCTimeStuck`) |
| `time_hours` | one technician, three entries, two shifts that overlap, an authorization with room for one, two requests; every operation but the inbox, with which a third request decides an authorization again (`MCTimeGrant`) (1.6 million) | `CapPerRequest`, `BookedPerRequest`: how far the unlocked checks can be overrun; `OvertimeWasApproved`, `GrantDecidedOnce`, `SettledTimeIsFinal` over every history of edits, returns and resubmissions |
| `offline_tabs` | two tabs, two actions, one late request, retry limit two; nobody closes a tab or clicks Retry (4.0 million) | `AppliedOnce`, `AcknowledgedIsStored`, `SessionsEndLater` |
| `offline_settles` | one tab, two actions, two incidents: a tab closed or a click on Retry (0.4 million) | `TypeOK`; `EverythingSettles` |
| `ai_turn` | two request ids with the same text, two handlers, a limit of one, two providers, one round of tools, the usage page and deletion (1.4 million) | `TypeOK`, `OneWorker`, `ToldTheTruth`, `AnsweredIffDone`, `FencedWrites`, and `KeepsAccount` (the refinement of `QuotaAccount`) |
| `ai_ends` | one handler, two months (0.2 million) | `WithinAllowance` when a month begins under a turn; `EveryTurnEnds` |
| `storage` | two job files of sizes one and two, two logos, a plan of two, two requests (4.6 million) | `ShownIsStored`, `KeepsAccount` (the refinement), `RemovedStaysRemoved` |
| `sessions` | three sessions, two tabs in one browser and a second browser, one reset token (2.0 million) | `OneHeir`; `StaysSignedIn`: until somebody resets the password or sends a spent token, a browser that lost no answer with cookies is not signed out by the others |
| `outbox` | one mail of each kind, two workers, one crash, a lease of one tick, a safe retry of two, a key of four, a pause of two (0.15 million) | `NoDoubleMail`, `EveryMailSettles` |
| `billing` | two transactions, two handlers, terms of one or two years, one renewal, one crash (0.6 million) | `PaysOnce`, `RecordedIsApplied`, `EveryPaymentIsApplied` |

Why the bounds are enough: the races of the API are between a read and a write
of one handler with one other handler between them, so two requests in flight
show them; where a third is needed (`MCTimeTwice`, `MCTimeGrant`: two decisions
and an inbox) there are three. `NoJob` plays the second job in clock-ins. A
clock-out, another one and a replay of the first need three sessions: with a
window of one the replay comes past it and closes the third, as it would in the
code after 40 others, and without the other it is recognised. Two technicians
with as many sessions each are too many states; the theorems have any number. A cap needs two entries to be
exceeded, an overlap two; with two requests a third entry could be let through,
and is not, over every history that returns, edits and resubmits one. Two actions are a clock-in and a clock-out, or a record and its retry;
the limit of retries is reached with two as with five. A turn that is sent again
needs a second handler, an allowance two turns, a failover two providers. A
session that is rotated twice, or beside another browser's, needs three ids. A
mail needs a worker that is late and one that takes over; every order of lease,
safe retry and key that the constants of the code allow is met by the ticks
(`TimesAssumption`). A second payment needs two transactions, a repeated webhook
two handlers. Handlers, technicians, session ids, entry ids and the tabs of one
browser are interchangeable, and the runs with liveness use no symmetry. Of the
bounds, `MaxIncidents`, `MaxLate`, `MaxCrashes`, `MaxRenewals`, `MaxStall`,
`Months`, `Handlers`, `Sessions`, `Events`, `Records`, `Logos`, `Requests`,
`Ids`, `Tokens`, `Txns`, `Entries`, `Spans`, `Grants` and `Ops` are model bounds;
`MaxRetries` is the code's `MAX_AUTO_RETRIES`, and `MaxRounds`, `Providers`,
`MaxTerm`, `Lease`, `SafeRetry`, `KeyLife` and `AuditWindow` are the code's
settings, made smaller.

`billing` has `CONSTRAINT Untouched`. `Untouched` says that no staff action has
written the invoice by hand and no failed payment was recorded; once false it
stays false, and each property is stated for untouched invoices or has
`~ Untouched` as a goal, so the states that are cut off cannot violate any. What
happens in them is the business of the counterexamples below.

**Fairness.** The models of the API have none where only safety is asked:
nothing obliges a client to call, and a safety property must hold when everybody
stops. Where there is liveness:

- `OfflineSync`: a tab which can do something goes on (`WF(Sync(t))`: the poll
  of eight seconds starts a pass while rows wait, and a fetch ends with an answer
  or an error) and a backoff elapses (a minute at most). That includes coming
  back into coverage. It does not assume that requests succeed.
  `EverythingSettles` is checked with one tab: with two, TLC finds a run in which
  each tab puts the `attemptCount` it listed over the other's, and the limit is
  never reached.
- `AiTurn`: a handler goes on (`WF(Serve(h))`), since every call it awaits has a
  time limit. A crash ends it too.
- `MailOutbox`: time passes, a worker finishes what it began, a row whose time
  has come is scanned again and again (the job runs every five minutes), a worker
  is not for ever slower than its own claim, and not every request is skipped for
  want of a configuration. Requests may fail for ever: the row then goes to an
  operator once its key is no longer safe.
- `CardBilling`: a handler goes on, and Paddle delivers an event again until it
  is recorded (`SF(Deliver)`). Nobody has to pay or decide.
- `StorageQuota` (`MCStorageEnds.cfg` only): a request that can go on again and
  again does, since PostgreSQL serves the waiters of a row lock in their order.

### Configurations kept beside the runs

`MCStorageEnds.cfg` checks `EveryRequestEnds` without logos: a refused upload and
everybody behind its lock is answered, although the audit row of the refusal
waits for its own transaction until that times out.

The others are counterexamples: places where the code does not do what a
document, a comment or a message of it says. `tlc -config <cfg> <module>` shows
each in a few steps.

| Configuration, module | Violated | What is said, and what happens |
|---|---|---|
| `MCJobEvidence`, `MCJobLifecycle` | `EvidenceLocked` | `docs/object-storage.md`: "After submit or approval: evidence is locked". `requireMutableCapture` is a read of its own, so a record is written after the submission it raced. |
| `MCTimeTwice`, `MCTimeReview` | `DecidedOnce` | `docs/approvals.md`: the guarded `updateMany` "prevents a double decide from applying twice". The inbox refresh sets a row decided since its read back to PENDING, and a second decision that was read before applies. |
| `MCTimeEdit`, `MCTimeReview` | `ApprovedHoursStand` | `O/timesheets.service.ts`: "Only draft or returned entries can be edited". `updateManual` writes by id what it checked earlier. |
| `MCTimeGrant`, `MCTimeReview` | `GrantDecidedOnce` | The same of an authorization: with the inbox and three requests an approved one is rejected afterwards. |
| `MCTimeCap`, `MCTimeReview` | `OvertimeWithinCap` | `docs/overtime.md`: `maxMinutes` is a "Hard cap across all linked entries". The minutes used are summed before the insert and nothing is locked, so two requests each use what is left. |
| `MCTimeOverlap`, `MCTimeReview` | `NoDoubleBooking` | `docs/timesheets.md`: an overlap blocks manual time. Two requests each look for one before either has inserted. |
| `MCTimeStuck`, `MCTimeReview` | `PendingEntryIsDecidable` | `docs/approvals.md`: "Resubmit after return resets the same row". Editing a returned entry makes it pending and leaves its row RETURNED; decide conflicts until the inbox is refreshed. |
| `MCOfflineNotes`, `MCOfflineSync` | `NotesOnce` | The help page on offline operations: retries "do not create duplicate clock events or notes". The first attempt of a note has no id, so a lost answer stores it twice. |
| `MCAiQuestion`, `MCAiTurn` | `QuestionIsAsked` | `docs/ai-tool-execution.md`: after a turn that was interrupted the user sends a "new message to retry". A new message with the same text reuses the unanswered row (`A/ai/ai.service.ts`), whose tag is the interrupted turn's, so the provider is not shown the question. |
| `MCSessionsReset`, `MCSessions` | `ResetEndsSessions` | `docs/security-model.md`: a password reset revokes all active sessions. A sign-in or refresh past its check makes its session afterwards. |
| `MCOutboxReminder`, `MCMailOutbox` | `CancelledForCause` | `docs/subscription-lifecycle-emails.md`: a reminder is cancelled when it is superseded. The key of a member's row ends in `:member:` and an id, of which only `:owner:` is cut off before it is compared with the period's end, so every reminder of a member is cancelled on its first attempt. |
| `MCBillingVoid`, `MCCardBilling` | `PaidIsNotVoided` | `A/billing/invoice.service.ts`: "A paid invoice cannot be voided". The void is written by id after a check of its own. |
| `MCBillingKept`, `MCCardBilling` | `PaidPeriodIsKept` | `web/src/content/docs/articles/billing-flow.ts`: once a payment is confirmed, the subscription is updated. When the staff marked the invoice paid by hand (`markPaidOnly`, which leaves the subscription alone), the webhook of a card payment finds it `PAID`, links and records the payment, and activates nothing. Without `MarkPaidOnly` TLC violates it too: a confirmation by the staff applies the period it read before the lock over the one a webhook applied meanwhile. |

The four of manual time and overtime need two requests, or three with the
inbox. `time_hours` and the theorems say what is true whatever the number:
`CapPerRequest`, `BookedPerRequest` and `SettledTimeIsFinal`.

Known besides, and allowed by the properties in so many words: a cancellation of
an authorization that read it as pending overwrites its approval
(`DecisionRecorded`, `OvertimeWasApproved`). A clock-out that is delivered again
after 40 others of its technician closes the session that is open then
(`ClockOutOncePerEvent`). A token that was spent and is sent again revokes every
session of the user; a second tab sends it when it refreshes between the first
tab's claim and the arrival of its cookies, and a browser that lost that answer
sends it too (`StaysSignedIn` speaks until then). A failed payment frees the
invoice while its checkout is open for another try, and a second checkout may
then be paid beside it.

## Proofs

Every theorem is for any sets of jobs, technicians, handlers, sessions, entries,
tabs, request ids, mails, transactions and files, under the named assumptions on
the constants (ids do not collide, `Office` is no technician, spans have a
length, the limits are numbers, the chain has a provider, `SAFE_RETRY_MS`, 23
hours in the code, is not zero and ends with a worker's pause before Resend
forgets a key). Every safety property that a run checks is the statement of a
theorem; where one needs more than the assumptions, the theorem says so.

**`JobLifecycleProofs`**, for every set of endpoints and any number of requests
at a time:

- `TypeCorrect`: `TypeOK` is inductive because `Request` says what a handler may
  remember, and `RequestFields` reads the columns of a request off its `op`.
- `NoWorkTheorem`, `DecidableTheorem`, `DecisionTheorem` from `JobInv`, the
  conjunction of the three. Each needs the others: a decision needs the pending
  row of a submitted job, and a clock-in may not reopen one. `QuietSteps` sets
  aside the steps that touch none of them.
- `OneOpenTheorem`, `ClockOutTheorem`, `FinalSessionsTheorem` from `ClockInv`,
  which adds that ids are unique and that a request about to close a session
  names one of its own technician (`CloserOwnsSession`): without it the guard
  of the update is about an unknown row. `ClockOutOncePerEvent` is its statement
  for any `AuditWindow`: two clock-outs of one event are further apart in the log
  than the window, because the transaction that writes the second looked.
- `WorkflowRefinement`: `Spec => Workflow!Spec`, by a step lemma per writer of the
  status; every other step is a stutter. It uses `ClockInv`, since the mapping
  counts open sessions.
- `ClosedTermsTheorem` from `FreshCopies`: a copy that is still current is of an
  editable job, because a decision or cancellation makes its copies stale.
- `EvidenceTheorem` (`EvidenceSealed`): when the captures are over that had
  passed `requireMutableCapture` before the job was submitted, its records stand
  until it is returned. `RecordWriters` says that captures alone write,
  `OthersWait` that a new one does not pass the check, and `SubmittedFate` where
  the status goes. `EvidenceLocked`, the rule without the condition, is violated
  (`MCJobEvidence`).

**`TimeReviewProofs`**, for any number of requests at a time. Where a theorem
leaves an endpoint out, that operation breaks the property, as the
counterexample it names shows:

- `TypeCorrect` always.
- `DecisionTheorem` (`DecisionRecorded`) without "edit" (`MCTimeStuck` shows how an
  edit leaves a row behind): `RecordInv` adds what a request remembers of the row.
- `OvertimeTheorem` (`OvertimeWasApproved`) and `GrantTheorem`
  (`GrantDecidedOnce`) without "list" (`MCTimeGrant`), with cancellations. Their
  invariant `OvertimeInv` says that the row of an authorization agrees with it
  (`RowsAgree`) and that work in a pending request is backed already (`Backed`):
  an approval stays on record until the entry is written, even if the
  authorization is cancelled meanwhile.
- `DecidableTheorem` (`PendingEntryIsDecidable`) without "edit" (`MCTimeStuck`) and
  `DecidedOnceTheorem` (`DecidedOnce`) without "list" (`MCTimeTwice`) say that
  nothing else breaks what the documents promise. Both read off `EntryFate`,
  which lists what a step may do to an entry and its approval row.
- `SettledTheorem` (`SettledTimeIsFinal`) with every endpoint: a request that
  reads an entry after its decision is refused.
- `CapTheorem` and `BookingTheorem` (`CapPerRequest`, `BookedPerRequest`) with
  every endpoint. A request that passed its check may write when others have
  used up what it saw, so an invariant on the tables alone is not inductive, nor
  is one on what a single request saw. `Possible` are the sets of rows that may
  count together once what is in flight has been written: live entries, rejected
  ones that a submission or decision may revive, and the rows that requests
  will write, in place of the entries they edit. `Loaded` says that none of
  these sets weighs more than one allowance for each request. Whoever checks
  (`LoadRead`) left room beside all live entries (`Room`), and what else may count
  are the rows of the other requests, one each (`OthersAreFew`); a write
  (`LoadWrite`) or a decision (`LoadStatus`) only makes real what was possible,
  and a clock-out (`LoadClock`) weighs nothing. The cap and the booking are two
  measures of one argument: minutes charged to an authorization (`ChargedTo`),
  and presence at an instant (`At`).

**`OfflineSyncProofs`**: `TypeCorrect`; `AppliedOnceTheorem` and
`SessionsEndTheorem` from `ServerSteps` (a step leaves the server alone or
serves one request); `AcknowledgedTheorem` from `AckInv`, which adds
`AnswersTrue`: an "ok" that a tab still holds is about a row the server has.
They hold for any number of tabs, retries, closed tabs and late requests, which
the run `offline_tabs` only samples.

**`AiTurnProofs`**, for every set of endpoints:

- `TypeCorrect` from `TypeInv`, which adds that whoever is not idle has a request.
- `WorkerTheorem` and `ToldTheTruthTheorem` from `TurnInv`. Neither is inductive
  alone; `WorkersEvent` is what is missing: the event of a worker is held by it
  or was interrupted, never failed or finished by another. `Fate` lists what a
  step of one handler may do to an event and `Leads` where it may go; `TurnStep`
  derives the invariant from the two, so each action is looked at once.
- `AnsweredTheorem` and `FencedTheorem` from `Writes`, the same for the chat rows.
- `AccountRefinement`: `Spec => Account!Spec` for every finite set of request ids,
  and `AllowanceTheorem`. They use `TurnInv` (only `Begin` makes a reservation) and
  `MonthInv` (no event is of a month to come, or a new month could bring one
  back); the bound itself is a count: what `Begin` leaves is what
  `countTowardLimit` counted and one more.

**`SessionsProofs`**: `OneHeirTheorem` from `HeirInv`: a session that has a successor
is revoked (`Exchanged`), and a request about to insert one is the only one that
claimed its predecessor (`OneIssuer`). `StaysSignedInTheorem` from `CalmInv`:
until a password is reset or a spent token sent, a session belongs to one browser
(`Apart`): its cookies name it, or a tab of that browser is about to exchange it
(`OwnClaims`), or the one answer on its way will make it known (`OwnAnswers`,
`SoleAnswers`), and no tab is past the reuse check (`NoReuse`). `SignedIn` then
says of each browser that lost no answer that its cookies name a session that
lives or is just being exchanged; what other browsers lose (`LostCalm`) is theirs.

**`MailOutboxProofs`**: `TypeCorrect`; `MailSentOnce` from `Inv`. That a mail
arrived once is not inductive: what keeps a second one away is a chain from the
claim to the key. `ClaimKnowsFirst`, `OneFirst` and `FirstAlone` say that one
worker makes the first attempt and that whoever still holds its claim tries
alone; `Untried` and `NothingYet` that nothing went out before; `SentOnce` that
what was sent is either known to Resend by its key or, through SMTP, tried by
nobody; `KeyYounger` and `InTime` that a worker which still tries does so
before the key is forgotten. The last two are where the times meet: the first
attempt is younger than `SafeRetry` plus the worker's pause, and the key no
older than that attempt.

**`CardBillingProofs`**: `InvoicePaidOnce` and `RecordedApplied`. `Ledger` holds of
every history: what a webhook under way carries happened at Paddle
(`TasksSound`), a completed payment is recorded or the latest of its transaction
(`EventsPaid`), a renewal comes after its first payment was recorded
(`TxnsPaid`). `Payment` adds, for invoices that no staff action and no failed
payment touched, that one transaction is open (`OneOpen`), that the invoice is
paid by it, and that a webhook past its confirmation has its period applied
(`TasksProper`), so that recording the event records what was done. Periods are
products of a term and a count, which `ProductGrows`, `EndInBounds` and
`EndGrows` order.

**`StorageQuotaProofs`**, for every set of endpoints, any sizes and any plan:

- `TypeCorrect` from `TypeInv`, which adds that the lock is held exactly while
  somebody waits for the audit row of a refusal.
- `RemovedForGood` from `Unique`: whoever stores a key has its reservation
  alone, and everything that was shown, replaced or is being removed is `Spent`:
  reserved before, and stored by nobody again.
- `ShownStored` from `Kept` on top of it: an upload about to be committed has its
  object, and nobody is about to delete an object that is shown unless asked
  to (`Guarded`).
- `AccountRefinement`: `Spec => KeepsAccount`, and `WithinPlan`, the bound it
  implies for holds and for the files stored while theirs was not expired. A
  file stored after that is in neither: the code stores it without a count. `Reserve` is the one step that adds bytes to the account; that what
  it counted and the new file stay within the limit is an argument on sums over
  the keys in use, which are finitely many (`Counted`) however many there are.

Sums are proved about without induction theorems, whose operator parameter no
installed prover can instantiate: a claim on a finite set that failed would have
a smallest subset for which it fails (`Minimal`, from the well-foundedness of
strict inclusion), and taking one element out of that subset contradicts it.
`MapThenSumSet` is unfolded once in each module, in `BytesAreSum` and
`MinutesAddUp`; `TotalStep`, `TotalTakesOut`, `TotalWithout`, `TotalSplits` and
`TotalIsBounded` are what the arguments above use.

Only model-checked: liveness (`EverythingSettles`, `EveryTurnEnds`,
`EveryMailSettles`, `EveryPaymentIsApplied`, `EveryRequestEnds`), since fairness
and ENABLED are out of the prover's reach, and the counterexamples. The type
invariants of `TimeReview`, `Sessions`, `MailOutbox`, `CardBilling` and
`StorageQuota` are in no run; they are proved.

## Not modelled

- **Members, invitations, teams**: single-row edits, but for the count of the
  other owners (`members.service.ts:194`) and the acceptance of an invitation.
  They share no state with the modules here and are next in the plan.
- **Clients and sites, platform administration**: single-row edits.
- **Workspace deletion**: one transaction behind a confirmation.
- **My day, reports and PDF**: reads.
- **Tenancy, guards, configuration, health, legal**: filters of single requests.
- **Web user interface**: rendering and forms; its offline queue and the
  refresh of its session are modelled.
- **AI proposals and tools**: what a tool reads or proposes is data to the turn; a
  proposal is executed by the operations of the jobs.
- **Subscription by date**: the entitlement is a function of the row and the day,
  and which mails a day queues follows from it.
- **Billing**: issuing invoices, prices, refunds and chargebacks, `subscription.*`
  events and PDF.

## Plan

1. Proofs: what is left of the rules that the other counterexamples break, as
   `DecidableTheorem`, `CapTheorem` and `EvidenceTheorem` say it of theirs
   (`PaidIsNotVoided`, `CancelledForCause`); the drafts a clock-out of
   `JobLifecycle` leaves and the `ClockOut` of `TimeReview` as a refinement.
2. Members and invitations: the last owner, and an invitation accepted twice.
3. Subscription events and adjustments of Paddle beside the payments of
   `CardBilling`; registration and e-mail verification beside `Sessions`;
   sign-out in `OfflineSync`.
4. The execution of AI proposals against `JobLifecycle`.

The project keeps about a dozen runs; when a module joins, runs that share an
instance are merged first, as `job_decide` was.
