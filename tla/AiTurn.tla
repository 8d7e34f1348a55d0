------------------------------- MODULE AiTurn -------------------------------
(***************************************************************************)
(* One conversation of the AI assistant: HTTP handlers that serve a        *)
(* message, the ledger row (AiUsageEvent) each message reserves, the lease *)
(* that makes one handler its worker, and the chat rows.                   *)
(*                                                                         *)
(* The ledger is written by single conditional updates and by transactions *)
(* that begin with a lock of the organization, so each is one action; what *)
(* a handler remembers between them is its record.  A lease runs out at    *)
(* any time, for a heartbeat is an update that may be slow, and its row    *)
(* stays PENDING until somebody expires it.                                *)
(*                                                                         *)
(* Every chat row carries its usage event here, so the status of the event *)
(* alone decides whether a provider sees it (the flag that                 *)
(* afterUnsuccessfulTurn writes is read for untagged rows only).  There is *)
(* one user and one conversation: a client request id is not reused by     *)
(* another user or for another conversation, which is refused on sight.    *)
(***************************************************************************)
EXTENDS Naturals, FiniteSets

CONSTANTS
    Requests,      \* client request ids (bound)
    Text,          \* what each of them says
    Handlers,      \* messages served at the same time (bound)
    Limit,         \* maxAiTasksPerMonth
    Providers,     \* length of the provider chain
    MaxRounds,     \* AI_TOOL_MAX_ROUNDS_PER_REQUEST
    Months,        \* calendar months that may begin (bound)
    Endpoints,     \* what users do beside sending messages (bound)
    NoRequest,
    NoHandler

ASSUME SizeAssumption ==
    /\ Limit \in Nat /\ MaxRounds \in Nat /\ Months \in Nat
    /\ Providers \in Nat \ {0}
ASSUME IdAssumption == NoRequest \notin Requests /\ NoHandler \notin Handlers

VARIABLES
    event,      \* AiUsageEvent of each request id: status, lease and owner
    month,      \* the current month, and the month each event was made in
    messages,   \* the chat rows: who speaks, and for which event
    trailing,   \* the newest of them
    session,    \* AiChatSession.status
    turn,       \* what each handler is doing
    beat,       \* its heartbeat: on, off, or off with one update in flight
    deleting    \* a deletion of the conversation has passed its check

vars == <<event, month, messages, trailing, session, turn, beat, deleting>>
chat == <<messages, trailing, session>>

Terminal == {"SUCCEEDED", "SKIPPED", "FAILED", "INTERRUPTED"}
Status   == {"NONE", "PENDING"} \cup Terminal

Message == [role : {"USER", "CALLS", "ASSISTANT"}, tag : Requests,
            round : 0 .. MaxRounds + 1]
NoMessage == [role |-> "NOBODY"]

\* Where a handler stands, and what it may have told its client.
Working == {"own", "user", "ask", "asked", "loop", "append", "reask",
            "reasked", "final", "reconcile"}
Told    == {"COMPLETED", "FAILED", "INTERRUPTED"}

NoTurn == [pc |-> "idle", req |-> NoRequest, provider |-> 1, rounds |-> 0,
           question |-> NoRequest, seen |-> FALSE, billable |-> TRUE,
           lost |-> FALSE]

Turn == [pc : {"idle", "begin"} \cup Working \cup Told,
         req : Requests \cup {NoRequest}, provider : 1 .. Providers,
         rounds : 0 .. MaxRounds, question : Requests \cup {NoRequest},
         seen : BOOLEAN, billable : BOOLEAN, lost : BOOLEAN]

Event == [status : Status, lease : {"none", "fresh", "lapsed"},
          owner : Handlers \cup {NoHandler}]

TypeOK ==
    /\ event \in [Requests -> Event]
    /\ month \in [now : 0 .. Months, of : [Requests -> 0 .. Months]]
    /\ messages \subseteq Message /\ trailing \in Message \cup {NoMessage}
    /\ session \in {"ACTIVE", "ARCHIVED"}
    /\ turn \in [Handlers -> Turn]
    /\ beat \in [Handlers -> {"on", "last", "off"}]
    /\ deleting \in BOOLEAN

-----------------------------------------------------------------------------
(* The ledger *)

NoEvent == [status |-> "NONE", lease |-> "none", owner |-> NoHandler]
Reserved(h) == [status |-> "PENDING", lease |-> "fresh", owner |-> h]
Closed(s)   == [status |-> s, lease |-> "none", owner |-> NoHandler]

\* The condition every write of a worker carries: still PENDING, my token.
\* The mistake is to let it finish what was taken from it but not finished.
OwnedOrExpired(h) == event[turn[h].req].status \in {"PENDING", "INTERRUPTED"}
Owned(h) ==
    LET e == event[turn[h].req] IN e.status = "PENDING" /\ e.owner = h

Abandoned(r) == event[r].status = "PENDING" /\ event[r].lease = "lapsed"

\* expireStaleReservations: what is PENDING past its time is INTERRUPTED.
Expired(ev) ==
    [r \in Requests |->
       IF ev[r].status = "PENDING" /\ ev[r].lease = "lapsed"
         THEN Closed("INTERRUPTED") ELSE ev[r]]

\* countTowardLimit; the mistake is to count what is charged only.
ThisMonth(r) == month.of[r] = month.now
DoneInMonth(ev) ==
    {r \in Requests : ThisMonth(r) /\ ev[r].status = "SUCCEEDED"}
TowardLimit(ev) ==
    {r \in Requests :
       /\ ThisMonth(r)
       /\ \/ ev[r].status = "SUCCEEDED"
          \/ ev[r].status = "PENDING" /\ ev[r].lease # "lapsed"}

Extended(h) == [event EXCEPT ![turn[h].req].lease = "fresh"]
Ended(h, s) == [event EXCEPT ![turn[h].req] = Closed(s)]
EndIfOwned(h, s) == event' = IF Owned(h) THEN Ended(h, s) ELSE event

Goes(h, pc)  == turn' = [turn EXCEPT ![h].pc = pc]
Silent(h)    == beat' = [beat EXCEPT ![h] = "off"]

\* A handler that answers drops what it remembered of the turn.  It is kept
\* whether the client was told of an end; "still in progress", a refusal and
\* an unexpected error tell it nothing.
Answer(h, told) ==
    /\ turn' = [turn EXCEPT ![h] = IF told \in Told
                                     THEN [NoTurn EXCEPT !.pc = told,
                                                         !.req = turn[h].req]
                                     ELSE NoTurn]
    /\ Silent(h)

\* mapExisting
Outcome(s) == IF s \in {"SUCCEEDED", "SKIPPED"} THEN "COMPLETED" ELSE s

At(h, pc) == turn[h].pc = pc

-----------------------------------------------------------------------------
Init ==
    /\ event = [r \in Requests |-> NoEvent]
    /\ month = [now |-> 0, of |-> [r \in Requests |-> 0]]
    /\ messages = {} /\ trailing = NoMessage /\ session = "ACTIVE"
    /\ turn = [h \in Handlers |-> NoTurn]
    /\ beat = [h \in Handlers |-> "off"]
    /\ deleting = FALSE

\* sendMessage: the conversation is looked up before anything is reserved.
Open(h, r) ==
    /\ turn[h].pc \in {"idle"} \cup Told
    /\ session = "ACTIVE"
    /\ turn' = [turn EXCEPT ![h] = [NoTurn EXCEPT !.pc = "begin", !.req = r]]
    /\ UNCHANGED <<event, month, chat, beat, deleting>>

\* beginExecution of an id the ledger knows: an abandoned row is interrupted
\* first, and nobody but its creator is ever told to start.  The mistake is
\* to take it over.
TakeOver(h) ==
    /\ At(h, "begin") /\ Abandoned(turn[h].req)
    /\ event' = [event EXCEPT ![turn[h].req] = Reserved(h)]
    /\ Goes(h, "own")
    /\ UNCHANGED <<month, chat, beat, deleting>>
BeginAgain(h) ==
    LET r == turn[h].req
        e == IF Abandoned(r) THEN Closed("INTERRUPTED") ELSE event[r] IN
      /\ At(h, "begin")
      /\ event[r].status # "NONE"
      /\ event' = [event EXCEPT ![r] = e]
      /\ Answer(h, Outcome(e.status))
      /\ UNCHANGED <<month, chat, deleting>>

\* beginExecution of a new id, under the lock of the organization.  The
\* mistake is to count without interrupting what is not counted.
BeginBeside(h) ==
    LET r == turn[h].req IN
      /\ At(h, "begin") /\ event[r].status = "NONE"
      /\ Cardinality(TowardLimit(event)) < Limit
      /\ event' = [event EXCEPT ![r] = Reserved(h)]
      /\ month' = [month EXCEPT !.of[r] = month.now]
      /\ Goes(h, "own")
      /\ UNCHANGED <<chat, beat, deleting>>
Begin(h) ==
    LET r == turn[h].req IN
      /\ At(h, "begin")
      /\ event[r].status = "NONE"
      /\ Cardinality(TowardLimit(Expired(event))) < Limit
      /\ event' = [Expired(event) EXCEPT ![r] = Reserved(h)]
      /\ month' = [month EXCEPT !.of[r] = month.now]
      /\ Goes(h, "own")
      /\ UNCHANGED <<chat, beat, deleting>>

\* The exception rolls the expiries of the same transaction back.
Refuse(h) ==
    /\ At(h, "begin")
    /\ event[turn[h].req].status = "NONE"
    /\ Cardinality(TowardLimit(Expired(event))) >= Limit
    /\ Answer(h, "REFUSED")
    /\ UNCHANGED <<event, month, chat, deleting>>

\* The first heartbeat, before any provider is called.
Own(h) ==
    /\ At(h, "own")
    /\ IF Owned(h) THEN event' = Extended(h) /\ Goes(h, "user")
                   ELSE Goes(h, "reconcile") /\ UNCHANGED event
    /\ UNCHANGED <<month, chat, beat, deleting>>

\* A message that repeats the text of the newest one, left without a reply,
\* stands for it; otherwise a row is written.  Then the heartbeat starts.
Repeats(r) == trailing # NoMessage /\ trailing.role = "USER"
                                   /\ Text[trailing.tag] = Text[r]

Question(h) == IF Repeats(turn[h].req) THEN trailing
               ELSE [role |-> "USER", tag |-> turn[h].req, round |-> 0]
WritesQuestion(h) ==
    messages' = messages \cup {Question(h)} /\ trailing' = Question(h)

UserTurn(h) ==
    /\ At(h, "user")
    /\ WritesQuestion(h)
    /\ turn' = [turn EXCEPT ![h].pc = "ask", ![h].question = Question(h).tag]
    /\ beat' = [beat EXCEPT ![h] = "on"]
    /\ UNCHANGED <<event, month, session, deleting>>

\* The row cannot be written, or the title of the conversation after it.
UserTurnFails(h) ==
    /\ At(h, "user")
    /\ WritesQuestion(h) \/ UNCHANGED <<messages, trailing>>
    /\ EndIfOwned(h, "FAILED")
    /\ Answer(h, "ERROR")
    /\ UNCHANGED <<month, session, deleting>>

\* buildProviderMessages: a tagged row is in the transcript of a call unless
\* its event failed or was interrupted.
InTranscript(m) ==
    m \in messages /\ event[m.tag].status \notin {"FAILED", "INTERRUPTED"}

Calls(h, pc) ==
    turn' = [turn EXCEPT ![h].pc = pc,
               ![h].seen = InTranscript([role  |-> "USER", round |-> 0,
                                         tag   |-> turn[h].question])]

-----------------------------------------------------------------------------
(* selectProviderWithFailover *)

Ask(h) ==
    /\ At(h, "ask")
    /\ IF turn[h].lost THEN Goes(h, "reconcile") ELSE Calls(h, "asked")
    /\ UNCHANGED <<event, month, chat, beat, deleting>>

\* A heartbeat that found the lease gone aborts the call in flight, and is
\* looked at once more before the answer is written.
Lost(h) ==
    /\ turn[h].pc \in {"asked", "reasked", "final"}
    /\ turn[h].lost
    /\ Goes(h, "reconcile")
    /\ UNCHANGED <<event, month, chat, beat, deleting>>

\* noteProviderAttempt keeps the reservation for the next provider.  The
\* mistakes are to go past the end of the chain, and round it.
FailoverPast(h, next) ==
    /\ Owned(h) /\ event' = Extended(h)
    /\ turn' = [turn EXCEPT ![h].pc = next,
                            ![h].provider = turn[h].provider + 1]
    /\ UNCHANGED <<month, chat, beat, deleting>>
FailoverRound(h, next) ==
    /\ Owned(h) /\ event' = Extended(h)
    /\ turn' = [turn EXCEPT ![h].pc = next,
                            ![h].provider = (@ % Providers) + 1]
    /\ UNCHANGED <<month, chat, beat, deleting>>
Failover(h, next) ==
    /\ turn[h].provider < Providers
    /\ IF Owned(h)
         THEN /\ event' = Extended(h)
              /\ turn' = [turn EXCEPT ![h].pc = next,
                                      ![h].provider = turn[h].provider + 1]
         ELSE Goes(h, "reconcile") /\ UNCHANGED event
    /\ UNCHANGED <<month, chat, beat, deleting>>

\* failReservation or interruptReservation; the client is told the same when
\* the row had been expired in the meantime.
GiveUp(h) ==
    \E s \in {"FAILED", "INTERRUPTED"} :
      /\ EndIfOwned(h, s)
      /\ Answer(h, s)
      /\ UNCHANGED <<month, chat, deleting>>

\* The answer locks the provider.  sendMessage returns the promise of the
\* tool loop without awaiting it, so its finally stops the heartbeat here;
\* an update of it may be in flight.
Locked(h) ==
    /\ \E pc \in {"final", "loop"} : Goes(h, pc)
    /\ \E b \in {"last", "off"} : beat' = [beat EXCEPT ![h] = b]
    /\ UNCHANGED <<event, month, chat, deleting>>

Reply(h) ==
    /\ At(h, "asked") /\ ~ turn[h].lost
    /\ Locked(h) \/ Failover(h, "ask") \/ GiveUp(h)

-----------------------------------------------------------------------------
(* runToolOrchestrationLoop *)

\* The ownership checks before and after the tools run.
LostInLoop(h) ==
    /\ turn[h].pc \in {"loop", "append"} /\ turn[h].lost
    /\ EndIfOwned(h, "INTERRUPTED")
    /\ Goes(h, "reconcile")
    /\ UNCHANGED <<month, chat, beat, deleting>>

\* appendToolRoundWhilePending, or nothing when the lease is gone.  The
\* mistake is to write the round first.
AppendFirst(h, n, pc, billable) ==
    LET m == [role |-> "CALLS", tag |-> turn[h].req, round |-> n] IN
      /\ messages' = messages \cup {m} /\ trailing' = m
      /\ event' = IF Owned(h) THEN Extended(h) ELSE event
      /\ turn' = [turn EXCEPT ![h].pc = IF Owned(h) THEN pc ELSE "reconcile",
                              ![h].billable = billable]
Append(h, n, pc, billable) ==
    LET m == [role |-> "CALLS", tag |-> turn[h].req, round |-> n] IN
      IF Owned(h)
        THEN /\ messages' = messages \cup {m} /\ trailing' = m
             /\ event' = Extended(h)
             /\ turn' = [turn EXCEPT ![h].pc = pc, ![h].billable = billable]
        ELSE Goes(h, "reconcile") /\ UNCHANGED <<event, messages, trailing>>

\* finalizeOrchestrationSafetyStop: a malformed list of calls, or results
\* that do not match it.  It counts as an answer.
SafetyStop(h) ==
    /\ turn[h].pc \in {"loop", "append"} /\ ~ turn[h].lost
    /\ Goes(h, "final")
    /\ UNCHANGED <<event, month, chat, beat, deleting>>

\* finalizeToolLimitExceeded: too many rounds, or too many calls in them.
ToolLimit(h) ==
    /\ At(h, "loop") /\ ~ turn[h].lost
    /\ \/ Append(h, turn[h].rounds + 1, "final", FALSE)
       \/ /\ turn' = [turn EXCEPT ![h].pc = "final", ![h].billable = FALSE]
          /\ UNCHANGED <<event, messages, trailing>>
    /\ UNCHANGED <<month, session, beat, deleting>>

ExecuteTools(h) ==
    /\ At(h, "loop") /\ ~ turn[h].lost
    /\ turn[h].rounds < MaxRounds
    /\ turn' = [turn EXCEPT ![h].pc = "append",
                            ![h].rounds = turn[h].rounds + 1]
    /\ UNCHANGED <<event, month, chat, beat, deleting>>

AppendRound(h) ==
    /\ At(h, "append") /\ ~ turn[h].lost
    /\ Append(h, turn[h].rounds, "reask", TRUE)
    /\ UNCHANGED <<month, session, beat, deleting>>

AskAgain(h) ==
    /\ At(h, "reask")
    /\ Calls(h, "reasked")
    /\ UNCHANGED <<event, month, chat, beat, deleting>>

\* After tools a rejection moves on to the providers left in the chain, and
\* never runs the tools again.  The attempt of the last one is noted too.
ReplyAgain(h) ==
    /\ At(h, "reasked")
    /\ \/ /\ \E pc \in {"final", "loop"} : Goes(h, pc)
          /\ UNCHANGED <<event, month, chat, beat, deleting>>
       \/ ~ turn[h].lost /\ (Failover(h, "reask") \/ GiveUp(h))
       \/ /\ ~ Owned(h) /\ Goes(h, "reconcile")
          /\ UNCHANGED <<event, month, chat, beat, deleting>>

-----------------------------------------------------------------------------
(* The end of a turn *)

\* completeTurnAtomically: the answer and the end of the reservation, or
\* neither.  The mistake is to write the answer first.
AnswerFirst(h) ==
    LET m == [role |-> "ASSISTANT", tag |-> turn[h].req, round |-> 0] IN
      /\ At(h, "final")
      /\ messages' = messages \cup {m} /\ trailing' = m
      /\ EndIfOwned(h, "SUCCEEDED")
      /\ Answer(h, "COMPLETED")
      /\ UNCHANGED <<month, session, deleting>>
Complete(h) ==
    LET m == [role |-> "ASSISTANT", tag |-> turn[h].req, round |-> 0] IN
      /\ At(h, "final")
      /\ IF Owned(h)
           THEN /\ messages' = messages \cup {m} /\ trailing' = m
                /\ event' = Ended(h, IF turn[h].billable THEN "SUCCEEDED"
                                                        ELSE "SKIPPED")
                /\ Answer(h, "COMPLETED")
           ELSE /\ Goes(h, "reconcile")
                /\ UNCHANGED <<event, messages, trailing, beat>>
      /\ UNCHANGED <<month, session, deleting>>

\* reconcileOwnershipLost: the client is told what the ledger says.
Reconcile(h) ==
    /\ At(h, "reconcile")
    /\ Answer(h, Outcome(event[turn[h].req].status))
    /\ UNCHANGED <<event, month, chat, deleting>>

-----------------------------------------------------------------------------
(* Beside the handlers *)

\* A tick of the heartbeat: it extends the lease, or finds it gone, or fails.
Beat(h) ==
    /\ beat[h] # "off"
    /\ \/ /\ Owned(h)
          /\ event' = Extended(h)
          /\ beat' = [beat EXCEPT ![h] = IF @ = "on" THEN "on" ELSE "off"]
          /\ UNCHANGED turn
       \/ /\ turn' = [turn EXCEPT ![h].lost = TRUE]
          /\ Silent(h)
          /\ UNCHANGED event
    /\ UNCHANGED <<month, chat, deleting>>

Lapse(r) ==
    /\ event[r].lease = "fresh"
    /\ event' = [event EXCEPT ![r].lease = "lapsed"]
    /\ UNCHANGED <<month, chat, turn, beat, deleting>>

\* summaryForOrganization expires row by row, without the lock.
Expire(r) ==
    /\ "summary" \in Endpoints
    /\ Abandoned(r)
    /\ event' = [event EXCEPT ![r] = Closed("INTERRUPTED")]
    /\ UNCHANGED <<month, chat, turn, beat, deleting>>

NewMonth ==
    /\ month.now < Months
    /\ month' = [month EXCEPT !.now = month.now + 1]
    /\ UNCHANGED <<event, chat, turn, beat, deleting>>

\* The process of a handler dies.
Crash(h) ==
    /\ turn[h].pc \in Working
    /\ turn' = [turn EXCEPT ![h] = NoTurn]
    /\ Silent(h)
    /\ UNCHANGED <<event, month, chat, deleting>>

\* deleteSession: the check for a turn in progress is outside of the
\* transaction that clears and archives the conversation.
DeleteCheck ==
    /\ "delete" \in Endpoints
    /\ session = "ACTIVE" /\ ~ deleting
    /\ \A r \in Requests : event[r].status = "PENDING" => Abandoned(r)
    /\ deleting' = TRUE
    /\ UNCHANGED <<event, month, chat, turn, beat>>

DeleteCommit ==
    /\ deleting
    /\ messages' = {} /\ trailing' = NoMessage
    /\ session' = "ARCHIVED"
    /\ deleting' = FALSE
    /\ UNCHANGED <<event, month, turn, beat>>

-----------------------------------------------------------------------------
\* What the process of a handler does by itself; every call it waits for
\* ends, for providers and tools have time limits.
Serve(h) ==
    \/ Begin(h) \/ BeginAgain(h) \/ Refuse(h)
    \/ Own(h) \/ UserTurn(h) \/ UserTurnFails(h)
    \/ Ask(h) \/ Lost(h) \/ Reply(h)
    \/ LostInLoop(h) \/ SafetyStop(h) \/ ToolLimit(h) \/ ExecuteTools(h)
    \/ AppendRound(h) \/ AskAgain(h) \/ ReplyAgain(h)
    \/ Complete(h) \/ Reconcile(h)

Next ==
    \/ \E h \in Handlers :
         \/ Serve(h) \/ Beat(h) \/ Crash(h)
         \/ \E r \in Requests : Open(h, r)
    \/ \E r \in Requests : Lapse(r) \/ Expire(r)
    \/ NewMonth \/ DeleteCheck \/ DeleteCommit

Spec == Init /\ [][Next]_vars

FairSpec == Spec /\ \A h \in Handlers : WF_vars(Serve(h))

-----------------------------------------------------------------------------
(* Properties *)

\* A request id is worked on by one handler at a time, however often its
\* message is sent and whatever happens to the lease (beginExecution).
OneWorker ==
    \A g, h \in Handlers :
      g # h /\ turn[g].pc \in Working /\ turn[h].pc \in Working
        => turn[g].req # turn[h].req

\* A client that was told the turn is over was told what the ledger charges:
\* an answer it got is kept, and a turn reported as failed or interrupted is
\* never charged afterwards, even when its worker was late.
ToldTheTruth ==
    \A h \in Handlers :
      LET s == event[turn[h].req].status IN
        /\ turn[h].pc = "COMPLETED" => s \in {"SUCCEEDED", "SKIPPED"}
        /\ turn[h].pc \in {"FAILED", "INTERRUPTED"}
             => s \in {"FAILED", "INTERRUPTED"}

\* The ledger and the chat agree on what was answered: an assistant's answer
\* is there exactly when its reservation ended well (completeTurnAtomically),
\* unless the user deleted the conversation.
AnsweredIffDone ==
    \A r \in Requests :
      LET answered == \E m \in messages : m.role = "ASSISTANT" /\ m.tag = r
          done == event[r].status \in {"SUCCEEDED", "SKIPPED"} IN
        /\ answered => done
        /\ done /\ session = "ACTIVE" => answered

\* Tool rounds and answers are written only while their reservation is held:
\* a worker that lost its lease cannot write into the conversation of the
\* turns after it.
FencedWrites ==
    [][\A m \in messages' \ messages :
         m.role # "USER" => event[m.tag].status = "PENDING"]_vars

\* Every message is answered, with the chain, the retries and the rounds of
\* tools it takes, unless the process serving it dies.
EveryTurnEnds ==
    \A h \in Handlers :
      turn[h].pc \in {"begin"} \cup Working
        ~> turn[h].pc \in {"idle"} \cup Told

\* A provider called for a turn that is still held is shown its question.
QuestionIsAsked ==
    \A h \in Handlers :
      turn[h].pc \in {"asked", "reasked"} /\ Owned(h) => turn[h].seen

\* The tasks of the current month, seen as a QuotaAccount: reservations
\* never exceed the limit of the plan, across expired leases, late workers
\* and retries, and nothing that was let go is charged.
Account == INSTANCE QuotaAccount WITH
    Items  <- Requests,
    Charge <- Cardinality,
    Limit  <- Limit,
    phase  <- [r \in Requests |->
                 LET s == event[r].status IN
                   CASE s = "NONE"                         -> "NEW"
                     [] s = "PENDING" /\ ThisMonth(r)      -> "HELD"
                     [] s = "SUCCEEDED" /\ ThisMonth(r)    -> "CHARGED"
                     [] OTHER                              -> "GONE"]
KeepsAccount == Account!Spec
WithinAllowance == Account!WithinLimit
=============================================================================
