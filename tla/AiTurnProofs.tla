---------------------------- MODULE AiTurnProofs ----------------------------
(***************************************************************************)
(* The theorems of AiTurn, for any sets of request ids and handlers, any   *)
(* limit, chain of providers and number of rounds.                         *)
(***************************************************************************)
EXTENDS AiTurn, FiniteSetTheorems, TLAPS

\* A turn that is answered, and what a handler remembers of it.
LEMMA Answered ==
  ASSUME TypeOK, NEW h \in Handlers, NEW told, Answer(h, told)
  PROVE  /\ turn' \in [Handlers -> Turn]
         /\ beat' \in [Handlers -> {"on", "last", "off"}]
         /\ \A g \in Handlers \ {h} : turn'[g] = turn[g]
         /\ turn'[h].pc = IF told \in Told THEN told ELSE "idle"
         /\ told \in Told => turn'[h].req = turn[h].req
<1>1. NoTurn \in Turn /\ NoTurn.pc = "idle"
  BY SizeAssumption DEF NoTurn, Turn
<1>2. \A p \in Told, r \in Requests \cup {NoRequest} :
        LET t == [NoTurn EXCEPT !.pc = p, !.req = r] IN
          t \in Turn /\ t.pc = p /\ t.req = r
  BY <1>1 DEF Turn
<1>3. turn[h].req \in Requests \cup {NoRequest}
  BY DEF TypeOK, Turn
<1> DEFINE t == IF told \in Told
                  THEN [NoTurn EXCEPT !.pc = told, !.req = turn[h].req]
                  ELSE NoTurn
<1>4. /\ t \in Turn /\ t.pc = IF told \in Told THEN told ELSE "idle"
      /\ told \in Told => t.req = turn[h].req
  <2>1. CASE told \in Told
    BY <1>2, <1>3, <2>1
  <2>2. CASE told \notin Told
    BY <1>1, <2>2
  <2>3. QED
    BY <2>1, <2>2
<1>5. turn' = [turn EXCEPT ![h] = t]
  BY DEF Answer
<1> HIDE DEF t
<1>6. QED
  BY <1>4, <1>5 DEF Answer, Silent, TypeOK


\* What the steps of a turn make of it; Keeps says that it is still the turn
\* of its request.
Keeps(h) ==
    /\ turn' \in [Handlers -> Turn]
    /\ turn'[h].req = turn[h].req
    /\ \A g \in Handlers \ {h} : turn'[g] = turn[g]

LEMMA Going ==
  ASSUME TypeOK, NEW h \in Handlers, NEW pc \in Working, Goes(h, pc)
  PROVE  Keeps(h) /\ turn'[h].pc = pc
BY DEF TypeOK, Goes, Turn, Working, Keeps

LEMMA Calling ==
  ASSUME TypeOK, NEW h \in Handlers, NEW pc \in Working, Calls(h, pc)
  PROVE  Keeps(h) /\ turn'[h].pc = pc
<1> DEFINE seen == InTranscript([role |-> "USER", round |-> 0,
                                 tag |-> turn[h].question])
<1>1. seen \in BOOLEAN
  BY DEF InTranscript
<1>2. turn' = [turn EXCEPT ![h].pc = pc, ![h].seen = seen]
  BY DEF Calls
<1> HIDE DEF seen
<1> DEFINE t == [turn[h] EXCEPT !.pc = pc, !.seen = seen]
<1>3. turn[h] \in Turn
  BY DEF TypeOK
<1>4. t \in Turn /\ t.pc = pc /\ t.req = turn[h].req
  BY <1>1, <1>3 DEF Turn, Working
<1>5. turn' = [turn EXCEPT ![h] = t]
  BY <1>2
<1> HIDE DEF t
<1>6. QED
  BY <1>4, <1>5 DEF TypeOK, Keeps

\* What becomes of an event.
LEMMA Extending ==
  ASSUME TypeOK, NEW h \in Handlers
  PROVE  Extended(h) \in [Requests -> Event]
<1>1. \A e \in Event : [e EXCEPT !.lease = "fresh"] \in Event
  BY DEF Event
<1>2. event \in [Requests -> Event]
  BY DEF TypeOK
<1> DEFINE e == [event[turn[h].req] EXCEPT !.lease = "fresh"]
<1>3. Extended(h) = [event EXCEPT ![turn[h].req] = e]
  BY DEF Extended
<1>4. turn[h].req \in Requests => e \in Event
  BY <1>1, <1>2
<1> HIDE DEF e
<1>5. QED
  BY <1>2, <1>3, <1>4

LEMMA Events ==
  ASSUME TypeOK, NEW h \in Handlers, NEW r \in Requests
  PROVE  /\ Extended(h) \in [Requests -> Event]
         /\ \A s \in Terminal : /\ Ended(h, s) \in [Requests -> Event]
                               /\ [event EXCEPT ![r] = Closed(s)]
                                    \in [Requests -> Event]
         /\ Expired(event) \in [Requests -> Event]
         /\ [Expired(event) EXCEPT ![r] = Reserved(h)] \in [Requests -> Event]
<1>1. Extended(h) \in [Requests -> Event]
  BY Extending
<1>2. \A s \in Terminal : Closed(s) \in Event
  BY DEF Closed, Event, Terminal, Status
<1>3. Reserved(h) \in Event
  BY DEF Reserved, Event, Status
<1>4. Expired(event) \in [Requests -> Event]
  BY <1>2 DEF TypeOK, Expired, Terminal
<1>5. QED
  BY <1>1, <1>2, <1>3, <1>4 DEF TypeOK, Ended

LEMMA FailingOver ==
  ASSUME TypeOK, NEW h \in Handlers, NEW next \in Working, Failover(h, next)
  PROVE  /\ Keeps(h) /\ turn'[h].pc \in {next, "reconcile"}
         /\ event' \in [Requests -> Event]
<1>1. CASE Owned(h)
  <2> DEFINE n == turn[h].provider + 1
             t == [turn[h] EXCEPT !.pc = next, !.provider = n]
  <2>1. turn[h] \in Turn /\ n \in 1 .. Providers
    BY SizeAssumption DEF TypeOK, Turn, Failover
  <2>2. turn' = [turn EXCEPT ![h] = t]
    BY <1>1 DEF Failover
  <2> HIDE DEF n
  <2>3. t \in Turn /\ t.pc = next /\ t.req = turn[h].req
    BY <2>1 DEF Turn, Working
  <2> HIDE DEF t
  <2>4. Keeps(h) /\ turn'[h].pc = next
    BY <2>2, <2>3 DEF TypeOK, Keeps
  <2>5. event' = Extended(h)
    BY <1>1 DEF Failover
  <2>6. event' \in [Requests -> Event]
    BY <2>5, Extending
  <2>7. QED
    BY <2>4, <2>6
<1>2. CASE ~ Owned(h)
  BY <1>2, Going DEF Failover, TypeOK, Working
<1>3. QED
  BY <1>1, <1>2

LEMMA Appending ==
  ASSUME TypeOK, NEW h \in Handlers, turn[h].req \in Requests,
         NEW n \in 0 .. MaxRounds + 1, NEW pc \in Working,
         NEW billable \in BOOLEAN, Append(h, n, pc, billable)
  PROVE  /\ Keeps(h) /\ turn'[h].pc \in {pc, "reconcile"}
         /\ event' \in [Requests -> Event]
         /\ messages' \subseteq Message /\ trailing' \in Message \cup {NoMessage}
<1>1. CASE Owned(h)
  <2> DEFINE t == [turn[h] EXCEPT !.pc = pc, !.billable = billable]
  <2>1. turn[h] \in Turn
    BY DEF TypeOK
  <2>2. turn' = [turn EXCEPT ![h] = t]
    BY <1>1 DEF Append
  <2>3. t \in Turn /\ t.pc = pc /\ t.req = turn[h].req
    BY <2>1 DEF Turn, Working
  <2> HIDE DEF t
  <2>4. Keeps(h) /\ turn'[h].pc = pc
    BY <2>2, <2>3 DEF TypeOK, Keeps
  <2>5. event' = Extended(h)
    BY <1>1 DEF Append
  <2>6. messages' \subseteq Message /\ trailing' \in Message
    BY <1>1 DEF Append, Message, TypeOK
  <2>7. event' \in [Requests -> Event]
    BY <2>5, Extending
  <2>8. QED
    BY <2>4, <2>6, <2>7
<1>2. CASE ~ Owned(h)
  BY <1>2, Going DEF Append, TypeOK, Working
<1>3. QED
  BY <1>1, <1>2

LEMMA GivingUp ==
  ASSUME TypeOK, NEW h \in Handlers, turn[h].req \in Requests, GiveUp(h)
  PROVE  /\ \E s \in {"FAILED", "INTERRUPTED"} :
              EndIfOwned(h, s) /\ Answer(h, s)
         /\ event' \in [Requests -> Event]
         /\ UNCHANGED <<month, messages, trailing, session, deleting>>
BY Events DEF GiveUp, EndIfOwned, TypeOK, Terminal, chat

-----------------------------------------------------------------------------
\* Whoever is not idle has a request.
HasRequest == \A h \in Handlers : turn[h].pc # "idle" => turn[h].req \in Requests
TypeInv    == TypeOK /\ HasRequest

\* What every step of a turn leaves well typed.
Moves(h) ==
    /\ turn' \in [Handlers -> Turn]
    /\ \A g \in Handlers \ {h} : turn'[g] = turn[g]
    /\ turn[h].req \in Requests
    /\ turn'[h].pc # "idle" => turn'[h].req = turn[h].req
    /\ event' \in [Requests -> Event]
    /\ month' \in [now : 0 .. Months, of : [Requests -> 0 .. Months]]
    /\ messages' \subseteq Message /\ trailing' \in Message \cup {NoMessage}
    /\ session' \in {"ACTIVE", "ARCHIVED"}
    /\ beat' \in [Handlers -> {"on", "last", "off"}]
    /\ deleting' \in BOOLEAN

\* The row a handler writes, or finds, for its message.
LEMMA Questions ==
  ASSUME TypeOK, NEW h \in Handlers, turn[h].req \in Requests
  PROVE  Question(h) \in Message /\ Question(h).role = "USER"
<1>1. [role |-> "USER", tag |-> turn[h].req, round |-> 0] \in Message
  BY SizeAssumption DEF Message
<1> QED
  BY <1>1 DEF Question, Repeats, TypeOK, Message, NoMessage

LEMMA ServeMoves ==
  ASSUME TypeInv, NEW h \in Handlers, Serve(h)
  PROVE  Moves(h)
<1> USE DEF TypeInv, At, chat
<1>1. TypeOK /\ turn[h].req \in Requests
  BY DEF HasRequest, Serve, Begin, BeginAgain, Refuse, Own, UserTurn,
         UserTurnFails, Ask, Lost, Reply, LostInLoop, SafetyStop, ToolLimit,
         ExecuteTools, AppendRound, AskAgain, ReplyAgain, Complete, Reconcile
<1>2. CASE Begin(h)
  <2> DEFINE r == turn[h].req
  <2>1. event' \in [Requests -> Event]
    BY <1>1, <1>2, Events DEF Begin
  <2>2. month' \in [now : 0 .. Months, of : [Requests -> 0 .. Months]]
    BY <1>1, <1>2 DEF Begin, TypeOK
  <2>3. QED
    BY <1>1, <1>2, <2>1, <2>2, Going DEF Begin, Moves, Keeps, Working, TypeOK
<1>3. CASE BeginAgain(h)
  <2>1. event' \in [Requests -> Event]
    BY <1>1, <1>3, Events DEF BeginAgain, Terminal, TypeOK
  <2>2. QED
    BY <1>1, <1>3, <2>1, Answered DEF BeginAgain, Moves, Told, TypeOK
<1>4. CASE Refuse(h) \/ Reconcile(h)
  BY <1>1, <1>4, Answered DEF Refuse, Reconcile, Moves, Told, TypeOK
<1>5. CASE Own(h)
  BY <1>1, <1>5, Going, Events DEF Own, Moves, Keeps, Working, TypeOK
<1>6. CASE UserTurn(h)
  <2>1. PICK q \in Message : /\ messages' = messages \cup {q} /\ trailing' = q
                            /\ turn' = [turn EXCEPT ![h].pc = "ask",
                                                    ![h].question = q.tag]
    BY <1>1, <1>6, Questions DEF UserTurn, WritesQuestion
  <2> DEFINE t == [turn[h] EXCEPT !.pc = "ask", !.question = q.tag]
  <2>2. turn[h] \in Turn /\ q.tag \in Requests
    BY <1>1 DEF TypeOK, Message
  <2>3. t \in Turn /\ t.pc = "ask" /\ t.req = turn[h].req
    BY <2>2 DEF Turn, Working
  <2>4. turn' = [turn EXCEPT ![h] = t]
    BY <2>1
  <2> HIDE DEF t
  <2>5. /\ turn' \in [Handlers -> Turn] /\ turn'[h].req = turn[h].req
        /\ \A g \in Handlers \ {h} : turn'[g] = turn[g]
    BY <1>1, <2>3, <2>4 DEF TypeOK
  <2>6. messages' \subseteq Message /\ trailing' \in Message
    BY <1>1, <2>1 DEF TypeOK
  <2>7. /\ beat' \in [Handlers -> {"on", "last", "off"}]
        /\ UNCHANGED <<event, month, session, deleting>>
    BY <1>1, <1>6 DEF UserTurn, TypeOK
  <2>8. QED
    BY <1>1, <2>5, <2>6, <2>7 DEF Moves, TypeOK
<1>7. CASE UserTurnFails(h)
  <2>1. messages' \subseteq Message /\ trailing' \in Message \cup {NoMessage}
    BY <1>1, <1>7, Questions DEF UserTurnFails, WritesQuestion, TypeOK
  <2>2. QED
    BY <1>1, <1>7, <2>1, Answered, Events
       DEF UserTurnFails, EndIfOwned, Moves, Told, Terminal, TypeOK
<1>8. CASE Ask(h)
  BY <1>1, <1>8, Going, Calling DEF Ask, Moves, Keeps, Working, TypeOK
<1>9. CASE Lost(h) \/ SafetyStop(h)
  BY <1>1, <1>9, Going DEF Lost, SafetyStop, Moves, Keeps, Working, TypeOK
<1>10. CASE Reply(h)
  <2>1. CASE Locked(h)
    BY <1>1, <2>1, Going DEF Locked, Moves, Keeps, Working, TypeOK
  <2>2. CASE Failover(h, "ask")
    BY <1>1, <2>2, FailingOver
       DEF Failover, Moves, Keeps, Working, TypeOK
  <2>3. CASE GiveUp(h)
    BY <1>1, <2>3, GivingUp, Answered DEF Moves, Told, TypeOK
  <2>4. QED
    BY <1>10, <2>1, <2>2, <2>3 DEF Reply
<1>11. CASE LostInLoop(h)
  BY <1>1, <1>11, Going, Events
     DEF LostInLoop, EndIfOwned, Moves, Keeps, Working, Terminal, TypeOK
<1>12. CASE ToolLimit(h)
  <2>1. CASE Append(h, turn[h].rounds + 1, "final", FALSE)
    <3>1. turn[h].rounds + 1 \in 0 .. MaxRounds + 1 /\ "final" \in Working
      BY <1>1, SizeAssumption DEF TypeOK, Turn, Working
    <3>2. QED
      BY <1>1, <1>12, <2>1, <3>1, Appending DEF ToolLimit, Moves, Keeps, TypeOK
  <2>2. CASE turn' = [turn EXCEPT ![h].pc = "final", ![h].billable = FALSE]
             /\ UNCHANGED <<event, messages, trailing>>
    <3> DEFINE t == [turn[h] EXCEPT !.pc = "final", !.billable = FALSE]
    <3>1. turn[h] \in Turn
      BY <1>1 DEF TypeOK
    <3>2. t \in Turn /\ t.pc = "final" /\ t.req = turn[h].req
      BY <3>1 DEF Turn, Working
    <3>3. turn' = [turn EXCEPT ![h] = t]
      BY <2>2
    <3> HIDE DEF t
    <3>4. QED
      BY <1>1, <1>12, <2>2, <3>2, <3>3 DEF ToolLimit, Moves, TypeOK
  <2>3. QED
    BY <1>12, <2>1, <2>2 DEF ToolLimit
<1>13. CASE ExecuteTools(h)
  <2> DEFINE n == turn[h].rounds + 1
             t == [turn[h] EXCEPT !.pc = "append", !.rounds = n]
  <2>1. turn[h] \in Turn /\ n \in 0 .. MaxRounds
    <3>1. turn[h] \in Turn
      BY <1>1 DEF TypeOK
    <3>2. turn[h].rounds \in 0 .. MaxRounds
      BY <3>1 DEF Turn
    <3>3. turn[h].rounds < MaxRounds
      BY <1>13 DEF ExecuteTools
    <3>4. QED
      BY <3>1, <3>2, <3>3, SizeAssumption
  <2>2. turn' = [turn EXCEPT ![h] = t]
    BY <1>13 DEF ExecuteTools
  <2> HIDE DEF n
  <2>3. t \in Turn /\ t.pc = "append" /\ t.req = turn[h].req
    BY <2>1 DEF Turn, Working
  <2> HIDE DEF t
  <2>4. /\ turn' \in [Handlers -> Turn] /\ turn'[h].req = turn[h].req
        /\ \A g \in Handlers \ {h} : turn'[g] = turn[g]
    BY <1>1, <2>2, <2>3 DEF TypeOK
  <2>5. UNCHANGED <<event, month, messages, trailing, session, beat, deleting>>
    BY <1>13 DEF ExecuteTools
  <2>6. QED
    BY <1>1, <2>4, <2>5 DEF Moves, TypeOK
<1>14. CASE AppendRound(h)
  <2>1. turn[h].rounds \in 0 .. MaxRounds + 1 /\ "reask" \in Working
    BY <1>1, SizeAssumption DEF TypeOK, Turn, Working
  <2>2. QED
    BY <1>1, <1>14, <2>1, Appending DEF AppendRound, Moves, Keeps, TypeOK
<1>15. CASE AskAgain(h)
  BY <1>1, <1>15, Calling DEF AskAgain, Moves, Keeps, Working, TypeOK
<1>16. CASE ReplyAgain(h)
  <2>1. CASE Failover(h, "reask")
    BY <1>1, <2>1, FailingOver
       DEF Failover, Moves, Keeps, Working, TypeOK
  <2>2. CASE GiveUp(h)
    BY <1>1, <2>2, GivingUp, Answered DEF Moves, Told, TypeOK
  <2>3. CASE (\E pc \in {"final", "loop", "reconcile"} : Goes(h, pc))
             /\ UNCHANGED <<event, month, chat, beat, deleting>>
    BY <1>1, <2>3, Going DEF Moves, Keeps, Working, TypeOK
  <2>4. QED
    BY <1>16, <2>1, <2>2, <2>3 DEF ReplyAgain
<1>17. CASE Complete(h)
  <2>1. CASE Owned(h)
    <3>1. messages' \subseteq Message /\ trailing' \in Message
      BY <1>1, <1>17, <2>1, SizeAssumption DEF Complete, Message, TypeOK
    <3>2. event' \in [Requests -> Event]
      BY <1>1, <1>17, <2>1, Events DEF Complete, Terminal
    <3>3. QED
      BY <1>1, <1>17, <2>1, <3>1, <3>2, Answered
         DEF Complete, Moves, Told, TypeOK
  <2>2. CASE ~ Owned(h)
    BY <1>1, <1>17, <2>2, Going DEF Complete, Moves, Keeps, Working, TypeOK
  <2>3. QED
    BY <2>1, <2>2
<1>18. QED
  BY <1>2, <1>3, <1>4, <1>5, <1>6, <1>7, <1>8, <1>9, <1>10, <1>11, <1>12,
     <1>13, <1>14, <1>15, <1>16, <1>17 DEF Serve

LEMMA TypeInvariant == Spec => []TypeInv
<1>1. Init => TypeInv
  <2>1. NoTurn \in Turn /\ NoTurn.pc = "idle"
    BY SizeAssumption DEF NoTurn, Turn
  <2>2. NoEvent \in Event
    BY DEF NoEvent, Event, Status
  <2>3. Init => HasRequest
    BY <2>1 DEF Init, HasRequest
  <2>4. Init => /\ event \in [Requests -> Event]
                /\ month \in [now : 0 .. Months, of : [Requests -> 0 .. Months]]
    BY <2>2, SizeAssumption DEF Init
  <2>5. QED
    BY <2>1, <2>3, <2>4 DEF Init, TypeInv, TypeOK
<1>2. TypeInv /\ [Next]_vars => TypeInv'
  <2> SUFFICES ASSUME TypeInv, [Next]_vars PROVE TypeInv'
    OBVIOUS
  <2> USE DEF TypeInv, TypeOK, HasRequest
  <2>1. ASSUME NEW h \in Handlers, Serve(h) PROVE TypeInv'
    <3>1. Moves(h)
      BY <2>1, ServeMoves
    <3>2. TypeOK'
      BY <3>1 DEF Moves
    <3>3. HasRequest'
      BY <3>1 DEF Moves
    <3>4. QED
      BY <3>2, <3>3
  <2>2. ASSUME NEW h \in Handlers, NEW r \in Requests, Open(h, r)
        PROVE  TypeInv'
    <3> DEFINE t == [NoTurn EXCEPT !.pc = "begin", !.req = r]
    <3>1. NoTurn \in Turn
      BY SizeAssumption DEF NoTurn, Turn
    <3>2. t \in Turn /\ t.req = r
      BY <3>1 DEF Turn
    <3>3. turn' = [turn EXCEPT ![h] = t]
      BY <2>2 DEF Open
    <3> HIDE DEF t
    <3>4. QED
      BY <2>2, <3>2, <3>3 DEF Open, chat
  <2>3. ASSUME NEW h \in Handlers, Beat(h) PROVE TypeInv'
    <3>1. CASE UNCHANGED turn
      BY <2>3, <3>1 DEF Beat, chat, Extended, Event, Silent
    <3>2. CASE /\ turn' = [turn EXCEPT ![h].lost = TRUE]
               /\ Silent(h) /\ UNCHANGED event
      <4>1. turn' \in [Handlers -> Turn]
        <5>1. turn[h] \in Turn
          OBVIOUS
        <5>2. [turn[h] EXCEPT !.lost = TRUE] \in Turn
          BY <5>1 DEF Turn
        <5>3. QED
          BY <3>2, <5>2
      <4>2. \A g \in Handlers : /\ turn'[g].pc = turn[g].pc
                                /\ turn'[g].req = turn[g].req
        BY <3>2 DEF Turn
      <4>3. QED
        BY <2>3, <3>2, <4>1, <4>2 DEF Beat, chat, Silent
    <3>3. QED
      BY <2>3, <3>1, <3>2 DEF Beat
  <2>4. ASSUME NEW h \in Handlers, Crash(h) PROVE TypeInv'
    <3>1. NoTurn \in Turn /\ NoTurn.pc = "idle"
      BY SizeAssumption DEF NoTurn, Turn
    <3>2. QED
      BY <2>4, <3>1 DEF Crash, Silent, chat
  <2>5. ASSUME NEW r \in Requests, Lapse(r) \/ Expire(r) PROVE TypeInv'
    BY <2>5 DEF Lapse, Expire, Closed, Event, Status, Terminal, chat
  <2>6. CASE NewMonth
    BY <2>6, SizeAssumption DEF NewMonth, chat
  <2>7. CASE DeleteCheck \/ DeleteCommit
    BY <2>7 DEF DeleteCheck, DeleteCommit, chat
  <2>8. CASE UNCHANGED vars
    BY <2>8 DEF vars, chat
  <2>9. QED
    BY <2>1, <2>2, <2>3, <2>4, <2>5, <2>6, <2>7, <2>8 DEF Next
<1>3. QED
  BY <1>1, <1>2, PTL DEF Spec

\* TypeOK is an invariant.
THEOREM TypeCorrect == Spec => []TypeOK
BY TypeInvariant, PTL DEF TypeInv

-----------------------------------------------------------------------------
(* One worker, and what clients are told.  A worker's event is held by it or *)
(* was interrupted: nobody else fails or completes it.                       *)

WorkersEvent ==
    \A h \in Handlers : turn[h].pc \in Working =>
      LET e == event[turn[h].req] IN
        \/ e.status = "PENDING" /\ e.owner = h
        \/ e.status = "INTERRUPTED"

TurnInv == OneWorker /\ WorkersEvent /\ ToldTheTruth

Good == {"SUCCEEDED", "SKIPPED"}
Bad  == {"FAILED", "INTERRUPTED"}

Same(r) == event'[r].status = event[r].status /\ event'[r].owner = event[r].owner

\* How a step of handler h may change an event.
Fate(h, r) ==
    \/ Same(r)
    \/ event[r].status = "PENDING" /\ event'[r].status = "INTERRUPTED"
    \/ /\ r = turn[h].req /\ turn[h].pc = "begin" /\ turn'[h].pc = "own"
       /\ event[r].status = "NONE"
       /\ event'[r].status = "PENDING" /\ event'[r].owner = h
    \/ /\ r = turn[h].req
       /\ turn[h].pc \in Working /\ turn'[h].pc \notin Working
       /\ event[r].status = "PENDING" /\ event'[r].status \in Terminal

\* Where a step of handler h may lead it.
Leads(h) ==
    /\ turn'[h].pc # "begin"
    /\ turn'[h].pc \in Working =>
         \/ turn[h].pc \in Working
         \/ /\ event[turn[h].req].status = "NONE"
            /\ event'[turn[h].req].status = "PENDING"
            /\ event'[turn[h].req].owner = h
    /\ turn'[h].pc = "COMPLETED" => event'[turn[h].req].status \in Good
    /\ turn'[h].pc \in {"FAILED", "INTERRUPTED"}
         => event'[turn[h].req].status \in Bad

\* The end of an owned event, and its extension.
LEMMA Fates ==
  ASSUME TypeOK, NEW h \in Handlers, turn[h].req \in Requests,
         NEW r \in Requests
  PROVE  /\ Extended(h)[r].status = event[r].status
         /\ Extended(h)[r].owner = event[r].owner
         /\ \A s \in Terminal :
              Ended(h, s)[r].status = IF r = turn[h].req THEN s
                                                         ELSE event[r].status
         /\ \A s \in Terminal : r # turn[h].req => Ended(h, s)[r] = event[r]
         /\ \/ Expired(event)[r] = event[r]
            \/ /\ event[r].status = "PENDING"
               /\ Expired(event)[r].status = "INTERRUPTED"
<1>1. /\ Extended(h)[r].status = event[r].status
      /\ Extended(h)[r].owner = event[r].owner
  BY DEF TypeOK, Event, Extended
<1>2. \A s \in Terminal :
        /\ Ended(h, s)[r].status = IF r = turn[h].req THEN s ELSE event[r].status
        /\ r # turn[h].req => Ended(h, s)[r] = event[r]
  BY DEF TypeOK, Ended, Closed
<1>3. \/ Expired(event)[r] = event[r]
      \/ /\ event[r].status = "PENDING"
         /\ Expired(event)[r].status = "INTERRUPTED"
  BY DEF Expired, Closed
<1>4. QED
  BY <1>1, <1>2, <1>3

\* A worker that gives up: its client is told what the ledger says even when
\* the event was taken from it.
LEMMA GivesUp ==
  ASSUME TypeOK, WorkersEvent, NEW h \in Handlers, turn[h].req \in Requests,
         turn[h].pc \in Working, GiveUp(h)
  PROVE  Leads(h) /\ \A r \in Requests : Fate(h, r)
<1>1. PICK s \in {"FAILED", "INTERRUPTED"} : EndIfOwned(h, s) /\ Answer(h, s)
  BY GivingUp
<1>2. turn'[h].pc = s /\ s \in Terminal /\ s \in Told /\ turn'[h].pc \notin Working
  BY <1>1, Answered DEF Terminal, Told, Working
<1>3. CASE Owned(h)
  <2>1. event' = Ended(h, s)
    BY <1>1, <1>3 DEF EndIfOwned
  <2>2. QED
    BY <1>1, <1>2, <1>3, <2>1, Fates DEF Leads, Fate, Same, Bad, Owned
<1>4. CASE ~ Owned(h)
  <2>1. UNCHANGED event /\ event[turn[h].req].status = "INTERRUPTED"
    BY <1>1, <1>4 DEF EndIfOwned, WorkersEvent, Owned
  <2>2. QED
    BY <1>1, <1>2, <2>1 DEF Leads, Fate, Same, Bad
<1>5. QED
  BY <1>3, <1>4

\* A step that keeps the worker at work.
LEMMA WorksOn ==
  ASSUME TypeOK, NEW h \in Handlers, turn[h].req \in Requests,
         turn[h].pc \in Working, turn'[h].pc \in Working,
         \/ UNCHANGED event
         \/ event' = Extended(h)
         \/ Owned(h) /\ event' = Ended(h, "INTERRUPTED")
  PROVE  Leads(h) /\ \A r \in Requests : Fate(h, r)
BY Fates DEF Leads, Fate, Same, Working, Owned, Terminal

\* A turn that ends with what the ledger says of its event.
LEMMA TellsOutcome ==
  ASSUME TypeOK, NEW h \in Handlers, NEW s \in Status,
         event'[turn[h].req].status = s, Answer(h, Outcome(s))
  PROVE  Leads(h)
<1>1. turn'[h].pc = IF Outcome(s) \in Told THEN Outcome(s) ELSE "idle"
  BY Answered
<1>2. /\ Outcome(s) = "COMPLETED" => s \in Good
      /\ Outcome(s) \in {"FAILED", "INTERRUPTED"} => s \in Bad
  BY DEF Outcome, Status, Terminal, Good, Bad
<1>3. QED
  BY <1>1, <1>2 DEF Leads, Told, Working

LEMMA ServeFates ==
  ASSUME TypeInv, WorkersEvent, NEW h \in Handlers, Serve(h)
  PROVE  Leads(h) /\ \A r \in Requests : Fate(h, r)
<1> USE DEF TypeInv, At, chat
<1>1. TypeOK /\ turn[h].req \in Requests
  BY ServeMoves DEF Moves
<1>2. CASE Begin(h)
  <2>1. Keeps(h) /\ turn'[h].pc = "own" /\ turn[h].pc = "begin"
    BY <1>1, <1>2, Going DEF Begin, Working
  <2>2. \A r \in Requests : event'[r] = IF r = turn[h].req THEN Reserved(h)
                                         ELSE Expired(event)[r]
    BY <1>1, <1>2, Events DEF Begin
  <2>3. \A r \in Requests : Fate(h, r)
    BY <1>1, <1>2, <2>1, <2>2, Fates DEF Begin, Reserved, Fate, Same
  <2>4. Leads(h)
    BY <1>1, <1>2, <2>1, <2>2 DEF Begin, Reserved, Leads
  <2>5. QED
    BY <2>3, <2>4
<1>3. CASE BeginAgain(h)
  <2> DEFINE r == turn[h].req
             e == IF Abandoned(r) THEN Closed("INTERRUPTED") ELSE event[r]
  <2>1. event' = [event EXCEPT ![r] = e] /\ Answer(h, Outcome(e.status))
    BY <1>3 DEF BeginAgain
  <2>2. /\ event'[r] = e /\ \A q \in Requests \ {r} : event'[q] = event[q]
        /\ \/ e = event[r]
           \/ event[r].status = "PENDING" /\ e.status = "INTERRUPTED"
    BY <1>1, <2>1 DEF TypeOK, Abandoned, Closed
  <2> HIDE DEF e
  <2>3. Leads(h)
    <3>1. e.status \in Status
      BY <1>1, <2>2 DEF TypeOK, Event, Status, Terminal
    <3>2. QED
      BY <1>1, <2>1, <2>2, <3>1, TellsOutcome
  <2>4. QED
    BY <2>2, <2>3 DEF Fate, Same
<1>4. CASE Refuse(h)
  BY <1>1, <1>4, Answered DEF Refuse, Leads, Told, Working, Fate, Same
<1>5. CASE Reconcile(h)
  <2>1. UNCHANGED event /\ event[turn[h].req].status \in Status
    BY <1>1, <1>5 DEF Reconcile, TypeOK, Event
  <2>2. Leads(h)
    BY <1>1, <1>5, <2>1, TellsOutcome DEF Reconcile
  <2>3. QED
    BY <2>1, <2>2 DEF Fate, Same
<1>6. CASE Own(h)
  BY <1>1, <1>6, Going, WorksOn DEF Own, Working, Keeps
<1>7. CASE UserTurn(h)
  <2>1. turn'[h].pc = "ask"
    BY <1>1, <1>7 DEF UserTurn, TypeOK, Turn
  <2>2. QED
    BY <1>1, <1>7, <2>1, WorksOn DEF UserTurn, Working
<1>8. CASE UserTurnFails(h)
  <2>1. turn[h].pc \in Working /\ turn'[h].pc = "idle"
    BY <1>1, <1>8, Answered DEF UserTurnFails, Told, Working
  <2>2. QED
    BY <1>1, <1>8, <2>1, Fates
       DEF UserTurnFails, EndIfOwned, Owned, Leads, Fate, Same, Working, Terminal
<1>9. CASE Ask(h)
  BY <1>1, <1>9, Going, Calling, WorksOn DEF Ask, Working
<1>10. CASE Lost(h) \/ SafetyStop(h)
  BY <1>1, <1>10, Going, WorksOn DEF Lost, SafetyStop, Working
<1>11. CASE Reply(h)
  <2>1. CASE Locked(h)
    BY <1>1, <1>11, <2>1, Going, WorksOn DEF Reply, Locked, Working
  <2>2. CASE Failover(h, "ask")
    BY <1>1, <1>11, <2>2, FailingOver, WorksOn DEF Reply, Failover, Working
  <2>3. CASE GiveUp(h)
    BY <1>1, <1>11, <2>3, GivesUp DEF Reply, Working
  <2>4. QED
    BY <1>11, <2>1, <2>2, <2>3 DEF Reply
<1>12. CASE LostInLoop(h)
  BY <1>1, <1>12, Going, WorksOn DEF LostInLoop, EndIfOwned, Working
<1>13. CASE ToolLimit(h)
  <2>1. turn[h].rounds + 1 \in 0 .. MaxRounds + 1
    BY <1>1, SizeAssumption DEF TypeOK, Turn
  <2>2. turn'[h].pc \in {"final", "reconcile"}
    <3>1. CASE Append(h, turn[h].rounds + 1, "final", FALSE)
      BY <1>1, <2>1, <3>1, Appending DEF Working
    <3>2. CASE turn' = [turn EXCEPT ![h].pc = "final", ![h].billable = FALSE]
      <4>1. turn[h] \in Turn
        BY <1>1 DEF TypeOK
      <4>2. [turn[h] EXCEPT !.pc = "final", !.billable = FALSE].pc = "final"
        BY <4>1 DEF Turn
      <4>3. QED
        BY <1>1, <3>2, <4>2 DEF TypeOK
    <3>3. QED
      BY <1>13, <3>1, <3>2 DEF ToolLimit
  <2>3. QED
    BY <1>1, <1>13, <2>2, WorksOn DEF ToolLimit, Append, Working
<1>14. CASE ExecuteTools(h)
  <2>1. turn'[h].pc = "append"
    BY <1>1, <1>14 DEF ExecuteTools, TypeOK, Turn
  <2>2. QED
    BY <1>1, <1>14, <2>1, WorksOn DEF ExecuteTools, Working
<1>15. CASE AppendRound(h)
  <2>1. turn[h].rounds \in 0 .. MaxRounds + 1 /\ "reask" \in Working
    BY <1>1, SizeAssumption DEF TypeOK, Turn, Working
  <2>2. turn'[h].pc \in {"reask", "reconcile"}
    BY <1>1, <1>15, <2>1, Appending DEF AppendRound
  <2>3. QED
    BY <1>1, <1>15, <2>2, WorksOn DEF AppendRound, Append, Working
<1>16. CASE AskAgain(h)
  BY <1>1, <1>16, Calling, WorksOn DEF AskAgain, Working
<1>17. CASE ReplyAgain(h)
  <2>1. CASE Failover(h, "reask")
    BY <1>1, <1>17, <2>1, FailingOver, WorksOn
       DEF ReplyAgain, Failover, Working
  <2>2. CASE GiveUp(h)
    BY <1>1, <1>17, <2>2, GivesUp DEF ReplyAgain, Working
  <2>3. CASE /\ \E pc \in {"final", "loop", "reconcile"} : Goes(h, pc)
             /\ UNCHANGED event
    BY <1>1, <1>17, <2>3, Going, WorksOn DEF ReplyAgain, Working
  <2>4. QED
    BY <1>17, <2>1, <2>2, <2>3 DEF ReplyAgain
<1>18. CASE Complete(h)
  <2>1. CASE Owned(h)
    <3>1. PICK s \in Good : event' = Ended(h, s)
      BY <1>18, <2>1 DEF Complete, Good
    <3>2. turn'[h].pc = "COMPLETED" /\ s \in Terminal
      BY <1>1, <1>18, <2>1, Answered DEF Complete, Told, Good, Terminal
    <3>3. QED
      BY <1>1, <1>18, <2>1, <3>1, <3>2, Fates
         DEF Complete, Owned, Leads, Fate, Same, Working
  <2>2. CASE ~ Owned(h)
    BY <1>1, <1>18, <2>2, Going, WorksOn DEF Complete, Working
  <2>3. QED
    BY <2>1, <2>2
<1>19. QED
  BY <1>2, <1>3, <1>4, <1>5, <1>6, <1>7, <1>8, <1>9, <1>10, <1>11, <1>12,
     <1>13, <1>14, <1>15, <1>16, <1>17, <1>18 DEF Serve

\* A step of one handler, given what it may do to the events.
LEMMA TurnStep ==
  ASSUME TypeInv, TurnInv, NEW h \in Handlers, turn[h].req \in Requests,
         turn'[h].pc # "idle" => turn'[h].req = turn[h].req,
         \A g \in Handlers \ {h} : turn'[g] = turn[g],
         Leads(h), \A r \in Requests : Fate(h, r)
  PROVE  TurnInv'
<1>1. ASSUME NEW g \in Handlers \ {h}, turn[g].pc \in Working
      PROVE  /\ event'[turn[g].req].status = "INTERRUPTED"
                \/ Same(turn[g].req)
             /\ event[turn[g].req].status # "NONE"
  <2>1. turn[g].req \in Requests
    BY <1>1 DEF TypeInv, HasRequest, Working
  <2>2. event[turn[g].req].status # "NONE"
    BY <1>1 DEF TurnInv, WorkersEvent
  <2>3. turn[h].pc \in Working => turn[g].req # turn[h].req
    BY <1>1 DEF TurnInv, OneWorker
  <2>4. QED
    BY <2>1, <2>2, <2>3 DEF Fate
<1>2. OneWorker'
  <2>1. \A g \in Handlers \ {h} :
          turn[g].pc \in Working /\ turn'[h].pc \in Working
            => turn[g].req # turn[h].req
    BY <1>1 DEF Leads, TurnInv, OneWorker
  <2>2. turn'[h].pc \in Working => turn'[h].req = turn[h].req
    BY DEF Working
  <2>3. QED
    BY <2>1, <2>2 DEF TurnInv, OneWorker
<1>3. WorkersEvent'
  <2> SUFFICES ASSUME NEW g \in Handlers, turn'[g].pc \in Working
               PROVE  LET e == event'[turn'[g].req] IN
                        \/ e.status = "PENDING" /\ e.owner = g
                        \/ e.status = "INTERRUPTED"
    BY DEF WorkersEvent
  <2>1. CASE g = h
    <3>1. turn'[h].req = turn[h].req
      BY <2>1 DEF Working
    <3>2. CASE turn[h].pc \in Working
      BY <2>1, <3>1, <3>2 DEF TurnInv, WorkersEvent, Fate, Same, Working
    <3>3. CASE turn[h].pc \notin Working
      BY <2>1, <3>1, <3>3 DEF Leads, Fate, Same
    <3>4. QED
      BY <3>2, <3>3
  <2>2. CASE g # h
    BY <2>2, <1>1 DEF TurnInv, WorkersEvent, Same
  <2>3. QED
    BY <2>1, <2>2
<1>4. ToldTheTruth'
  <2> SUFFICES ASSUME NEW g \in Handlers
               PROVE  LET s == event'[turn'[g].req].status IN
                        /\ turn'[g].pc = "COMPLETED" => s \in Good
                        /\ turn'[g].pc \in {"FAILED", "INTERRUPTED"} => s \in Bad
    BY DEF ToldTheTruth, Good, Bad
  <2>1. CASE g = h
    BY <2>1 DEF Leads
  <2>2. CASE g # h /\ turn[g].pc \in Told
    <3>1. turn[g].req \in Requests
      BY <2>2 DEF TypeInv, HasRequest, Told
    <3>2. event[turn[g].req].status \in Good \cup Bad
      BY <2>2 DEF TurnInv, ToldTheTruth, Told, Good, Bad
    <3>3. Same(turn[g].req)
      BY <3>1, <3>2 DEF Fate, Good, Bad
    <3>4. QED
      BY <2>2, <3>3 DEF TurnInv, ToldTheTruth, Same, Good, Bad
  <2>3. CASE g # h /\ turn[g].pc \notin Told
    BY <2>3 DEF Told
  <2>4. QED
    BY <2>1, <2>2, <2>3
<1>5. QED
  BY <1>2, <1>3, <1>4 DEF TurnInv

\* A step beside the handlers: what it takes away is interrupted.
LEMMA OutsideStep ==
  ASSUME TypeInv, TurnInv,
         \A h \in Handlers : \/ /\ turn'[h].pc = turn[h].pc
                               /\ turn'[h].req = turn[h].req
                            \/ turn'[h].pc \in {"idle", "begin"},
         \A r \in Requests :
           \/ Same(r)
           \/ event[r].status = "PENDING" /\ event'[r].status = "INTERRUPTED"
  PROVE  TurnInv'
<1>1. OneWorker'
  BY DEF TurnInv, OneWorker, Working
<1>2. WorkersEvent'
  BY DEF TurnInv, WorkersEvent, Working, Same, TypeInv, HasRequest
<1>3. ToldTheTruth'
  <2> SUFFICES ASSUME NEW h \in Handlers, turn'[h].pc \in Told
               PROVE  LET s == event'[turn'[h].req].status IN
                        /\ turn'[h].pc = "COMPLETED" => s \in Good
                        /\ turn'[h].pc \in {"FAILED", "INTERRUPTED"} => s \in Bad
    BY DEF ToldTheTruth, Good, Bad, Told
  <2>1. turn'[h].pc = turn[h].pc /\ turn'[h].req = turn[h].req
    BY DEF Told
  <2>2. turn[h].req \in Requests
    BY <2>1 DEF TypeInv, HasRequest, Told
  <2>3. Same(turn[h].req)
    BY <2>1, <2>2 DEF TurnInv, ToldTheTruth, Told
  <2>4. QED
    BY <2>1, <2>3 DEF TurnInv, ToldTheTruth, Good, Bad, Same
<1>4. QED
  BY <1>1, <1>2, <1>3 DEF TurnInv

LEMMA TurnInvariant == Spec => []TurnInv
<1>1. Init => TurnInv
  BY DEF Init, NoTurn, TurnInv, OneWorker, WorkersEvent, ToldTheTruth, Working
<1>2. TypeInv /\ TurnInv /\ [Next]_vars => TurnInv'
  <2> SUFFICES ASSUME TypeInv, TurnInv, [Next]_vars PROVE TurnInv'
    OBVIOUS
  <2>1. ASSUME NEW h \in Handlers, Serve(h) PROVE TurnInv'
    <3>1. Leads(h) /\ \A r \in Requests : Fate(h, r)
      BY <2>1, ServeFates DEF TurnInv
    <3>2. QED
      BY <2>1, <3>1, ServeMoves, TurnStep DEF Moves
  <2>2. ASSUME NEW h \in Handlers, NEW r \in Requests, Open(h, r)
        PROVE  TurnInv'
    <3> DEFINE t == [NoTurn EXCEPT !.pc = "begin", !.req = r]
    <3>1. t.pc = "begin"
      BY DEF NoTurn
    <3>2. turn' = [turn EXCEPT ![h] = t] /\ UNCHANGED event
      BY <2>2 DEF Open
    <3> HIDE DEF t
    <3>3. QED
      BY <3>1, <3>2, OutsideStep DEF TypeInv, TypeOK, Same
  <2>3. ASSUME NEW h \in Handlers, Beat(h) PROVE TurnInv'
    <3>1. \A g \in Handlers : turn'[g].pc = turn[g].pc /\ turn'[g].req = turn[g].req
      BY <2>3 DEF Beat, TypeInv, TypeOK, Turn
    <3>2. \A r \in Requests : Same(r)
      BY <2>3 DEF Beat, Extended, TypeInv, TypeOK, Event, Same
    <3>3. QED
      BY <3>1, <3>2, OutsideStep
  <2>4. ASSUME NEW h \in Handlers, Crash(h) PROVE TurnInv'
    BY <2>4, OutsideStep DEF Crash, NoTurn, Same, TypeInv, TypeOK
  <2>5. ASSUME NEW r \in Requests, Lapse(r) \/ Expire(r) PROVE TurnInv'
    BY <2>5, OutsideStep
       DEF Lapse, Expire, Abandoned, Closed, Same, TypeInv, TypeOK, Event
  <2>6. CASE NewMonth \/ DeleteCheck \/ DeleteCommit \/ UNCHANGED vars
    BY <2>6, OutsideStep DEF NewMonth, DeleteCheck, DeleteCommit, vars, Same
  <2>7. QED
    BY <2>1, <2>2, <2>3, <2>4, <2>5, <2>6 DEF Next
<1>3. QED
  BY <1>1, <1>2, TypeInvariant, PTL DEF Spec

\* No request id is worked on by two handlers.
THEOREM WorkerTheorem == Spec => []OneWorker
BY TurnInvariant, PTL DEF TurnInv

\* What a client was told of a turn is what the ledger says of it.
THEOREM ToldTheTruthTheorem == Spec => []ToldTheTruth
BY TurnInvariant, PTL DEF TurnInv

-----------------------------------------------------------------------------
(* The rows of the chat.                                                     *)

KeepsGood ==
    \A r \in Requests : event'[r].status \in Good <=> event[r].status \in Good

\* How a step may write into the conversation.
Writes ==
    \/ messages' = messages /\ KeepsGood
    \/ \E m \in Message :
         /\ messages' = messages \cup {m} /\ m.role # "ASSISTANT" /\ KeepsGood
         /\ m.role # "USER" => event[m.tag].status = "PENDING"
    \/ \E m \in Message :
         /\ messages' = messages \cup {m} /\ m.role = "ASSISTANT"
         /\ event[m.tag].status = "PENDING" /\ event'[m.tag].status \in Good
         /\ \A r \in Requests \ {m.tag} : event'[r] = event[r]

\* The ends that are no answers.
LEMMA KeepingGood ==
  ASSUME TypeOK, NEW h \in Handlers, turn[h].req \in Requests,
         \/ UNCHANGED event
         \/ event' = Extended(h)
         \/ EndIfOwned(h, "FAILED") \/ EndIfOwned(h, "INTERRUPTED")
  PROVE  KeepsGood
<1>1. CASE UNCHANGED event \/ event' = Extended(h)
  BY <1>1, Fates DEF KeepsGood
<1>2. ASSUME NEW s \in Bad, EndIfOwned(h, s) PROVE KeepsGood
  BY <1>2, Fates DEF EndIfOwned, Owned, KeepsGood, Good, Bad, Terminal
<1>3. QED
  BY <1>1, <1>2 DEF Bad

LEMMA AppendWrites ==
  ASSUME TypeOK, NEW h \in Handlers, turn[h].req \in Requests,
         NEW n \in 0 .. MaxRounds + 1, NEW pc, NEW billable,
         Append(h, n, pc, billable)
  PROVE  Writes
<1>1. CASE Owned(h)
  <2> DEFINE m == [role |-> "CALLS", tag |-> turn[h].req, round |-> n]
  <2>1. messages' = messages \cup {m} /\ event' = Extended(h)
    BY <1>1 DEF Append
  <2>2. m \in Message /\ m.role = "CALLS" /\ event[m.tag].status = "PENDING"
    BY <1>1 DEF Message, Owned
  <2> HIDE DEF m
  <2>3. QED
    BY <2>1, <2>2, KeepingGood DEF Writes
<1>2. CASE ~ Owned(h)
  BY <1>2, KeepingGood DEF Append, Writes
<1>3. QED
  BY <1>1, <1>2

LEMMA ServeWrites ==
  ASSUME TypeInv, NEW h \in Handlers, Serve(h)
  PROVE  Writes /\ session' = session
<1> USE DEF At, chat
<1>1. TypeOK /\ turn[h].req \in Requests
  BY ServeMoves DEF Moves, TypeInv
<1>2. session' = session
  BY DEF Serve, Begin, BeginAgain, Refuse, Own, UserTurn, UserTurnFails, Ask,
         Lost, Reply, Locked, Failover, GiveUp, LostInLoop, SafetyStop,
         ToolLimit, ExecuteTools, AppendRound, AskAgain, ReplyAgain, Complete,
         Reconcile
<1>3. CASE Begin(h)
  <2>1. \A r \in Requests : event'[r] = IF r = turn[h].req THEN Reserved(h)
                                         ELSE Expired(event)[r]
    BY <1>1, <1>3, Events DEF Begin
  <2>2. KeepsGood
    BY <1>1, <1>3, <2>1, Fates DEF Begin, Reserved, KeepsGood, Good
  <2>3. QED
    BY <1>2, <1>3, <2>2 DEF Begin, Writes
<1>4. CASE BeginAgain(h)
  <2> DEFINE r == turn[h].req
             e == IF Abandoned(r) THEN Closed("INTERRUPTED") ELSE event[r]
  <2>1. event' = [event EXCEPT ![r] = e] /\ UNCHANGED messages
    BY <1>4 DEF BeginAgain
  <2>2. \/ e = event[r]
        \/ event[r].status = "PENDING" /\ e.status = "INTERRUPTED"
    BY DEF Abandoned, Closed
  <2> HIDE DEF e
  <2>3. KeepsGood
    BY <1>1, <2>1, <2>2 DEF TypeOK, KeepsGood, Good
  <2>4. QED
    BY <1>2, <2>1, <2>3 DEF Writes
<1>5. CASE Refuse(h) \/ Ask(h) \/ Lost(h) \/ SafetyStop(h) \/ ExecuteTools(h)
        \/ AskAgain(h) \/ Reconcile(h)
  BY <1>1, <1>2, <1>5, KeepingGood
     DEF Writes, Refuse, Ask, Lost, SafetyStop, ExecuteTools, AskAgain, Reconcile
<1>6. CASE Own(h) \/ LostInLoop(h)
  BY <1>1, <1>2, <1>6, KeepingGood DEF Writes, Own, LostInLoop
<1>7. CASE UserTurn(h) \/ UserTurnFails(h)
  <2>1. messages' = messages \/ messages' = messages \cup {Question(h)}
    BY <1>7 DEF UserTurn, UserTurnFails, WritesQuestion
  <2>2. UNCHANGED event \/ EndIfOwned(h, "FAILED")
    BY <1>7 DEF UserTurn, UserTurnFails
  <2>3. QED
    BY <1>1, <1>2, <2>1, <2>2, Questions, KeepingGood DEF Writes
<1>8. CASE Reply(h) \/ ReplyAgain(h)
  <2>1. UNCHANGED messages
    BY <1>8 DEF Reply, ReplyAgain, Locked, Failover, GiveUp
  <2>2. \/ UNCHANGED event \/ event' = Extended(h)
        \/ EndIfOwned(h, "FAILED") \/ EndIfOwned(h, "INTERRUPTED")
    BY <1>8 DEF Reply, ReplyAgain, Locked, Failover, GiveUp
  <2>3. QED
    BY <1>1, <1>2, <2>1, <2>2, KeepingGood DEF Writes
<1>9. CASE ToolLimit(h)
  <2>1. turn[h].rounds + 1 \in 0 .. MaxRounds + 1
    BY <1>1, SizeAssumption DEF TypeOK, Turn
  <2>2. QED
    BY <1>1, <1>2, <1>9, <2>1, AppendWrites, KeepingGood DEF ToolLimit, Writes
<1>10. CASE AppendRound(h)
  <2>1. turn[h].rounds \in 0 .. MaxRounds + 1
    BY <1>1, SizeAssumption DEF TypeOK, Turn
  <2>2. QED
    BY <1>1, <1>2, <1>10, <2>1, AppendWrites DEF AppendRound
<1>11. CASE Complete(h)
  <2>1. CASE Owned(h)
    <3> DEFINE m == [role |-> "ASSISTANT", tag |-> turn[h].req, round |-> 0]
    <3>1. PICK s \in Good : event' = Ended(h, s)
      BY <1>11, <2>1 DEF Complete, Good
    <3>2. /\ m \in Message /\ m.role = "ASSISTANT" /\ m.tag = turn[h].req
          /\ messages' = messages \cup {m}
      BY <1>1, <1>11, <2>1, SizeAssumption DEF Complete, Message
    <3> HIDE DEF m
    <3>3. QED
      BY <1>1, <1>2, <2>1, <3>1, <3>2, Fates DEF Writes, Owned, Good, Terminal
  <2>2. CASE ~ Owned(h)
    BY <1>1, <1>2, <1>11, <2>2, KeepingGood DEF Complete, Writes
  <2>3. QED
    BY <2>1, <2>2
<1>12. QED
  BY <1>3, <1>4, <1>5, <1>6, <1>7, <1>8, <1>9, <1>10, <1>11 DEF Serve

\* Every step writes like that, but for the one that empties the conversation.
LEMMA StepWrites ==
  ASSUME TypeInv, [Next]_vars
  PROVE  (Writes /\ session' = session) \/ DeleteCommit
<1> USE DEF chat
<1>1. ASSUME NEW h \in Handlers, Serve(h) PROVE Writes /\ session' = session
  BY <1>1, ServeWrites
<1>2. ASSUME NEW h \in Handlers, Beat(h) PROVE Writes /\ session' = session
  <2>1. KeepsGood
    BY <1>2 DEF Beat, Extended, TypeInv, TypeOK, Event, KeepsGood
  <2>2. QED
    BY <1>2, <2>1 DEF Beat, Writes
<1>3. ASSUME NEW r \in Requests, Lapse(r) \/ Expire(r)
      PROVE  Writes /\ session' = session
  <2>1. CASE Lapse(r)
    BY <1>3, <2>1 DEF Lapse, TypeInv, TypeOK, Event, KeepsGood, Writes
  <2>2. CASE Expire(r)
    <3>1. event' = [event EXCEPT ![r] = Closed("INTERRUPTED")]
      BY <2>2 DEF Expire
    <3>2. event[r].status = "PENDING"
      BY <2>2 DEF Expire, Abandoned
    <3>3. Closed("INTERRUPTED").status = "INTERRUPTED"
      BY DEF Closed
    <3>4. KeepsGood
      BY <3>1, <3>2, <3>3 DEF TypeInv, TypeOK, KeepsGood, Good
    <3>5. QED
      BY <2>2, <3>4 DEF Expire, Writes
  <2>3. QED
    BY <1>3, <2>1, <2>2
<1>4. CASE UNCHANGED <<event, messages, session>>
  BY <1>4 DEF Writes, KeepsGood
<1>5. QED
  BY <1>1, <1>2, <1>3, <1>4
     DEF Next, Open, Crash, NewMonth, DeleteCheck, vars

\* An answer is in the chat exactly when its reservation ended well.
THEOREM AnsweredTheorem == Spec => []AnsweredIffDone
<1>1. Init => AnsweredIffDone
  BY DEF Init, AnsweredIffDone, NoEvent
<1>2. TypeInv /\ AnsweredIffDone /\ [Next]_vars => AnsweredIffDone'
  <2> SUFFICES ASSUME TypeInv, AnsweredIffDone, [Next]_vars
               PROVE  AnsweredIffDone'
    OBVIOUS
  <2>1. CASE DeleteCommit
    BY <2>1 DEF DeleteCommit, AnsweredIffDone
  <2>2. CASE Writes /\ session' = session
    <3>1. CASE messages' = messages /\ KeepsGood
      BY <2>2, <3>1 DEF AnsweredIffDone, KeepsGood, Good
    <3>2. ASSUME NEW m \in Message, messages' = messages \cup {m},
                 m.role # "ASSISTANT", KeepsGood
          PROVE  AnsweredIffDone'
      BY <2>2, <3>2 DEF AnsweredIffDone, KeepsGood, Good
    <3>3. ASSUME NEW m \in Message, messages' = messages \cup {m},
                 m.role = "ASSISTANT", event'[m.tag].status \in Good,
                 \A r \in Requests \ {m.tag} : event'[r] = event[r]
          PROVE  AnsweredIffDone'
      BY <2>2, <3>3 DEF AnsweredIffDone, Good
    <3>4. QED
      BY <2>2, <3>1, <3>2, <3>3 DEF Writes
  <2>3. QED
    BY <2>1, <2>2, StepWrites
<1>3. QED
  BY <1>1, <1>2, TypeInvariant, PTL DEF Spec

\* Rounds and answers are written only under a reservation that is held.
THEOREM FencedTheorem == Spec => FencedWrites
<1>1. TypeInv /\ [Next]_vars
        => [\A m \in messages' \ messages :
              m.role # "USER" => event[m.tag].status = "PENDING"]_vars
  BY StepWrites DEF Writes, DeleteCommit
<1>2. QED
  BY <1>1, TypeInvariant, PTL DEF Spec, FencedWrites

-----------------------------------------------------------------------------
(* The ledger implements the account.                                        *)

Stage(r) ==
    LET s == event[r].status IN
      CASE s = "NONE"                         -> "NEW"
        [] s = "PENDING" /\ ThisMonth(r)      -> "HELD"
        [] s = "SUCCEEDED" /\ ThisMonth(r)    -> "CHARGED"
        [] OTHER                              -> "GONE"
Stages == [r \in Requests |-> Stage(r)]

MonthInv == \A r \in Requests : month.of[r] <= month.now

\* How a step may change the ledger: one new reservation, made by Begin, or
\* none; then whatever was reserved stays so or ends.
Ledger(r) ==
    \/ event'[r].status = event[r].status
    \/ event[r].status = "PENDING" /\ event'[r].status \in Terminal

LEMMA OldEvents ==
  ASSUME TypeInv, TurnInv, [Next]_vars
  PROVE  \/ \E h \in Handlers : Begin(h)
         \/ /\ \A r \in Requests : Ledger(r)
            /\ \/ UNCHANGED month
               \/ month' = [month EXCEPT !.now = month.now + 1]
<1> USE DEF chat
<1>1. ASSUME NEW h \in Handlers, Serve(h), ~ Begin(h)
      PROVE  UNCHANGED month /\ \A r \in Requests : Ledger(r)
  <2>1. UNCHANGED month
    BY <1>1 DEF Serve, BeginAgain, Refuse, Own, UserTurn, UserTurnFails, Ask,
         Lost, Reply, Locked, Failover, GiveUp, LostInLoop, SafetyStop,
         ToolLimit, ExecuteTools, AppendRound, AskAgain, ReplyAgain, Complete,
         Reconcile
  <2>2. ~ (turn[h].pc = "begin" /\ event[turn[h].req].status = "NONE"
             /\ event'[turn[h].req].status = "PENDING")
    BY <1>1 DEF At, Serve, BeginAgain, Refuse, Own, UserTurn, UserTurnFails,
         Ask, Lost, Reply, LostInLoop, SafetyStop, ToolLimit, ExecuteTools,
         AppendRound, AskAgain, ReplyAgain, Complete, Reconcile
  <2>3. \A r \in Requests : Fate(h, r)
    BY <1>1, ServeFates DEF TurnInv
  <2>4. QED
    BY <2>1, <2>2, <2>3 DEF Fate, Same, Ledger, Terminal
<1>2. ASSUME NEW h \in Handlers, Beat(h)
      PROVE  UNCHANGED month /\ \A r \in Requests : Ledger(r)
  BY <1>2 DEF Beat, Extended, TypeInv, TypeOK, Event, Ledger
<1>3. ASSUME NEW r \in Requests, Lapse(r)
      PROVE  UNCHANGED month /\ \A q \in Requests : Ledger(q)
  BY <1>3 DEF Lapse, TypeInv, TypeOK, Event, Ledger
<1>4. ASSUME NEW r \in Requests, Expire(r)
      PROVE  UNCHANGED month /\ \A q \in Requests : Ledger(q)
  <2>1. /\ event' = [event EXCEPT ![r] = Closed("INTERRUPTED")]
        /\ event[r].status = "PENDING" /\ UNCHANGED month
    BY <1>4 DEF Expire, Abandoned
  <2>2. Closed("INTERRUPTED").status \in Terminal
    BY DEF Closed, Terminal
  <2>3. QED
    BY <2>1, <2>2 DEF TypeInv, TypeOK, Ledger
<1>5. QED
  BY <1>1, <1>2, <1>3, <1>4
     DEF Next, Open, Crash, NewMonth, DeleteCheck, DeleteCommit, vars, Ledger

\* The stages of one event, now and after a step.
LEMMA StageValues ==
  ASSUME NEW r \in Requests
  PROVE  /\ Stage(r) \in {"NEW", "HELD", "CHARGED", "GONE"}
         /\ event[r].status = "NONE" <=> Stage(r) = "NEW"
         /\ event[r].status = "PENDING" /\ ThisMonth(r) <=> Stage(r) = "HELD"
         /\ event[r].status = "SUCCEEDED" /\ ThisMonth(r)
              <=> Stage(r) = "CHARGED"
BY DEF Stage

LEMMA NextStageValues ==
  ASSUME NEW r \in Requests
  PROVE  /\ Stage(r)' \in {"NEW", "HELD", "CHARGED", "GONE"}
         /\ event'[r].status = "NONE" <=> Stage(r)' = "NEW"
         /\ event'[r].status = "PENDING" /\ ThisMonth(r)'
              <=> Stage(r)' = "HELD"
         /\ event'[r].status = "SUCCEEDED" /\ ThisMonth(r)'
              <=> Stage(r)' = "CHARGED"
BY DEF Stage

LEMMA OldMonths ==
  ASSUME TypeInv, TypeInv', MonthInv,
         \A r \in Requests : Ledger(r),
         \/ UNCHANGED month
         \/ month' = [month EXCEPT !.now = month.now + 1]
  PROVE  /\ MonthInv'
         /\ \A r \in Requests :
              \/ Stage(r)' = Stage(r)
              \/ Stage(r)' \in Account!Onward[Stage(r)] \ {"HELD"}
<1>1. /\ month'.of = month.of
      /\ \/ month'.now = month.now
         \/ month'.now = month.now + 1 /\ month.now \in Nat
    BY DEF TypeInv, TypeOK
<1>2. \A r \in Requests : month.of[r] \in Nat /\ month.now \in Nat
  BY SizeAssumption DEF TypeInv, TypeOK
<1>3. MonthInv'
  BY <1>1, <1>2 DEF MonthInv
<1>4. ASSUME NEW r \in Requests
      PROVE  \/ Stage(r)' = Stage(r)
             \/ Stage(r)' \in Account!Onward[Stage(r)] \ {"HELD"}
  <2>1. CASE month'.now = month.now
    BY <1>1, <2>1 DEF Ledger, Terminal, Stage, ThisMonth, Account!Onward
  <2>2. CASE month'.now = month.now + 1
    <3>1. month'.of[r] # month'.now
      BY <1>1, <1>2, <2>2 DEF MonthInv
    <3>2. QED
      BY <3>1 DEF Ledger, Terminal, Stage, ThisMonth, Account!Onward
  <2>3. QED
    BY <1>1, <2>1, <2>2
<1>5. QED
  BY <1>3, <1>4

\* A new reservation finds room beside those that are not abandoned, and the
\* abandoned ones end in the same step.
Counted == {r \in Requests : Stages[r] \in {"HELD", "CHARGED"}}

LEMMA NewEvent ==
  ASSUME TypeInv, TypeInv', MonthInv, IsFiniteSet(Requests),
         NEW h \in Handlers, Begin(h)
  PROVE  /\ MonthInv'
         /\ \A r \in Requests : \/ Stage(r)' = Stage(r)
                                \/ Stage(r)' \in Account!Onward[Stage(r)]
         /\ Cardinality(Counted') <= Limit
<1> DEFINE T == TowardLimit(Expired(event))
<1>1. PICK new \in Requests : turn[h].req = new /\ event[new].status = "NONE"
  BY DEF Begin, At, TypeInv, HasRequest
<1>2. \A r \in Requests :
        /\ event'[r] = IF r = new THEN Reserved(h) ELSE Expired(event)[r]
        /\ month'.of[r] = IF r = new THEN month.now ELSE month.of[r]
        /\ month'.now = month.now
  <2>1. /\ event' = [Expired(event) EXCEPT ![new] = Reserved(h)]
        /\ month' = [month EXCEPT !.of[new] = month.now]
    BY <1>1 DEF Begin
  <2>2. Expired(event) \in [Requests -> Event]
    BY <1>1, Events DEF TypeInv
  <2>3. month \in [now : 0 .. Months, of : [Requests -> 0 .. Months]]
    BY DEF TypeInv, TypeOK
  <2> DEFINE of == [month.of EXCEPT ![new] = month.now]
  <2>4. month' = [month EXCEPT !.of = of]
    BY <2>1
  <2> HIDE DEF of
  <2>5. month'.of = of /\ month'.now = month.now
    BY <2>3, <2>4
  <2>6. \A r \in Requests : of[r] = IF r = new THEN month.now ELSE month.of[r]
    BY <1>1, <2>3 DEF of
  <2>7. QED
    BY <1>1, <2>1, <2>2, <2>5, <2>6
<1>3. \A r \in Requests :
        /\ \/ Expired(event)[r] = event[r]
           \/ /\ event[r].status = "PENDING"
              /\ Expired(event)[r].status = "INTERRUPTED"
        /\ Expired(event)[r].status = "PENDING"
             => Expired(event)[r].lease # "lapsed"
  BY DEF Expired, Closed
<1>4. MonthInv'
  <2>1. month.now \in Nat
    BY SizeAssumption DEF TypeInv, TypeOK
  <2>2. QED
    BY <1>2, <2>1 DEF MonthInv
<1>5. Stage(new)' = "HELD" /\ Stage(new) = "NEW"
  <2>1. event'[new].status = "PENDING"
    BY <1>1, <1>2 DEF Reserved
  <2>2. (month.of[new])' = month'.now
    BY <1>1, <1>2
  <2>3. ThisMonth(new)'
    BY <2>2 DEF ThisMonth
  <2>4. QED
    BY <1>1, <2>1, <2>3, StageValues, NextStageValues
<1>6. ASSUME NEW r \in Requests \ {new}
      PROVE  \/ Stage(r)' = Stage(r)
             \/ Stage(r)' \in Account!Onward[Stage(r)]
  BY <1>2, <1>3, <1>6 DEF Stage, ThisMonth, Account!Onward
<1>7. Counted' \subseteq T \cup {new}
  <2> SUFFICES ASSUME NEW r \in Requests \ {new},
                      Stage(r)' \in {"HELD", "CHARGED"}
               PROVE  r \in T
    BY DEF Counted, Stages
  <2>1. /\ Expired(event)[r].status \in {"PENDING", "SUCCEEDED"}
        /\ ThisMonth(r)
    BY <1>2 DEF Stage, ThisMonth
  <2>2. QED
    BY <1>3, <2>1 DEF TowardLimit
<1>8. T \subseteq Requests /\ Cardinality(T) < Limit
  BY DEF TowardLimit, Begin
<1> HIDE DEF T
<1>9. Cardinality(T \cup {new}) <= Limit /\ IsFiniteSet(T \cup {new})
  <2>1. IsFiniteSet(T)
    BY <1>8, FS_Subset
  <2>2. Cardinality(T) \in Nat
    BY <2>1, FS_CardinalityType
  <2>3. /\ IsFiniteSet(T \cup {new})
        /\ Cardinality(T \cup {new}) \in {Cardinality(T), Cardinality(T) + 1}
    BY <2>1, FS_AddElement
  <2>4. QED
    BY <1>8, <2>2, <2>3, SizeAssumption
<1>10. Cardinality(Counted') <= Limit
  <2>1. /\ IsFiniteSet(Counted')
        /\ Cardinality(Counted') <= Cardinality(T \cup {new})
    BY <1>7, <1>9, FS_Subset
  <2>2. Cardinality(Counted') \in Nat /\ Cardinality(T \cup {new}) \in Nat
    BY <1>9, <2>1, FS_CardinalityType
  <2>3. QED
    BY <1>9, <2>1, <2>2, SizeAssumption
<1>11. QED
  <2>1. \A r \in Requests : \/ Stage(r)' = Stage(r)
                            \/ Stage(r)' \in Account!Onward[Stage(r)]
    <3>1. "HELD" \in Account!Onward["NEW"]
      BY DEF Account!Onward
    <3>2. Stage(new)' \in Account!Onward[Stage(new)]
      BY <1>5, <3>1
    <3>3. QED
      BY <1>6, <3>2
  <2>2. QED
    BY <1>4, <1>10, <2>1

\* Every step of the model is one of the account, or leaves it alone.
LEMMA AccountStep ==
  ASSUME TypeInv, TypeInv', TurnInv, MonthInv, IsFiniteSet(Requests),
         [Next]_vars
  PROVE  /\ MonthInv'
         /\ Stages' \in [Requests -> Account!Phases]
         /\ \A r \in Requests :
              \/ Stages'[r] = Stages[r]
              \/ Stages'[r] \in Account!Onward[Stages[r]]
         /\ \/ Cardinality(Counted') <= Limit
            \/ \A r \in Requests : Stages'[r] = "HELD" => Stages[r] = "HELD"
<1>1. \A r \in Requests : Stages[r] = Stage(r) /\ Stages'[r] = Stage(r)'
  BY DEF Stages
<1>2. Stages' \in [Requests -> Account!Phases]
  BY DEF Stages, Stage, Account!Phases
<1>3. CASE \E h \in Handlers : Begin(h)
  BY <1>1, <1>2, <1>3, NewEvent
<1>4. CASE /\ \A r \in Requests : Ledger(r)
           /\ \/ UNCHANGED month
              \/ month' = [month EXCEPT !.now = month.now + 1]
  BY <1>1, <1>2, <1>4, OldMonths
<1>5. QED
  BY <1>3, <1>4, OldEvents

LEMMA MonthInvariant == IsFiniteSet(Requests) /\ Spec => []MonthInv
<1> SUFFICES ASSUME IsFiniteSet(Requests) PROVE Spec => []MonthInv
  OBVIOUS
<1>1. Init => MonthInv
  BY DEF Init, MonthInv
<1>2. TypeInv /\ TypeInv' /\ TurnInv /\ MonthInv /\ [Next]_vars => MonthInv'
  BY AccountStep
<1>3. QED
  BY <1>1, <1>2, TypeInvariant, TurnInvariant, PTL DEF Spec

\* The ledger implements QuotaAccount for the tasks of the current month,
\* whatever leases run out and however often messages are sent.
THEOREM AccountRefinement == IsFiniteSet(Requests) => (Spec => KeepsAccount)
<1> SUFFICES ASSUME IsFiniteSet(Requests) PROVE Spec => KeepsAccount
  OBVIOUS
<1>1. Init => Account!Init
  BY DEF Init, NoEvent, Account!Init
<1>2. TypeInv /\ TypeInv' /\ TurnInv /\ MonthInv /\ [Next]_vars
        => [Account!Next]_Stages
  <2> SUFFICES ASSUME TypeInv, TypeInv', TurnInv, MonthInv, [Next]_vars
               PROVE  Account!Next
    OBVIOUS
  <2> QED
    BY AccountStep DEF Account!Next, Account!On, Counted, Stages, Stage
<1>3. QED
  BY <1>1, <1>2, TypeInvariant, TurnInvariant, MonthInvariant, PTL
     DEF Spec, KeepsAccount, Account!Spec, Stages, Stage

\* What is reserved and charged in a month never exceeds the plan.
THEOREM AllowanceTheorem == IsFiniteSet(Requests) => (Spec => []WithinAllowance)
<1> SUFFICES ASSUME IsFiniteSet(Requests) PROVE Spec => []WithinAllowance
  OBVIOUS
<1> DEFINE Within == Cardinality(Counted) <= Limit
<1>1. Init => Within
  <2>1. Init => Counted = {}
    BY DEF Init, NoEvent, Counted, Stages, Stage
  <2>2. QED
    BY <2>1, FS_EmptySet, SizeAssumption
<1>2. TypeInv /\ TypeInv' /\ TurnInv /\ MonthInv /\ Within /\ [Next]_vars
        => Within'
  <2> SUFFICES ASSUME TypeInv, TypeInv', TurnInv, MonthInv, Within,
                      [Next]_vars
               PROVE  Within'
    OBVIOUS
  <2> SUFFICES ASSUME ~ Within' PROVE FALSE
    OBVIOUS
  <2>1. \A r \in Requests : /\ \/ Stages'[r] = Stages[r]
                               \/ Stages'[r] \in Account!Onward[Stages[r]]
                            /\ Stages'[r] = "HELD" => Stages[r] = "HELD"
                            /\ Stages[r] \in {"NEW", "HELD", "CHARGED", "GONE"}
    BY AccountStep, StageValues DEF Stages
  <2>2. Counted' \subseteq Counted /\ Counted \subseteq Requests
    BY <2>1 DEF Counted, Account!Onward
  <2>3. IsFiniteSet(Counted)
    BY <2>2, FS_Subset
  <2>4. Cardinality(Counted') <= Cardinality(Counted)
    BY <2>2, <2>3, FS_Subset
  <2>5. Cardinality(Counted') \in Nat /\ Cardinality(Counted) \in Nat
    BY <2>2, <2>3, FS_Subset, FS_CardinalityType
  <2>6. QED
    BY <2>4, <2>5, SizeAssumption
<1>3. Within <=> WithinAllowance
  BY DEF WithinAllowance, Account!WithinLimit, Account!On, Counted, Stages, Stage
<1> HIDE DEF Within
<1>4. QED
  BY <1>1, <1>2, <1>3, TypeInvariant, TurnInvariant, MonthInvariant, PTL
     DEF Spec
=============================================================================
