--------------------------- MODULE SessionsProofs ---------------------------
(***************************************************************************)
(* The theorems of Sessions, for any sets of ids, tabs, browsers and reset *)
(* tokens.                                                                 *)
(***************************************************************************)
EXTENDS Sessions, TLAPS

\* What an updateMany over unrevoked rows leaves.
LEMMA RevokedRows ==
  ASSUME TypeOK, NEW S
  PROVE  /\ Revoked(S) \in [Ids -> Row]
         /\ \A s \in Ids : /\ Revoked(S)[s].from = row[s].from
                          /\ Revoked(S)[s].state =
                               IF s \in S \cap Unrevoked THEN "revoked"
                                                       ELSE row[s].state
  BY DEF TypeOK, Row, Revoked

\* What a request looks like that a tab has just sent, for each kind.
LEMMA SentLogin ==
  ASSUME NEW x \in Task, NEW w \in Nat
  PROVE  LET r == [x EXCEPT !.pc = "issue", !.password = w] IN
           r \in Task /\ r.pc = "issue" /\ r.session = x.session
  BY DEF Task

LEMMA SentLogout ==
  ASSUME NEW x \in Task
  PROVE  LET r == [x EXCEPT !.pc = "clear"] IN
           r \in Task /\ r.pc = "clear"
  BY DEF Task

LEMMA SentForgot ==
  ASSUME NEW x \in Task, NEW S \in SUBSET Tokens
  PROVE  LET r == [x EXCEPT !.pc = "forgot", !.spent = S] IN
           r \in Task /\ r.pc = "forgot"
  BY DEF Task

LEMMA SentReset ==
  ASSUME NEW x \in Task, NEW k \in Tokens
  PROVE  LET r == [x EXCEPT !.pc = "reset", !.token = k] IN
           r \in Task /\ r.pc = "reset"
  BY DEF Task

LEMMA Idler ==
  ASSUME TypeOK
  PROVE  Idle \in Task /\ Idle.pc = "idle" /\ Idle.session = NoSession
  BY DEF TypeOK, Idle, Task

\* A step sends a request: what it is, and that its tab was idle.
LEMMA LoginSent ==
  ASSUME TypeOK, NEW t \in Tabs, Login(t)
  PROVE  \E r \in Task : /\ r.pc = "issue" /\ r.session = NoSession
                         /\ task' = [task EXCEPT ![t] = r]
  BY Idler, SentLogin DEF TypeOK, Login, Sends
LEMMA RefreshSent ==
  ASSUME TypeOK, NEW t \in Tabs, Refresh(t)
  PROVE  \E r \in Task : /\ r.pc = IF Jar(t) \in Live THEN "claim" ELSE "reuse"
                         /\ r.session = Jar(t)
                         /\ task' = [task EXCEPT ![t] = r]
<1> DEFINE s  == Jar(t)
           w  == row[Jar(t)].password
           pc == IF Jar(t) \in Live THEN "claim" ELSE "reuse"
           r  == [Idle EXCEPT !.pc = pc, !.session = s, !.password = w]
<1>1. s \in Ids /\ w \in Nat /\ pc \in {"claim", "reuse"}
  BY BrowserAssumption DEF TypeOK, Jar, Row, Refresh
<1>2. task' = [task EXCEPT ![t] = r]
  BY DEF Refresh, Sends
<1> HIDE DEF s, w, pc
<1>3. r \in Task /\ r.pc = pc /\ r.session = s
  BY <1>1, Idler DEF Task
<1> HIDE DEF r
<1>4. QED
  BY <1>2, <1>3 DEF pc, s
LEMMA LogoutSent ==
  ASSUME TypeOK, NEW t \in Tabs, Logout(t)
  PROVE  \E r \in Task : /\ r.pc = "clear"
                         /\ task' = [task EXCEPT ![t] = r]
  BY Idler, SentLogout DEF Logout, Sends
LEMMA ForgotSent ==
  ASSUME TypeOK, NEW t \in Tabs, Forgot(t)
  PROVE  \E r \in Task : /\ r.pc = "forgot"
                         /\ task' = [task EXCEPT ![t] = r]
  BY Idler, SentForgot DEF Forgot, Sends
LEMMA ResetSent ==
  ASSUME TypeOK, NEW t \in Tabs, NEW k \in Tokens, ReadToken(t, k)
  PROVE  \E r \in Task : /\ r.pc = "reset"
                         /\ task' = [task EXCEPT ![t] = r]
  BY Idler, SentReset DEF ReadToken, Sends

\* TypeOK is an invariant: the rows, tokens, cookies and requests are what
\* the code can write.
THEOREM TypeCorrect == Spec => []TypeOK
<1>1. Init => TypeOK
  BY NamesAssumption DEF Init, TypeOK, Row, Task, NoRow, Idle
<1>2. TypeOK /\ [Next]_vars => TypeOK'
  <2> SUFFICES ASSUME TypeOK, [Next]_vars PROVE TypeOK'
    OBVIOUS
  <2> USE BrowserAssumption
  <2>1. ASSUME NEW t \in Tabs, Login(t) PROVE TypeOK'
    BY <2>1, LoginSent DEF TypeOK, Login, Sends
  <2>2. ASSUME NEW t \in Tabs, Refresh(t) PROVE TypeOK'
    BY <2>2, RefreshSent DEF TypeOK, Refresh, Sends
  <2>3. ASSUME NEW t \in Tabs, Reuse(t) PROVE TypeOK'
    BY <2>3, Idler, RevokedRows DEF TypeOK, Reuse, Ends, At
  <2>4. ASSUME NEW t \in Tabs, Claim(t) PROVE TypeOK'
    <3>1. row' \in [Ids -> Row] /\ UNCHANGED <<token, resets, cookie, calm>>
      BY <2>4, RevokedRows DEF Claim
    <3>2. \A x \in Task : LET r == [x EXCEPT !.pc = "issue"] IN
                            r \in Task /\ r.pc = "issue"
      BY DEF Task
    <3>3. \E r \in Task : r.pc # "set" /\ task' = [task EXCEPT ![t] = r]
      <4>1. CASE task' = [task EXCEPT ![t].pc = "issue"]
        BY <3>2, <4>1 DEF TypeOK
      <4>2. CASE Ends(t)
        BY <4>2, Idler DEF Ends
      <4>3. QED
        BY <2>4, <4>1, <4>2 DEF Claim
    <3>4. QED
      BY <3>1, <3>3 DEF TypeOK
  <2>5. ASSUME NEW t \in Tabs, Issue(t) PROVE TypeOK'
    <3>1. PICK s \in Ids :
            /\ row' = [row EXCEPT ![s] = [state |-> "live",
                                          from |-> task[t].session,
                                          password |-> task[t].password]]
            /\ task' = [task EXCEPT ![t].pc = "set", ![t].session = s]
      BY <2>5 DEF Issue
    <3>2. row' \in [Ids -> Row]
      BY <3>1 DEF TypeOK, Row, Task
    <3> DEFINE r == [task[t] EXCEPT !.pc = "set", !.session = s]
    <3>a. task[t] \in Task
      BY DEF TypeOK
    <3>b. r \in Task /\ r.session = s
      BY <3>a DEF Task
    <3>c. task' = [task EXCEPT ![t] = r]
      BY <3>1
    <3> HIDE DEF r
    <3>3. /\ task' \in [Tabs -> Task]
          /\ \A u \in Tabs : task'[u].pc = "set" => task'[u].session \in Ids
      BY <3>b, <3>c DEF TypeOK
    <3>4. QED
      BY <2>5, <3>2, <3>3 DEF TypeOK, Issue
  <2>6. ASSUME NEW t \in Tabs, SetCookies(t) PROVE TypeOK'
    BY <2>6, Idler DEF TypeOK, SetCookies, Ends, At
  <2>7. ASSUME NEW t \in Tabs, Logout(t) PROVE TypeOK'
    BY <2>7, LogoutSent, RevokedRows DEF TypeOK, Logout, Sends
  <2>8. ASSUME NEW t \in Tabs, ClearCookies(t) PROVE TypeOK'
    BY <2>8, Idler DEF TypeOK, ClearCookies, Ends, At
  <2>9. ASSUME NEW t \in Tabs, Forgot(t) PROVE TypeOK'
    BY <2>9, ForgotSent DEF TypeOK, Forgot, Sends
  <2>10. ASSUME NEW t \in Tabs, IssueToken(t) PROVE TypeOK'
    BY <2>10, Idler DEF TypeOK, IssueToken, Ends, At
  <2>11. ASSUME NEW t \in Tabs, Reset(t) PROVE TypeOK'
    <3> DEFINE next(k) == IF k = task[t].token \/ token[k] = "live"
                            THEN "used" ELSE token[k]
    <3>1. token' = [k \in Tokens |-> next(k)]
      BY <2>11 DEF Reset
    <3>2. \A k \in Tokens : next(k) \in {"unissued", "live", "used"}
      BY DEF TypeOK
    <3> HIDE DEF next
    <3>3. token' \in [Tokens -> {"unissued", "live", "used"}]
      BY <3>1, <3>2
    <3>4. row' \in [Ids -> Row]
      BY <2>11, RevokedRows DEF Reset
    <3>5. /\ task' \in [Tabs -> Task]
          /\ \A u \in Tabs : task'[u].pc = "set" => task'[u].session \in Ids
      BY <2>11, Idler DEF TypeOK, Reset, Ends
    <3>6. calm' \in SUBSET Browsers /\ UNCHANGED cookie
      BY <2>11, Zenon DEF Reset
    <3>7. resets' \in Nat
      BY <2>11 DEF TypeOK, Reset
    <3>8. QED
      BY <3>3, <3>4, <3>5, <3>6, <3>7, Zenon DEF TypeOK
  <2>12. ASSUME NEW t \in Tabs, NEW k \in Tokens, ReadToken(t, k)
        PROVE  TypeOK'
    BY <2>12, ResetSent DEF TypeOK, ReadToken, Sends
  <2>13. ASSUME NEW t \in Tabs, Lose(t) PROVE TypeOK'
    BY <2>13, Idler DEF TypeOK, Lose, Ends, At
  <2>14. ASSUME NEW s \in Ids, Expire(s) PROVE TypeOK'
    BY <2>14 DEF TypeOK, Expire, Row
  <2>15. CASE UNCHANGED vars
    BY <2>15 DEF vars, TypeOK
  <2>16. QED
    BY <2>1, <2>2, <2>3, <2>4, <2>5, <2>6, <2>7, <2>8, <2>9, <2>10, <2>11,
       <2>12, <2>13, <2>14, <2>15 DEF Next
<1>3. QED
  BY <1>1, <1>2, PTL DEF Spec

-----------------------------------------------------------------------------
(* A session has one heir: a session that was exchanged is revoked, and at *)
(* most one request is about to make the heir of it.                       *)

Exchanged ==
    \A s \in Ids : row[s].from # NoSession
                    => /\ row[s].from \in Ids
                       /\ row[row[s].from].state = "revoked"

OneIssuer ==
    \A t \in Tabs : At(t, "issue") /\ task[t].session # NoSession =>
        /\ task[t].session \in Ids
        /\ row[task[t].session].state = "revoked"
        /\ \A s \in Ids : row[s].from # task[t].session
        /\ \A u \in Tabs : At(u, "issue") /\ task[u].session = task[t].session
                            => u = t

HeirInv == OneHeir /\ Exchanged /\ OneIssuer

\* A step that makes no session and exchanges none.
LEMMA QuietHeirs ==
  ASSUME TypeOK, HeirInv, TypeOK',
         \A s \in Ids : /\ row'[s].from = row[s].from
                        /\ row[s].state = "revoked" => row'[s].state = "revoked",
         \A t \in Tabs : task'[t].pc = "issue"
                          => \/ task'[t] = task[t]
                             \/ task'[t].session = NoSession
  PROVE  HeirInv'
<1>1. OneHeir' /\ Exchanged'
  BY DEF HeirInv, OneHeir, Exchanged
<1>2. OneIssuer'
  BY DEF HeirInv, OneIssuer, At
<1>3. QED
  BY <1>1, <1>2 DEF HeirInv

\* The request that claims a session is the only one to get it: the others
\* find it revoked.
LEMMA ClaimHeirs ==
  ASSUME TypeOK, HeirInv, TypeOK', NEW t \in Tabs, Claim(t)
  PROVE  HeirInv'
<1> DEFINE x == task[t].session
<1>1. \A s \in Ids : /\ row'[s].from = row[s].from
                     /\ row[s].state = "revoked" => row'[s].state = "revoked"
  BY RevokedRows DEF Claim
<1>2. CASE x \notin Unrevoked
  <2>1. \A u \in Tabs : task'[u].pc = "issue" => task'[u] = task[u]
    BY <1>2, Idler DEF Claim, Ends, TypeOK
  <2>2. QED
    BY <1>1, <2>1, QuietHeirs
<1>3. CASE x \in Unrevoked
  <2>1. x \in Ids /\ row[x].state # "revoked" /\ row'[x].state = "revoked"
    BY <1>3, RevokedRows DEF Claim, Unrevoked
  <2>2. /\ \A s \in Ids : row[s].from # x
        /\ \A u \in Tabs : At(u, "issue") => task[u].session # x
    BY <2>1, NamesAssumption DEF HeirInv, Exchanged, OneIssuer
  <2>3. /\ task'[t].session = x
        /\ \A u \in Tabs : u # t => task'[u] = task[u]
    BY <1>3 DEF Claim, TypeOK, Task
  <2>4. OneHeir' /\ Exchanged'
    BY <1>1 DEF HeirInv, OneHeir, Exchanged
  <2> HIDE DEF x
  <2>5. OneIssuer'
    BY <1>1, <2>1, <2>2, <2>3 DEF HeirInv, OneIssuer, At
  <2>6. QED
    BY <2>4, <2>5 DEF HeirInv
<1>4. QED
  BY <1>2, <1>3

\* The session a request makes is the first heir of the one it claimed.
LEMMA IssueHeirs ==
  ASSUME TypeOK, HeirInv, TypeOK', NEW t \in Tabs, Issue(t)
  PROVE  HeirInv'
<1> DEFINE x == task[t].session
<1>1. PICK s \in Ids :
         /\ row[s] = NoRow
         /\ row' = [row EXCEPT ![s] = [state |-> "live", from |-> x,
                                      password |-> task[t].password]]
         /\ task' = [task EXCEPT ![t].pc = "set", ![t].session = s]
  BY DEF Issue
<1>2. /\ row[s].from = NoSession /\ row[s].state = "none"
      /\ row'[s].from = x
      /\ \A r \in Ids : r # s => row'[r] = row[r]
  BY <1>1 DEF NoRow, TypeOK
<1>3. /\ task'[t].pc = "set"
      /\ \A u \in Tabs : u # t => task'[u] = task[u]
  BY <1>1 DEF TypeOK, Task
<1>4. x # NoSession =>
        /\ x \in Ids /\ row[x].state = "revoked" /\ x # s
        /\ \A r \in Ids : row[r].from # x
        /\ \A u \in Tabs : u # t /\ At(u, "issue") => task[u].session # x
  BY <1>2 DEF Issue, HeirInv, OneIssuer
<1> HIDE DEF x
<1>5. OneHeir'
  BY <1>2, <1>4 DEF HeirInv, OneHeir
<1>6. Exchanged'
  BY <1>2, <1>4 DEF HeirInv, Exchanged
<1>7. OneIssuer'
  BY <1>2, <1>3, <1>4 DEF HeirInv, OneIssuer, At
<1>8. QED
  BY <1>5, <1>6, <1>7 DEF HeirInv

\* OneHeir: whichever tabs exchange a refresh token at the same time, it has
\* one successor.
THEOREM OneHeirTheorem == Spec => []OneHeir
<1>1. Init => HeirInv
  BY DEF Init, HeirInv, OneHeir, Exchanged, OneIssuer, At, NoRow, Idle
<1>2. TypeOK /\ TypeOK' /\ HeirInv /\ [Next]_vars => HeirInv'
  <2> SUFFICES ASSUME TypeOK, TypeOK', HeirInv, [Next]_vars PROVE HeirInv'
    OBVIOUS
  <2>1. ASSUME NEW t \in Tabs, Login(t) PROVE HeirInv'
    BY <2>1, LoginSent, QuietHeirs DEF Login, TypeOK
  <2>2. ASSUME NEW t \in Tabs, Refresh(t) PROVE HeirInv'
    BY <2>2, RefreshSent, QuietHeirs DEF Refresh, TypeOK
  <2>3. ASSUME NEW t \in Tabs, Reuse(t) \/ Reset(t) PROVE HeirInv'
    BY <2>3, RevokedRows, Idler, QuietHeirs DEF Reuse, Reset, Ends, TypeOK
  <2>4. ASSUME NEW t \in Tabs, SetCookies(t) \/ ClearCookies(t)
                               \/ IssueToken(t) \/ Lose(t)
        PROVE  HeirInv'
    BY <2>4, Idler, QuietHeirs
       DEF SetCookies, ClearCookies, IssueToken, Lose, Ends, TypeOK
  <2>5. ASSUME NEW t \in Tabs, Logout(t) PROVE HeirInv'
    BY <2>5, LogoutSent, RevokedRows, QuietHeirs DEF Logout, TypeOK
  <2>6. ASSUME NEW t \in Tabs, Forgot(t) PROVE HeirInv'
    BY <2>6, ForgotSent, QuietHeirs DEF Forgot, TypeOK
  <2>7. ASSUME NEW t \in Tabs, NEW k \in Tokens, ReadToken(t, k)
        PROVE  HeirInv'
    BY <2>7, ResetSent, QuietHeirs DEF ReadToken, TypeOK
  <2>8. ASSUME NEW s \in Ids, Expire(s) PROVE HeirInv'
    <3>1. \A r \in Ids : /\ row'[r].from = row[r].from
                         /\ row[r].state = "revoked" => row'[r].state = "revoked"
      BY <2>8 DEF Expire, Live, TypeOK, Row
    <3>2. QED
      BY <2>8, <3>1, QuietHeirs DEF Expire
  <2>9. CASE UNCHANGED vars
    BY <2>9, QuietHeirs DEF vars
  <2>10. QED
    BY <2>1, <2>2, <2>3, <2>4, <2>5, <2>6, <2>7, <2>8, <2>9, ClaimHeirs,
       IssueHeirs DEF Next
<1>3. HeirInv => OneHeir
  BY DEF HeirInv
<1>4. QED
  BY <1>1, <1>2, <1>3, TypeCorrect, PTL DEF Spec

-----------------------------------------------------------------------------
(* Until a password is reset or a spent token sent, a session belongs to   *)
(* one browser: to its cookies, to the tabs that are about to exchange it, *)
(* or to the one answer that will make it known.                           *)

Spends(b) == \E t \in Tabs : BrowserOf[t] = b /\ Spending(t)

NoReuse == \A t \in Tabs : ~ At(t, "reuse")
OwnClaims ==
    \A t \in Tabs : At(t, "claim") =>
      /\ task[t].session \in Ids /\ row[task[t].session].state # "none"
      /\ \A b \in Browsers : cookie[b] = task[t].session => b = BrowserOf[t]
OwnAnswers ==
    \A t \in Tabs : At(t, "set") =>
      /\ task[t].session \in Unrevoked
      /\ \A b \in Browsers : cookie[b] # task[t].session
SoleAnswers ==
    \A t, u \in Tabs :
      /\ At(t, "set") /\ (At(u, "claim") \/ At(u, "set"))
      /\ task[u].session = task[t].session
      => u = t
Apart == NoReuse /\ OwnClaims /\ OwnAnswers /\ SoleAnswers

SignedIn ==
    \A b \in Browsers : cookie[b] # NoSession =>
      /\ row[cookie[b]].state # "none"
      /\ b \in calm => cookie[b] \in Unrevoked \/ Spends(b)
      /\ \A c \in Browsers : cookie[c] = cookie[b] => b = c

CalmInv == calm # {} => Apart /\ SignedIn

\* What a tab may do without asking who owns which session.
Harmless(t) ==
    \/ task'[t] = task[t]
    \/ /\ ~ Spending(t)
       /\ \/ task'[t].pc \notin {"reuse", "claim", "set"}
          \/ /\ task'[t].pc = "claim"
             /\ task'[t].session = Jar(t) /\ Jar(t) # NoSession

\* A step that leaves the cookies and revokes nothing.
LEMMA QuietCalm ==
  ASSUME TypeOK, CalmInv, calm' \subseteq calm, cookie' = cookie,
         \A s \in Ids : /\ row'[s].from = row[s].from
                        /\ row[s].state # "none" => row'[s].state # "none"
                        /\ s \in Unrevoked => s \in Unrevoked',
         \A t \in Tabs : Harmless(t)
  PROVE  CalmInv'
<1> SUFFICES ASSUME calm' # {} PROVE Apart' /\ SignedIn'
  BY DEF CalmInv
<1>a. Apart /\ SignedIn /\ \A b \in Browsers : cookie[b] \in Ids \cup {NoSession}
  BY DEF CalmInv, TypeOK
<1>1. \A t \in Tabs : Spending(t) => Spending(t)'
  BY DEF TypeOK, Harmless, Spending, At
<1>b. \A t \in Tabs : task'[t].pc = "set" => task'[t] = task[t]
  BY DEF Harmless
<1>c. \A t \in Tabs :
         \/ task'[t] = task[t]
         \/ task'[t].pc \notin {"reuse", "claim", "set"}
         \/ /\ task'[t].pc = "claim" /\ task'[t].session = Jar(t)
            /\ Jar(t) \in Ids /\ Jar(t) = cookie[BrowserOf[t]]
  BY <1>a, BrowserAssumption DEF Harmless, Jar
<1>2. Apart'
  <2>1. NoReuse'
    BY <1>a, <1>c DEF Apart, NoReuse, At
  <2>2. OwnClaims'
    <3> SUFFICES ASSUME NEW t \in Tabs, task'[t].pc = "claim"
                 PROVE  /\ task'[t].session \in Ids
                        /\ row'[task'[t].session].state # "none"
                        /\ \A b \in Browsers : cookie[b] = task'[t].session
                                                => b = BrowserOf[t]
      BY DEF OwnClaims, At
    <3>1. CASE task'[t] = task[t]
      BY <1>a, <3>1 DEF Apart, OwnClaims, At
    <3>2. CASE task'[t] # task[t]
      BY <1>a, <1>c, <3>2, BrowserAssumption, NamesAssumption DEF SignedIn
    <3> QED
      BY <3>1, <3>2
  <2>3. OwnAnswers'
    <3>1. \A t \in Tabs : At(t, "set") => task[t].session \in Ids
      BY DEF TypeOK, At
    <3> QED
      BY <1>a, <1>b, <3>1 DEF Apart, OwnAnswers, At
  <2>4. SoleAnswers'
    <3> SUFFICES ASSUME NEW t \in Tabs, NEW u \in Tabs, task'[t].pc = "set",
                        task'[u].pc \in {"claim", "set"},
                        task'[u].session = task'[t].session
                 PROVE  u = t
      BY DEF SoleAnswers, At
    <3>1. CASE task'[u] = task[u]
      BY <1>a, <1>b, <3>1 DEF Apart, SoleAnswers, At
    <3>2. CASE task'[u] # task[u]
      BY <1>a, <1>b, <1>c, <3>2, BrowserAssumption
         DEF Apart, OwnAnswers, At
    <3> QED
      BY <3>1, <3>2
  <2> QED
    BY <2>1, <2>2, <2>3, <2>4 DEF Apart
<1>3. SignedIn'
  BY <1>a, <1>1 DEF SignedIn, Spends
<1> QED
  BY <1>2, <1>3

\* A request of one tab that has not claimed anything begins or ends.
LEMMA QuietTab ==
  ASSUME TypeOK, CalmInv, calm' \subseteq calm, cookie' = cookie, row' = row,
         NEW t \in Tabs, NEW r, task' = [task EXCEPT ![t] = r],
         ~ Spending(t), r.pc \notin {"reuse", "claim", "set"}
  PROVE  CalmInv'
<1>1. task'[t] = r /\ \A u \in Tabs : u # t => task'[u] = task[u]
  BY DEF TypeOK
<1>2. \A u \in Tabs : Harmless(u)
  BY <1>1 DEF Harmless
<1>3. Unrevoked' = Unrevoked
  BY DEF Unrevoked
<1> QED
  BY <1>2, <1>3, QuietCalm

\* A tab leaves what it names to nobody, and no answer's session is revoked.
LEMMA ApartStays ==
  ASSUME TypeOK, Apart, cookie' = cookie, NEW t \in Tabs,
         task'[t].pc \notin {"reuse", "claim", "set"},
         \A u \in Tabs : u # t => task'[u] = task[u],
         \A u \in Tabs : At(u, "set") => task[u].session \in Unrevoked',
         \A s \in Ids : row[s].state # "none" => row'[s].state # "none"
  PROVE  Apart'
<1>1. \A u \in Tabs : task'[u].pc \in {"reuse", "claim", "set"}
                      => u # t /\ task'[u] = task[u]
  OBVIOUS
<1>2. NoReuse'
  BY <1>1 DEF Apart, NoReuse, At
<1>3. OwnClaims'
  BY <1>1 DEF Apart, OwnClaims, At
<1>4. OwnAnswers'
  BY <1>1 DEF Apart, OwnAnswers, At
<1>5. SoleAnswers'
  <2> SUFFICES ASSUME NEW u \in Tabs, NEW v \in Tabs, task'[u].pc = "set",
                      task'[v].pc \in {"claim", "set"},
                      task'[v].session = task'[u].session
               PROVE  v = u
    BY DEF SoleAnswers, At
  <2> QED
    BY <1>1 DEF Apart, SoleAnswers, At
<1> QED
  BY <1>2, <1>3, <1>4, <1>5 DEF Apart

LEMMA RefreshCalm ==
  ASSUME TypeOK, CalmInv, NEW t \in Tabs, Refresh(t)
  PROVE  CalmInv'
<1> SUFFICES ASSUME calm' # {} PROVE CalmInv'
  BY DEF CalmInv
<1>1. /\ calm # {} /\ calm' = calm /\ row[Jar(t)].state # "revoked"
      /\ Jar(t) # NoSession /\ Jar(t) \in Ids
      /\ At(t, "idle") /\ UNCHANGED <<row, cookie>>
  BY BrowserAssumption DEF Refresh, Sends, TypeOK, Jar
<1>2. Jar(t) \in Live
  BY <1>1, BrowserAssumption DEF CalmInv, SignedIn, Jar, Live, TypeOK, Row,
     Refresh
<1>3. /\ task'[t].pc = "claim" /\ task'[t].session = Jar(t)
      /\ \A u \in Tabs : u # t => task'[u] = task[u]
  BY <1>2, RefreshSent DEF TypeOK
<1>4. \A u \in Tabs : Harmless(u)
  BY <1>1, <1>3 DEF Harmless, Spending, At
<1>5. Unrevoked' = Unrevoked
  BY <1>1 DEF Unrevoked
<1> QED
  BY <1>1, <1>4, <1>5, QuietCalm

\* A claim revokes a session that no other browser and no answer names.
LEMMA ClaimCalm ==
  ASSUME TypeOK, CalmInv, NEW t \in Tabs, Claim(t)
  PROVE  CalmInv'
<1> SUFFICES ASSUME calm' # {} PROVE CalmInv'
  BY DEF CalmInv
<1> DEFINE x == task[t].session
<1>1. /\ calm # {} /\ Apart /\ SignedIn /\ UNCHANGED <<cookie, calm>>
      /\ At(t, "claim") /\ x \in Ids
  BY DEF Claim, CalmInv, Apart, OwnClaims
<1>2. /\ \A u \in Tabs : u # t => task'[u] = task[u]
      /\ task'[t].pc = IF x \in Unrevoked THEN "issue" ELSE "idle"
      /\ x \in Unrevoked => task'[t].session = x
  BY Idler DEF Claim, Ends, TypeOK, Task
<1>3. \A s \in Ids : /\ row'[s].from = row[s].from
                     /\ s # x => row'[s].state = row[s].state
                     /\ x \notin Unrevoked => row'[s].state = row[s].state
                     /\ row[s].state # "none" => row'[s].state # "none"
  BY RevokedRows DEF Claim
<1> HIDE DEF x
<1>4. CASE x \notin Unrevoked
  <2>1. \A u \in Tabs : Harmless(u)
    BY <1>1, <1>2, <1>4 DEF Harmless, Spending, At
  <2>2. Unrevoked' = Unrevoked
    BY <1>3, <1>4 DEF Unrevoked
  <2> QED
    BY <1>1, <1>3, <2>1, <2>2, QuietCalm
<1>5. CASE x \in Unrevoked
  <2>1. \A s \in Ids : s \in Unrevoked /\ s # x => s \in Unrevoked'
    BY <1>3 DEF Unrevoked
  <2>2. \A u \in Tabs : At(u, "set") => task[u].session # x
    BY <1>1 DEF Apart, SoleAnswers, x, At
  <2>3. \A u \in Tabs : Spending(u) => Spending(u)'
    BY <1>1, <1>2, <1>3 DEF Spending, At, TypeOK
  <2>4. Spending(t)'
    BY <1>1, <1>2, <1>5, NamesAssumption DEF Spending, At
  <2>5. Apart'
    <3>1. task'[t].pc = "issue"
      BY <1>2, <1>5
    <3>2. \A u \in Tabs : At(u, "set") => task[u].session \in Unrevoked'
      BY <1>1, <2>1, <2>2 DEF Apart, OwnAnswers, TypeOK, At
    <3> QED
      BY <1>1, <1>2, <1>3, <3>1, <3>2, ApartStays
  <2>6. SignedIn'
    <3> SUFFICES ASSUME NEW b \in Browsers, cookie[b] # NoSession
                 PROVE  /\ row'[cookie[b]].state # "none"
                        /\ b \in calm' => cookie[b] \in Unrevoked' \/ Spends(b)'
      BY <1>1 DEF SignedIn
    <3>1. cookie[b] \in Ids /\ row[cookie[b]].state # "none"
      BY <1>1 DEF TypeOK, SignedIn
    <3>2. CASE cookie[b] = x
      <4>1. b = BrowserOf[t]
        BY <1>1, <3>2 DEF Apart, OwnClaims, x
      <4> QED
        BY <1>3, <2>4, <3>1, <4>1 DEF Spends
    <3>3. CASE cookie[b] # x
      BY <1>1, <1>3, <2>1, <2>3, <3>1, <3>3 DEF SignedIn, Spends
    <3> QED
      BY <3>2, <3>3
  <2> QED
    BY <2>5, <2>6 DEF CalmInv
<1> QED
  BY <1>4, <1>5

\* Nobody knows the session a request makes.
LEMMA IssueCalm ==
  ASSUME TypeOK, CalmInv, NEW t \in Tabs, Issue(t)
  PROVE  CalmInv'
<1> SUFFICES ASSUME calm' # {} PROVE Apart' /\ SignedIn'
  BY DEF CalmInv
<1>1. PICK s \in Ids :
         /\ row[s] = NoRow
         /\ row' = [row EXCEPT ![s] = [state |-> "live",
                                      from |-> task[t].session,
                                      password |-> task[t].password]]
         /\ task' = [task EXCEPT ![t].pc = "set", ![t].session = s]
  BY DEF Issue
<1>2. /\ Apart /\ SignedIn /\ cookie' = cookie /\ calm' = calm
      /\ At(t, "issue")
  BY DEF Issue, CalmInv
<1>3. /\ row[s].state = "none" /\ row'[s].state = "live"
      /\ row'[s].from = task[t].session
      /\ \A r \in Ids : r # s => row'[r] = row[r]
  BY <1>1 DEF NoRow, TypeOK
<1>4. /\ task'[t].pc = "set" /\ task'[t].session = s
      /\ \A u \in Tabs : u # t => task'[u] = task[u]
  BY <1>1 DEF TypeOK, Task
<1>5. /\ s \in Unrevoked'
      /\ \A r \in Ids : r \in Unrevoked => r \in Unrevoked' /\ r # s
  BY <1>3 DEF Unrevoked
<1>6. \A b \in Browsers : cookie[b] # s
  BY <1>2, <1>3, NamesAssumption DEF SignedIn
<1>7. \A u \in Tabs : At(u, "claim") \/ At(u, "set") => task[u].session # s
  BY <1>2, <1>3, <1>5 DEF Apart, OwnClaims, OwnAnswers
<1>8. \A u \in Tabs : Spending(u) => Spending(u)'
  <2>1. Spending(t) => Spending(t)'
    BY <1>2, <1>3, <1>4 DEF Spending, At
  <2>2. ASSUME NEW u \in Tabs, u # t, Spending(u) PROVE Spending(u)'
    BY <1>3, <1>4, <1>7, <2>2 DEF Spending, At, TypeOK
  <2> QED
    BY <2>1, <2>2
<1>9. Apart'
  <2>1. NoReuse'
    BY <1>2, <1>4 DEF Apart, NoReuse, At
  <2>2. OwnClaims'
    <3> SUFFICES ASSUME NEW u \in Tabs, task'[u].pc = "claim"
                 PROVE  /\ task'[u].session \in Ids
                        /\ row'[task'[u].session].state # "none"
                        /\ \A b \in Browsers : cookie[b] = task'[u].session
                                                => b = BrowserOf[u]
      BY <1>2 DEF OwnClaims, At
    <3>1. u # t /\ task'[u] = task[u]
      BY <1>4
    <3> QED
      BY <1>2, <1>3, <3>1 DEF Apart, OwnClaims, At
  <2>3. OwnAnswers'
    <3> SUFFICES ASSUME NEW u \in Tabs, task'[u].pc = "set"
                 PROVE  /\ task'[u].session \in Unrevoked'
                        /\ \A b \in Browsers : cookie[b] # task'[u].session
      BY <1>2 DEF OwnAnswers, At
    <3>1. CASE u = t
      BY <1>4, <1>5, <1>6, <3>1
    <3>2. CASE u # t
      <4>1. task[u].session \in Ids
        BY <1>4, <3>2 DEF TypeOK
      <4> QED
        BY <1>2, <1>4, <1>5, <3>2, <4>1 DEF Apart, OwnAnswers, At
    <3> QED
      BY <3>1, <3>2
  <2>4. SoleAnswers'
    <3> SUFFICES ASSUME NEW u \in Tabs, NEW v \in Tabs, task'[u].pc = "set",
                        task'[v].pc \in {"claim", "set"},
                        task'[v].session = task'[u].session
                 PROVE  v = u
      BY DEF SoleAnswers, At
    <3>1. CASE u # t /\ v # t
      BY <1>2, <1>4, <3>1 DEF Apart, SoleAnswers, At
    <3>2. CASE u = t \/ v = t
      BY <1>4, <1>7, <3>2 DEF At
    <3> QED
      BY <3>1, <3>2
  <2> QED
    BY <2>1, <2>2, <2>3, <2>4 DEF Apart
<1>10. SignedIn'
  BY <1>2, <1>3, <1>5, <1>6, <1>8 DEF SignedIn, Spends, TypeOK
<1> QED
  BY <1>9, <1>10

\* An answer hands its browser a session that nothing else names.
LEMMA CookiesCalm ==
  ASSUME TypeOK, CalmInv, NEW t \in Tabs, SetCookies(t) \/ ClearCookies(t)
  PROVE  CalmInv'
<1> SUFFICES ASSUME calm' # {} PROVE Apart' /\ SignedIn'
  BY DEF CalmInv
<1> DEFINE b == BrowserOf[t]
<1>1. /\ Apart /\ SignedIn /\ row' = row /\ Unrevoked' = Unrevoked
      /\ calm' = calm /\ b \in Browsers
  BY BrowserAssumption DEF SetCookies, ClearCookies, CalmInv, Unrevoked
<1>2. /\ task'[t].pc = "idle"
      /\ \A u \in Tabs : u # t => task'[u] = task[u]
  BY Idler DEF SetCookies, ClearCookies, Ends, TypeOK
<1>3. /\ \A c \in Browsers : c # b => cookie'[c] = cookie[c]
      /\ \/ cookie'[b] = NoSession
         \/ At(t, "set") /\ cookie'[b] = task[t].session
  BY BrowserAssumption DEF SetCookies, ClearCookies, TypeOK
<1>4. \A c \in Browsers : c # b /\ Spends(c) => Spends(c)'
  BY <1>1, <1>2 DEF Spends, Spending, At
<1> HIDE DEF b
<1>5. Apart'
  <2>0. \A u \in Tabs : task'[u].pc \in {"reuse", "claim", "set"}
                        => u # t /\ task'[u] = task[u]
    BY <1>2
  <2>1. \A u \in Tabs : At(u, "claim") \/ At(u, "set")
                          => task[u].session # NoSession
    BY NamesAssumption, <1>1 DEF Apart, OwnClaims, OwnAnswers, Unrevoked
  <2>2. ASSUME NEW u \in Tabs, u # t, NEW c \in Browsers,
               At(u, "claim") \/ At(u, "set"), cookie'[c] = task[u].session
        PROVE  cookie[c] = task[u].session
    BY <1>1, <1>3, <2>1, <2>2 DEF Apart, SoleAnswers
  <2>3. NoReuse'
    BY <1>1, <2>0 DEF Apart, NoReuse, At
  <2>4. OwnClaims'
    BY <1>1, <2>0, <2>2 DEF Apart, OwnClaims, At
  <2>5. OwnAnswers'
    BY <1>1, <2>0, <2>2 DEF Apart, OwnAnswers, At
  <2>6. SoleAnswers'
    <3> SUFFICES ASSUME NEW u \in Tabs, NEW v \in Tabs, task'[u].pc = "set",
                        task'[v].pc \in {"claim", "set"},
                        task'[v].session = task'[u].session
                 PROVE  v = u
      BY DEF SoleAnswers, At
    <3> QED
      BY <1>1, <2>0 DEF Apart, SoleAnswers, At
  <2> QED
    BY <2>3, <2>4, <2>5, <2>6 DEF Apart
<1>6. SignedIn'
  <2>1. cookie'[b] # NoSession =>
          /\ cookie'[b] \in Unrevoked
          /\ \A c \in Browsers : cookie[c] # cookie'[b]
    BY <1>1, <1>3 DEF Apart, OwnAnswers
  <2> QED
    BY <1>1, <1>3, <1>4, <2>1 DEF SignedIn, Unrevoked
<1> QED
  BY <1>5, <1>6

\* Signing out ends the session of one browser.
LEMMA LogoutCalm ==
  ASSUME TypeOK, CalmInv, NEW t \in Tabs, Logout(t)
  PROVE  CalmInv'
<1> SUFFICES ASSUME calm' # {} PROVE Apart' /\ SignedIn'
  BY DEF CalmInv
<1> DEFINE x == Jar(t)
<1>1. /\ Apart /\ SignedIn /\ cookie' = cookie /\ calm' = calm
      /\ At(t, "idle")
      /\ x \in Ids \cup {NoSession}
  BY BrowserAssumption DEF Logout, Sends, CalmInv, TypeOK, Jar
<1>2. /\ task'[t].pc = "clear"
      /\ \A u \in Tabs : u # t => task'[u] = task[u]
  BY LogoutSent DEF TypeOK
<1>3. \A s \in Ids : /\ row'[s].from = row[s].from
                     /\ s # x => row'[s].state = row[s].state
                     /\ row[s].state # "none" => row'[s].state # "none"
  BY RevokedRows DEF Logout
<1>4. \A s \in Ids : s \in Unrevoked /\ s # x => s \in Unrevoked'
  BY <1>3 DEF Unrevoked
<1>5. \A u \in Tabs : At(u, "set") => task[u].session \in Ids \ {x}
  <2>1. \A u \in Tabs : At(u, "set") => task[u].session \in Ids
    BY DEF TypeOK, At
  <2> QED
    BY <1>1, <2>1, BrowserAssumption DEF Apart, OwnAnswers, Jar
<1>6. \A u \in Tabs : Spending(u) => Spending(u)'
  BY <1>1, <1>2, <1>3, <1>5 DEF Spending, At
<1>7. \A b \in Browsers : b # BrowserOf[t] /\ cookie[b] # NoSession
                            => cookie[b] \in Ids \ {x}
  BY <1>1, BrowserAssumption DEF SignedIn, Jar, TypeOK
<1> HIDE DEF x
<1>8. Apart'
  <2>1. \A u \in Tabs : At(u, "set") => task[u].session \in Unrevoked'
    BY <1>1, <1>4, <1>5 DEF Apart, OwnAnswers
  <2> QED
    BY <1>1, <1>2, <1>3, <2>1, ApartStays
<1>9. SignedIn'
  <2>1. Spends(BrowserOf[t])' /\ \A b \in Browsers : Spends(b) => Spends(b)'
    BY <1>2, <1>6 DEF Spends, Spending, At
  <2> QED
    BY <1>1, <1>3, <1>4, <1>7, <2>1 DEF SignedIn, TypeOK
<1> QED
  BY <1>8, <1>9

\* A browser that loses its cookies is no longer spoken of, and the others
\* keep theirs.
LEMMA LostCalm ==
  ASSUME TypeOK, CalmInv, NEW t \in Tabs, Lose(t), Spending(t)
  PROVE  CalmInv'
<1> SUFFICES ASSUME calm' # {} PROVE Apart' /\ SignedIn'
  BY DEF CalmInv
<1>1. /\ Apart /\ SignedIn /\ cookie' = cookie /\ row' = row
      /\ calm' = calm \ {BrowserOf[t]} /\ Unrevoked' = Unrevoked
  BY DEF Lose, CalmInv, Unrevoked
<1>2. /\ task'[t].pc = "idle"
      /\ \A u \in Tabs : u # t => task'[u] = task[u]
  BY Idler DEF Lose, Ends, TypeOK
<1>3. Apart'
  <2>1. \A u \in Tabs : At(u, "set") => task[u].session \in Unrevoked'
    BY <1>1 DEF Apart, OwnAnswers
  <2> QED
    BY <1>1, <1>2, <2>1, ApartStays
<1>4. \A b \in calm' : Spends(b) => Spends(b)'
  BY <1>1, <1>2 DEF Spends, Spending, At
<1>5. SignedIn'
  BY <1>1, <1>4 DEF SignedIn
<1> QED
  BY <1>3, <1>5

\* StaysSignedIn: as long as no password is reset and no spent token sent,
\* a browser that lost no answer with cookies is not signed out unasked,
\* whatever its tabs and the other browsers do.
THEOREM StaysSignedInTheorem == Spec => []StaysSignedIn
<1>1. Init => CalmInv
  BY DEF Init, CalmInv, Apart, NoReuse, OwnClaims, OwnAnswers, SoleAnswers,
         SignedIn, At, Idle
<1>2. TypeOK /\ CalmInv /\ [Next]_vars => CalmInv'
  <2> SUFFICES ASSUME TypeOK, CalmInv, [Next]_vars PROVE CalmInv'
    OBVIOUS
  <2>1. ASSUME NEW t \in Tabs, Login(t) PROVE CalmInv'
    BY <2>1, LoginSent, QuietTab DEF Login, Sends, Spending, At
  <2>2. ASSUME NEW t \in Tabs, Reuse(t) PROVE CalmInv'
    BY <2>2 DEF CalmInv, Apart, NoReuse, Reuse
  <2>3. ASSUME NEW t \in Tabs, Forgot(t) PROVE CalmInv'
    BY <2>3, ForgotSent, QuietTab DEF Forgot, Sends, Spending, At
  <2>4. ASSUME NEW t \in Tabs, IssueToken(t) PROVE CalmInv'
    BY <2>4, Idler, QuietTab DEF IssueToken, Ends, Spending, At
  <2>5. ASSUME NEW t \in Tabs, NEW k \in Tokens, ReadToken(t, k)
        PROVE  CalmInv'
    BY <2>5, ResetSent, QuietTab DEF ReadToken, Sends, Spending, At
  <2>6. ASSUME NEW t \in Tabs, Reset(t) PROVE CalmInv'
    BY <2>6 DEF CalmInv, Reset
  <2>7. ASSUME NEW t \in Tabs, Lose(t) PROVE CalmInv'
    <3>1. CASE Spending(t)
      BY <2>7, <3>1, LostCalm
    <3>2. CASE ~ Spending(t)
      BY <2>7, <3>2, Idler, QuietTab DEF Lose, Ends
    <3> QED
      BY <3>1, <3>2
  <2>8. ASSUME NEW s \in Ids, Expire(s) PROVE CalmInv'
    <3>1. \A r \in Ids : /\ row'[r].from = row[r].from
                         /\ row[r].state # "none" => row'[r].state # "none"
                         /\ r \in Unrevoked => r \in Unrevoked'
      BY <2>8 DEF Expire, Live, Unrevoked, TypeOK, Row
    <3>2. \A t \in Tabs : Harmless(t)
      BY <2>8 DEF Expire, Harmless
    <3> QED
      BY <2>8, <3>1, <3>2, QuietCalm DEF Expire
  <2>9. CASE UNCHANGED vars
    BY <2>9 DEF CalmInv, Apart, NoReuse, OwnClaims, OwnAnswers, SoleAnswers,
                SignedIn, Spends, Spending, At, Unrevoked, vars
  <2> QED
    BY <2>1, <2>2, <2>3, <2>4, <2>5, <2>6, <2>7, <2>8, <2>9, RefreshCalm,
       ClaimCalm, IssueCalm, CookiesCalm, LogoutCalm DEF Next
<1>3. TypeOK /\ CalmInv => StaysSignedIn
  BY DEF TypeOK, CalmInv, SignedIn, Spends, StaysSignedIn
<1> QED
  BY <1>1, <1>2, <1>3, TypeCorrect, PTL DEF Spec
=============================================================================
