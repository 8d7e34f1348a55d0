------------------------------ MODULE Sessions ------------------------------
(***************************************************************************)
(* One user's sessions: sign-in, rotation of the refresh token, sign-out   *)
(* and the password reset, as the browsers of the user see them.           *)
(*                                                                         *)
(* A session is a RefreshSession row; the cookies of a browser name one    *)
(* session, and every tab of the browser sends the same cookies.  A tab    *)
(* coalesces its own refreshes and has one request of this kind under way; *)
(* its request is a sequence of statements at the server and then an       *)
(* answer, which sets or clears the cookies of the browser when it         *)
(* arrives.  Access tokens carry the id of their session and are looked up *)
(* there, so they are not told apart from it.                              *)
(***************************************************************************)
EXTENDS Naturals, FiniteSets

CONSTANTS
    Ids,         \* ids of sessions (bound)
    Tabs,
    Browsers,
    BrowserOf,   \* the browser of each tab
    Tokens,      \* password reset tokens (bound)
    NoSession,
    NoToken

ASSUME BrowserAssumption == BrowserOf \in [Tabs -> Browsers]
ASSUME NamesAssumption   == NoSession \notin Ids /\ NoToken \notin Tokens

VARIABLES
    row,      \* the RefreshSession rows
    token,    \* the PasswordResetToken rows: unissued, live or used
    resets,   \* how often the password was reset: which password it is
    cookie,   \* the session the cookies of each browser name
    task,     \* the request of each tab
    calm      \* the browsers that lost no answer with cookies, and none at
              \* all once a password was reset or a spent token sent (history)

vars == <<row, token, resets, cookie, task, calm>>

\* from: the session a row was rotated from; password: the one the user
\* signed in with.
NoRow == [state |-> "none", from |-> NoSession, password |-> 0]
Idle  == [pc |-> "idle", session |-> NoSession, password |-> 0,
          token |-> NoToken, spent |-> {}]

Row == [state : {"none", "live", "revoked", "expired"},
        from : Ids \cup {NoSession},
        password : Nat]
Task == [pc : {"idle", "claim", "reuse", "issue", "set", "clear", "forgot",
               "reset"},
         session : Ids \cup {NoSession},
         password : Nat,
         token : Tokens \cup {NoToken},
         spent : SUBSET Tokens]

TypeOK ==
    /\ row \in [Ids -> Row]
    /\ token \in [Tokens -> {"unissued", "live", "used"}]
    /\ resets \in Nat
    /\ cookie \in [Browsers -> Ids \cup {NoSession}]
    /\ task \in [Tabs -> Task]
    /\ calm \in SUBSET Browsers
    /\ \A t \in Tabs : task[t].pc = "set" => task[t].session \in Ids

-----------------------------------------------------------------------------
At(t, pc) == task[t].pc = pc
Ends(t)   == task' = [task EXCEPT ![t] = Idle]
Live      == {s \in Ids : row[s].state = "live"}

\* updateMany where revokedAt is null.
Unrevoked  == {s \in Ids : row[s].state \in {"live", "expired"}}
Revoked(S) == [s \in Ids |-> IF s \in S \cap Unrevoked
                               THEN [row[s] EXCEPT !.state = "revoked"]
                               ELSE row[s]]

Jar(t) == cookie[BrowserOf[t]]

\* The request has ended the session its cookies named, and its answer will
\* replace or clear them.
Spending(t) ==
    \/ At(t, "clear")
    \/ At(t, "issue") /\ task[t].session # NoSession
    \/ At(t, "set") /\ row[task[t].session].from # NoSession

\* A tab sends a request.
Sends(t, request) ==
    /\ At(t, "idle")
    /\ task' = [task EXCEPT ![t] = request]

Init ==
    /\ row = [s \in Ids |-> NoRow]
    /\ token = [k \in Tokens |-> "unissued"]
    /\ resets = 0
    /\ cookie = [b \in Browsers |-> NoSession]
    /\ task = [t \in Tabs |-> Idle]
    /\ calm = Browsers

-----------------------------------------------------------------------------
(* Sign-in and rotation *)

\* The password is right at this moment; the session is made later.
Login(t) ==
    /\ Sends(t, [Idle EXCEPT !.pc = "issue", !.password = resets])
    /\ UNCHANGED <<row, token, resets, cookie, calm>>

\* A row that was revoked is a token used again; one past its time is
\* refused without further consequence.
Refresh(t) ==
    /\ Jar(t) # NoSession
    /\ row[Jar(t)].state # "expired"
    /\ Sends(t, [Idle EXCEPT
                   !.pc = IF Jar(t) \in Live THEN "claim" ELSE "reuse",
                   !.session = Jar(t),
                   !.password = row[Jar(t)].password])
    /\ calm' = IF row[Jar(t)].state = "revoked" THEN {} ELSE calm
    /\ UNCHANGED <<row, token, resets, cookie>>

\* The token was used before: every session of the user ends.
Reuse(t) ==
    /\ At(t, "reuse")
    /\ row' = Revoked(Ids)
    /\ Ends(t)
    /\ UNCHANGED <<token, resets, cookie, calm>>

\* The one refresh that finds the row unrevoked goes on; the other is
\* refused.  The mistakes are to go on in any case, and to take the other for
\* a token used again.
ClaimAnyway(t) ==
    /\ At(t, "claim")
    /\ row' = Revoked({task[t].session})
    /\ task' = [task EXCEPT ![t].pc = "issue"]
    /\ UNCHANGED <<token, resets, cookie, calm>>
ClaimOrReuse(t) ==
    /\ At(t, "claim")
    /\ IF task[t].session \in Unrevoked
         THEN /\ task' = [task EXCEPT ![t].pc = "issue"]
              /\ row' = Revoked({task[t].session})
         ELSE Ends(t) /\ row' = Revoked(Ids)
    /\ UNCHANGED <<token, resets, cookie, calm>>
Claim(t) ==
    /\ At(t, "claim")
    /\ IF task[t].session \in Unrevoked
         THEN task' = [task EXCEPT ![t].pc = "issue"]
         ELSE Ends(t)
    /\ row' = Revoked({task[t].session})
    /\ UNCHANGED <<token, resets, cookie, calm>>

\* Nothing is looked at again before the row is made.
Issue(t) ==
    /\ At(t, "issue")
    /\ \E s \in Ids :
         /\ row[s] = NoRow
         /\ row' = [row EXCEPT ![s] = [state |-> "live",
                                       from |-> task[t].session,
                                       password |-> task[t].password]]
         /\ task' = [task EXCEPT ![t].pc = "set", ![t].session = s]
    /\ UNCHANGED <<token, resets, cookie, calm>>

SetCookies(t) ==
    /\ At(t, "set")
    /\ cookie' = [cookie EXCEPT ![BrowserOf[t]] = task[t].session]
    /\ Ends(t)
    /\ UNCHANGED <<row, token, resets, calm>>

-----------------------------------------------------------------------------
(* Sign-out: the session of the cookies alone *)

Logout(t) ==
    /\ Sends(t, [Idle EXCEPT !.pc = "clear"])
    /\ row' = Revoked({Jar(t)})
    /\ UNCHANGED <<token, resets, cookie, calm>>

ClearCookies(t) ==
    /\ At(t, "clear")
    /\ cookie' = [cookie EXCEPT ![BrowserOf[t]] = NoSession]
    /\ Ends(t)
    /\ UNCHANGED <<row, token, resets, calm>>

-----------------------------------------------------------------------------
(* Password reset *)

\* Two requests may each find the same tokens to mark, and issue one each.
Forgot(t) ==
    /\ Sends(t, [Idle EXCEPT !.pc = "forgot",
                   !.spent = {k \in Tokens : token[k] = "live"}])
    /\ UNCHANGED <<row, token, resets, cookie, calm>>

IssueToken(t) ==
    /\ At(t, "forgot")
    /\ \E k \in Tokens :
         /\ token[k] = "unissued"
         /\ token' = [j \in Tokens |-> IF j = k THEN "live"
                                       ELSE IF j \in task[t].spent THEN "used"
                                       ELSE token[j]]
    /\ Ends(t)
    /\ UNCHANGED <<row, resets, cookie, calm>>

\* The token is looked at before the password is hashed, and not again.
ReadToken(t, k) ==
    /\ token[k] = "live"
    /\ Sends(t, [Idle EXCEPT !.pc = "reset", !.token = k])
    /\ UNCHANGED <<row, token, resets, cookie, calm>>

\* Everything that is live then ends; what is under way does not.
Reset(t) ==
    /\ At(t, "reset")
    /\ token' = [k \in Tokens |->
                   IF k = task[t].token \/ token[k] = "live" THEN "used"
                                                             ELSE token[k]]
    /\ resets' = resets + 1
    /\ row' = Revoked(Ids)
    /\ calm' = {}
    /\ Ends(t)
    /\ UNCHANGED cookie

-----------------------------------------------------------------------------
\* A session's time is over.
Expire(s) ==
    /\ s \in Live
    /\ row' = [row EXCEPT ![s].state = "expired"]
    /\ UNCHANGED <<token, resets, cookie, task, calm>>

\* The server dies with the request, or the answer does not arrive.
Lose(t) ==
    /\ ~ At(t, "idle")
    /\ calm' = IF Spending(t) THEN calm \ {BrowserOf[t]} ELSE calm
    /\ Ends(t)
    /\ UNCHANGED <<row, token, resets, cookie>>

Next ==
    \/ \E t \in Tabs :
         \/ Login(t) \/ Refresh(t) \/ Reuse(t) \/ Claim(t) \/ Issue(t)
         \/ SetCookies(t)
         \/ Logout(t) \/ ClearCookies(t)
         \/ Forgot(t) \/ IssueToken(t) \/ Reset(t)
         \/ \E k \in Tokens : ReadToken(t, k)
         \/ Lose(t)
    \/ \E s \in Ids : Expire(s)

Spec == Init /\ [][Next]_vars

-----------------------------------------------------------------------------
(* Properties *)

\* A refresh token is exchanged once: whichever tabs send it at the same
\* time, and whatever is lost and sent again, a session has one successor.
OneHeir == \A r, s \in Ids :
               row[r].from = row[s].from /\ row[r].from # NoSession => r = s

\* Until the password is reset or a spent token is sent from anywhere, a
\* browser that lost no answer with cookies is never signed out unasked,
\* although its tabs refresh, sign in and sign out together and the other
\* browsers lose what they like: its cookies name a revoked session only
\* while the answer that replaces them is on its way to one of its tabs.
StaysSignedIn ==
    \A b \in calm :
       \/ cookie[b] = NoSession
       \/ cookie[b] \in Unrevoked
       \/ \E t \in Tabs : BrowserOf[t] = b /\ Spending(t)

\* security-model.md: a password reset revokes all active sessions of the
\* user.  It does not: a sign-in or a refresh that was past its check makes
\* its session after the reset, with the old password behind it.
ResetEndsSessions == \A s \in Live : row[s].password = resets
=============================================================================
