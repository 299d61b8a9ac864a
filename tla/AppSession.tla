----------------------------- MODULE AppSession -----------------------------
(***************************************************************************)
(* The rider app's session: Dio's interceptors, which answer a 401 by      *)
(* refreshing once for all the calls that meet one (dio_client.dart), the  *)
(* token storage behind them (auth_service.dart), and AuthHandler's Login, *)
(* Register and Refresh with the refresh_tokens table at the other end.    *)
(* Every await of the app and every repository call of a refresh ends a    *)
(* step.                                                                   *)
(*                                                                         *)
(* Session n is the n-th pair of an access and a refresh token; 0 stands   *)
(* for no token.  Encryption, the checks of passwords and the user's row   *)
(* are left out: a login is granted or refused.                            *)
(* The app's storage does not fail here.  If it did, the exception would   *)
(* reach the calls that wait for the refresh, which await it outside the   *)
(* try, while the call that runs it gets FALSE.                            *)
(***************************************************************************)
EXTENDS Naturals, FiniteSets

CONSTANTS
  Calls,      \* API calls of the app
  MaxFaults,  \* bound: lost answers, failing repository calls, months away
  None

ASSUME ConstantsOK ==
  /\ IsFiniteSet(Calls) /\ None \notin Calls
  /\ MaxFaults \in Nat

VARIABLES
  active,   \* refresh tokens that are neither revoked nor expired
  next,     \* the session the server issues next
  expired,  \* access tokens past their 15 minutes
  access, refresh,  \* the app's storage
  flight,   \* _refreshingFuture: the call that runs the refresh
  call,     \* pc, whether it is a login, token in hand, token granted and the
            \* "retried" mark of each call
  user,     \* has logged "in", is "leaving" or "out"
  faults,
  floor     \* history: the first session after the last logout; 0 when a
            \* refresh was running as it ended

server == <<active, next>>
store  == <<access, refresh>>
vars   == <<server, expired, store, flight, call, user, faults, floor>>

(* A call refreshes once at most, and a login is granted once.              *)
LastSession == 1 + 2 * Cardinality(Calls)
Sessions    == 1 .. LastSession

\* A call with no token in hand.
Fresh(pc, login, retried) ==
  [pc |-> pc, login |-> login, tok |-> 0, new |-> 0, retried |-> retried]

Init ==
  /\ active = {1} /\ next = 2 /\ expired = {}
  /\ access = 1 /\ refresh = 1
  /\ flight = None /\ user = "in" /\ faults = 0 /\ floor = 1
  /\ call = [c \in Calls |-> Fresh("start", FALSE, FALSE)]

At(c, pc)   == call[c].pc = pc
Goto(c, pc) == call' = [call EXCEPT ![c].pc = pc]
End(c)      == call' = [call EXCEPT ![c] = Fresh("done", FALSE, FALSE)]

-----------------------------------------------------------------------------
(* onRequest attaches the stored token; the server's Auth middleware judges *)
(* it when the request arrives.                                             *)

Send(c, login) ==
  call' = [call EXCEPT ![c].pc = "sent", ![c].login = login, ![c].tok = access]

(* POST /auth/login and /auth/register come from pages an app shows while   *)
(* its user is out, and whose button is off while a call is on its way.     *)
LoggingIn == \E c \in Calls : call[c].login

Start(c, login) ==
  /\ At(c, "start") /\ Send(c, login)
  /\ login => user = "out" /\ ~LoggingIn
  /\ UNCHANGED <<server, expired, store, flight, user, faults, floor>>

(* The retry is given up when the storage holds no token any more.          *)
Retry(c) ==
  /\ At(c, "retry")
  /\ IF access = 0 THEN End(c) ELSE Send(c, call[c].login)
  /\ UNCHANGED <<server, expired, store, flight, user, faults, floor>>

Unauthorized(c) ==
  IF call[c].retried THEN End(c)
  ELSE call' = [call EXCEPT ![c] = Fresh("refused", call[c].login, FALSE)]

Respond(c) ==
  /\ At(c, "sent") /\ ~call[c].login
  /\ IF call[c].tok # 0 /\ call[c].tok \notin expired THEN End(c)
                                                      ELSE Unauthorized(c)
  /\ UNCHANGED <<server, expired, store, flight, user, faults, floor>>

(* issueSession *)
NewSession == active' = active \cup {next} /\ next' = next + 1
Grant(c, pc) == call' = [call EXCEPT ![c].pc = pc, ![c].new = next]

(* Login and Register look at no token.  A wrong password is a 401 like any *)
(* other; a disabled account (403), a taken e-mail (409) or an error is not. *)
RespondLogin(c) ==
  /\ At(c, "sent") /\ call[c].login
  /\ \/ NewSession /\ Grant(c, "welcome")
     \/ (Unauthorized(c) \/ End(c)) /\ UNCHANGED server
  /\ UNCHANGED <<expired, store, flight, user, faults, floor>>

-----------------------------------------------------------------------------
(* onError and _refreshToken: the first call refreshes, the others wait.    *)

\* Mutant of OnUnauthorized: every call refreshes for itself.
OnUnauthorizedAlone(c) ==
  /\ At(c, "refused")
  /\ flight' = c /\ Goto(c, "read")
  /\ UNCHANGED <<server, expired, store, user, faults, floor>>

OnUnauthorized(c) ==
  /\ At(c, "refused")
  /\ IF flight = None THEN flight' = c /\ Goto(c, "read")
                      ELSE Goto(c, "wait") /\ UNCHANGED flight
  /\ UNCHANGED <<server, expired, store, user, faults, floor>>

(* The future completes: the refreshing call and those that wait for it     *)
(* retry, or hand on the 401.                                               *)
Complete(c, ok) ==
  /\ flight' = None
  /\ call' = [d \in Calls |->
       IF d = c \/ At(d, "wait")
         THEN IF ok THEN Fresh("retry", call[d].login, TRUE)
                    ELSE Fresh("done", FALSE, FALSE)
         ELSE call[d]]

(* refreshSession *)
ReadRefresh(c) ==
  /\ At(c, "read")
  /\ IF refresh = 0 THEN Complete(c, FALSE)
     ELSE call' = [call EXCEPT ![c].pc = "ask", ![c].tok = refresh] /\ UNCHANGED flight
  /\ UNCHANGED <<server, expired, store, user, faults, floor>>

(* AuthHandler.Refresh: FindActiveByHash, Revoke, Create.                   *)

\* Mutant of FindActive: without skipAuthRefresh the app waits for itself.
FindActiveUnskipped(c) ==
  /\ At(c, "ask")
  /\ Goto(c, IF call[c].tok \in active THEN "found" ELSE "wait")
  /\ UNCHANGED <<server, expired, store, flight, user, faults, floor>>

FindActive(c) ==
  /\ At(c, "ask")
  /\ Goto(c, IF call[c].tok \in active THEN "found" ELSE "denied")
  /\ UNCHANGED <<server, expired, store, flight, user, faults, floor>>

Revoke(c) ==
  /\ At(c, "found") /\ Goto(c, "revoked")
  /\ active' = active \ {call[c].tok}
  /\ UNCHANGED <<next, expired, store, flight, user, faults, floor>>

Issue(c) ==
  /\ At(c, "revoked")
  /\ NewSession /\ Grant(c, "granted")
  /\ UNCHANGED <<expired, store, flight, user, faults, floor>>

(* _persistSession writes one token after the other, for a refresh and for  *)
(* a login; a refused or failed refresh deletes them the same way.          *)
PersistAccess(c) ==
  /\ \/ At(c, "granted") /\ Goto(c, "persist")
     \/ At(c, "welcome") /\ Goto(c, "enter")
  /\ access' = call[c].new
  /\ UNCHANGED <<server, expired, refresh, flight, user, faults, floor>>

\* Mutant of PersistRefresh: the rotated token is not stored.
PersistNothing(c) ==
  /\ At(c, "persist") /\ Complete(c, TRUE)
  /\ UNCHANGED <<server, expired, store, user, faults, floor>>

PersistRefresh(c) ==
  /\ \/ At(c, "persist") /\ Complete(c, TRUE) /\ UNCHANGED user
     \/ At(c, "enter") /\ End(c) /\ user' = "in" /\ UNCHANGED flight
  /\ refresh' = call[c].new
  /\ UNCHANGED <<server, expired, access, faults, floor>>

ClearAccess(c) ==
  /\ At(c, "denied") /\ Goto(c, "clear")
  /\ access' = 0
  /\ UNCHANGED <<server, expired, refresh, flight, user, faults, floor>>

ClearRefresh(c) ==
  /\ At(c, "clear") /\ Complete(c, FALSE)
  /\ refresh' = 0
  /\ UNCHANGED <<server, expired, access, user, faults, floor>>

-----------------------------------------------------------------------------
(* Nothing tells whether a token that nobody holds has expired.             *)
Held(n) == n = access \/ \E c \in Calls : n \in {call[c].tok, call[c].new}

Expire(n) ==
  /\ n < next /\ n \notin expired /\ Held(n)
  /\ expired' = expired \cup {n}
  /\ UNCHANGED <<server, store, flight, call, user, faults, floor>>

(* 30 days pass.                                                            *)
ExpireRefresh ==
  /\ faults < MaxFaults /\ faults' = faults + 1
  /\ active' = {} /\ expired' = 1 .. next - 1
  /\ UNCHANGED <<next, store, flight, call, user, floor>>

(* logout(), by the user or by isLoggedIn when the access token has expired.*)
RemoveAccess ==
  /\ user = "in" /\ user' = "leaving"
  /\ access' = 0
  /\ UNCHANGED <<server, expired, refresh, flight, call, faults, floor>>

LoggedOut == user' = "out" /\ floor' = IF flight = None THEN next ELSE 0

\* Mutant of RemoveRefresh: a logout forgets the refresh token.
RemoveNoRefresh ==
  /\ user = "leaving" /\ LoggedOut
  /\ UNCHANGED <<server, expired, store, flight, call, faults>>

RemoveRefresh ==
  /\ user = "leaving" /\ LoggedOut
  /\ refresh' = 0
  /\ UNCHANGED <<server, expired, access, flight, call, faults>>

-----------------------------------------------------------------------------
(* The connection fails or the app stops waiting.  The server may be at any *)
(* point of the refresh, and may still finish it.                           *)
Outcomes(c) ==
  {<<active, next>>}
    \cup (IF (At(c, "ask") /\ call[c].tok \in active) \/ At(c, "found")
            THEN {<<active \ {call[c].tok}, next>>,
                  <<(active \ {call[c].tok}) \cup {next}, next + 1>>} ELSE {})
    \cup (IF At(c, "revoked") THEN {<<active \cup {next}, next + 1>>} ELSE {})

LoseAnswer(c) ==
  /\ faults < MaxFaults /\ faults' = faults + 1
  /\ \/ /\ At(c, "sent") /\ End(c)
        /\ UNCHANGED server \/ (call[c].login /\ NewSession)
     \/ /\ call[c].pc \in {"ask", "found", "revoked", "granted"}
        /\ Goto(c, "denied")
        /\ \E o \in Outcomes(c) : active' = o[1] /\ next' = o[2]
  /\ UNCHANGED <<expired, store, flight, user, floor>>

(* A repository call fails: 500, except that the error of Revoke is dropped.*)
FailCall(c) ==
  /\ faults < MaxFaults /\ faults' = faults + 1
  /\ \/ call[c].pc \in {"ask", "revoked"} /\ Goto(c, "denied")
     \/ At(c, "found") /\ Goto(c, "revoked")
  /\ UNCHANGED <<server, expired, store, flight, user, floor>>

Refresh(c) ==
  \/ OnUnauthorized(c) \/ ReadRefresh(c) \/ FindActive(c) \/ Revoke(c) \/ Issue(c)
  \/ PersistAccess(c) \/ PersistRefresh(c) \/ ClearAccess(c) \/ ClearRefresh(c)

Step(c) == Retry(c) \/ Respond(c) \/ RespondLogin(c) \/ Refresh(c)

Next ==
  \/ \E c \in Calls : Start(c, TRUE) \/ Start(c, FALSE) \/ Step(c)
  \/ \E c \in Calls : LoseAnswer(c) \/ FailCall(c)
  \/ \E n \in Sessions : Expire(n)
  \/ ExpireRefresh \/ RemoveAccess \/ RemoveRefresh

Spec == Init /\ [][Next]_vars

(* Awaited calls come back: Dio's timeouts see to it.  Calls start, tokens  *)
(* expire and users log out when they like.                                 *)
FairSpec == Spec /\ \A c \in Calls : WF_vars(Step(c))

-----------------------------------------------------------------------------
(* Types, and that sessions never run out.                                  *)
TypeOK ==
  /\ active \subseteq Sessions /\ next \in 2 .. LastSession + 1
  /\ access \in Sessions \cup {0} /\ refresh \in Sessions \cup {0}
  /\ flight \in Calls \cup {None}
  /\ \A c \in Calls : call[c].tok < next /\ call[c].new < next

Running == {c \in Calls : call[c].pc \in
  {"read", "ask", "found", "revoked", "granted", "persist", "denied", "clear"}}

(* However many calls meet a 401 at once, one refresh runs at a time, and   *)
(* waiting calls wait for one that runs.                                    *)
OneRefresh ==
  /\ Running = IF flight = None THEN {} ELSE {flight}
  /\ \A c \in Calls : At(c, "wait") => flight # None

(* While nothing fails or is lost, a user who is logged in keeps his        *)
(* session: out of a refresh, the refresh token the app stores is the only  *)
(* one since his login that the server still takes.  (A logout revokes      *)
(* nothing.)                                                                *)
SessionKept ==
  (faults = 0 /\ user = "in" /\ flight = None /\ floor # 0)
    => (refresh # 0 /\ {n \in active : n >= floor} = {refresh})

(* A logout that does not end in the middle of a refresh is for good: no    *)
(* call still on its way brings the session back, neither before the next   *)
(* login nor in its place.  Said of the refresh token; an access token may  *)
(* stay, until it expires, when a refresh ran between the two deletions.    *)
LogoutSticks == floor # 0 => refresh = 0 \/ refresh >= floor

(* Every call is answered: a 401 leads to one refresh and one retry, never  *)
(* to a wait without end.  Said of failing calls and repositories, not of a *)
(* failing storage.                                                         *)
CallsEnd == \A c \in Calls : At(c, "sent") ~> At(c, "done")
=============================================================================
