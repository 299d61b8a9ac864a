-------------------------- MODULE AppSessionProofs --------------------------
(***************************************************************************)
(* Proofs about AppSession for every finite set of calls and any faults.   *)
(***************************************************************************)
EXTENDS AppSession, FiniteSetTheorems, TLAPS

Pcs == {"start", "sent", "retry", "refused", "welcome", "enter", "wait", "read", "ask",
        "found", "revoked", "granted", "persist", "denied", "clear", "done"}
CallTypes == [pc : Pcs, login : BOOLEAN, tok : Nat, new : Nat, retried : BOOLEAN]

(* The types TypeOK bounds; a token is none or one that was issued.        *)
Token(n) == n \in Nat /\ n < next

Types ==
  /\ active \subseteq 1 .. next - 1 /\ next \in Nat /\ next >= 2
  /\ Token(access) /\ Token(refresh) /\ flight \in Calls \cup {None}
  /\ user \in {"in", "leaving", "out"} /\ faults \in Nat
  /\ floor \in Nat /\ floor <= next
  /\ call \in [Calls -> CallTypes]
  /\ \A c \in Calls : Token(call[c].tok) /\ Token(call[c].new)

(* How a call is after a failure, after a 401 and before its retry.        *)
Ended == [pc |-> "done", login |-> FALSE, tok |-> 0, new |-> 0, retried |-> FALSE]
RefusedAs(login) ==
  [pc |-> "refused", login |-> login, tok |-> 0, new |-> 0, retried |-> FALSE]

(* A step of one call, which ends as the record q.                         *)
Moves(c, q) == q \in CallTypes /\ call' = [call EXCEPT ![c] = q]

LEMMA GotoMoves ==
  ASSUME Types, NEW c \in Calls, NEW pc \in Pcs, Goto(c, pc)
  PROVE  Moves(c, [call[c] EXCEPT !.pc = pc])
  BY DEF Types, CallTypes, Goto, Moves

LEMMA EndMoves ==
  ASSUME Types, NEW c \in Calls, End(c)
  PROVE  Moves(c, Ended)
  BY DEF Types, CallTypes, End, Moves, Fresh, Pcs, Ended

LEMMA SendMoves ==
  ASSUME Types, NEW c \in Calls, NEW login \in BOOLEAN, Send(c, login)
  PROVE  Moves(c, [call[c] EXCEPT !.pc = "sent", !.login = login, !.tok = access])
  BY DEF Types, CallTypes, Send, Moves, Pcs, Token

LEMMA GrantMoves ==
  ASSUME Types, NEW c \in Calls, NEW pc \in Pcs, Grant(c, pc)
  PROVE  Moves(c, [call[c] EXCEPT !.pc = pc, !.new = next])
  BY DEF Types, CallTypes, Grant, Moves

LEMMA UnauthorizedMoves ==
  ASSUME Types, NEW c \in Calls, Unauthorized(c)
  PROVE  \/ call[c].retried /\ Moves(c, Ended)
         \/ ~call[c].retried /\ Moves(c, RefusedAs(call[c].login))
  BY EndMoves DEF Types, CallTypes, Unauthorized, Moves, Fresh, Pcs, RefusedAs

LEMMA ReadMoves ==
  ASSUME Types, NEW c \in Calls, call' = [call EXCEPT ![c].pc = "ask", ![c].tok = refresh]
  PROVE  Moves(c, [call[c] EXCEPT !.pc = "ask", !.tok = refresh])
  BY DEF Types, CallTypes, Moves, Pcs, Token

-----------------------------------------------------------------------------
(* Sessions do not run out: a call that may still refresh, and one that may *)
(* still be granted a login, has a session left for it.                    *)
MayRefresh == {c \in Calls : ~call[c].retried /\ call[c].pc \in
  {"start", "sent", "refused", "wait", "read", "ask", "found", "revoked"}}
MayLogin == {c \in Calls : At(c, "start")
               \/ (call[c].login /\ call[c].pc \notin {"welcome", "enter", "done"})}
SessionsLeft == next + Cardinality(MayRefresh) + Cardinality(MayLogin) <= LastSession + 1

(* One call at a time logs in, while the user is out.                      *)
Logins ==
  /\ \A c, d \in Calls : call[c].login /\ call[d].login => c = d
  /\ \A c \in Calls :
       /\ call[c].login => user = "out"
       /\ call[c].pc \in {"welcome", "enter"} => call[c].login
       /\ call[c].pc \in {"start", "done"} => ~call[c].login

(* A call that is retried refreshes no more.                               *)
RefreshesOnce ==
  \A c \in Calls :
    /\ At(c, "retry") => call[c].retried
    /\ call[c].pc \in {"refused", "wait", "read", "ask", "found", "revoked"}
         => ~call[c].retried

(* What is about to be stored was issued since the last logout.            *)
GrantIsNew ==
  \A c \in Calls : call[c].pc \in {"granted", "persist", "welcome", "enter"}
                    => call[c].new # 0 /\ call[c].new >= floor

(* What a refresh has made of the one session there is.                    *)
Alive == {n \in active : n >= floor}
RefreshFits(c) ==
  /\ At(c, "read") => refresh # 0 /\ Alive = {refresh}
  /\ call[c].pc \in {"ask", "found"} =>
       refresh # 0 /\ call[c].tok = refresh /\ Alive = {refresh}
  /\ At(c, "revoked") => Alive = {}
  /\ call[c].pc \in {"granted", "persist"} => Alive = {call[c].new}
  /\ call[c].pc \notin {"denied", "clear"}

WhileIn ==
  user # "out" =>
    /\ flight = None => refresh # 0 /\ Alive = {refresh}
    /\ \A c \in Calls : RefreshFits(c)

WhileOut ==
  user = "out" =>
    /\ refresh = 0
    /\ \A c \in Running : At(c, "read")
    /\ (\A c \in Calls : call[c].pc \notin {"welcome", "enter"}) => Alive = {}
    /\ \A c \in Calls : call[c].pc \in {"welcome", "enter"} => Alive = {call[c].new}

Kept == (faults = 0 /\ floor # 0) => WhileIn /\ WhileOut

IInv ==
  /\ Types /\ SessionsLeft /\ Logins /\ RefreshesOnce /\ OneRefresh
  /\ GrantIsNew /\ LogoutSticks /\ Kept

LEMMA FewerLeft ==
  ASSUME Types, SessionsLeft, next' = next,
         MayRefresh' \subseteq MayRefresh, MayLogin' \subseteq MayLogin
  PROVE  SessionsLeft'
  <1>1. /\ IsFiniteSet(MayRefresh) /\ IsFiniteSet(MayLogin) /\ IsFiniteSet(Calls)
        /\ LastSession' = LastSession
    <2>1. MayRefresh \subseteq Calls /\ MayLogin \subseteq Calls
      BY DEF MayRefresh, MayLogin
    <2> QED BY <2>1, FS_Subset, ConstantsOK DEF LastSession
  <1>2. /\ Cardinality(MayRefresh') <= Cardinality(MayRefresh)
        /\ Cardinality(MayLogin') <= Cardinality(MayLogin)
        /\ IsFiniteSet(MayRefresh') /\ IsFiniteSet(MayLogin')
    BY <1>1, FS_Subset
  <1>3. /\ Cardinality(MayRefresh) \in Nat /\ Cardinality(MayLogin) \in Nat
        /\ Cardinality(MayRefresh') \in Nat /\ Cardinality(MayLogin') \in Nat
        /\ LastSession \in Nat
    BY <1>1, <1>2, FS_CardinalityType DEF LastSession
  <1> QED BY <1>1, <1>2, <1>3 DEF SessionsLeft, Types

LEMMA OneIssued ==
  ASSUME Types, SessionsLeft, next' = next + 1, NEW c \in Calls,
         \/ c \in MayRefresh /\ MayRefresh' \subseteq MayRefresh \ {c}
              /\ MayLogin' \subseteq MayLogin
         \/ c \in MayLogin /\ MayLogin' \subseteq MayLogin \ {c}
              /\ MayRefresh' \subseteq MayRefresh
  PROVE  SessionsLeft'
  <1>1. /\ IsFiniteSet(MayRefresh) /\ IsFiniteSet(MayLogin) /\ IsFiniteSet(Calls)
        /\ LastSession' = LastSession
    <2>1. MayRefresh \subseteq Calls /\ MayLogin \subseteq Calls
      BY DEF MayRefresh, MayLogin
    <2> QED BY <2>1, FS_Subset, ConstantsOK DEF LastSession
  <1>2. /\ IsFiniteSet(MayRefresh \ {c}) /\ IsFiniteSet(MayLogin \ {c})
        /\ c \in MayRefresh => Cardinality(MayRefresh \ {c}) = Cardinality(MayRefresh) - 1
        /\ c \in MayLogin => Cardinality(MayLogin \ {c}) = Cardinality(MayLogin) - 1
    BY <1>1, FS_RemoveElement
  <1>3. /\ \/ /\ Cardinality(MayRefresh') <= Cardinality(MayRefresh) - 1
              /\ Cardinality(MayLogin') <= Cardinality(MayLogin)
           \/ /\ Cardinality(MayRefresh') <= Cardinality(MayRefresh)
              /\ Cardinality(MayLogin') <= Cardinality(MayLogin) - 1
        /\ IsFiniteSet(MayRefresh') /\ IsFiniteSet(MayLogin')
    BY <1>1, <1>2, FS_Subset
  <1>4. /\ Cardinality(MayRefresh) \in Nat /\ Cardinality(MayLogin) \in Nat
        /\ Cardinality(MayRefresh') \in Nat /\ Cardinality(MayLogin') \in Nat
        /\ LastSession \in Nat
    BY <1>1, <1>3, FS_CardinalityType DEF LastSession
  <1> QED BY <1>1, <1>3, <1>4 DEF SessionsLeft, Types

LEMMA InitIInv == Init => IInv
  <1> SUFFICES ASSUME Init PROVE IInv
    OBVIOUS
  <1>1. Types
    BY DEF Init, Types, CallTypes, Pcs, Fresh, Token
  <1>2. SessionsLeft
    <2>1. MayRefresh = Calls /\ MayLogin = Calls
      BY DEF Init, MayRefresh, MayLogin, At, Fresh
    <2>2. Cardinality(Calls) \in Nat
      BY FS_CardinalityType, ConstantsOK
    <2> QED BY <2>1, <2>2 DEF Init, SessionsLeft, LastSession
  <1>3. Logins /\ RefreshesOnce /\ GrantIsNew /\ LogoutSticks
    BY DEF Init, Logins, RefreshesOnce, GrantIsNew, LogoutSticks, At, Fresh
  <1>4. OneRefresh
    BY ConstantsOK DEF Init, OneRefresh, Running, At, Fresh
  <1>5. Kept
    BY DEF Init, Kept, WhileIn, WhileOut, RefreshFits, Alive, Running, At, Fresh
  <1> QED BY <1>1, <1>2, <1>3, <1>4, <1>5 DEF IInv

-----------------------------------------------------------------------------
LEMMA OnUnauthorizedStep ==
  ASSUME IInv, NEW c \in Calls, OnUnauthorized(c)
  PROVE  IInv'
  <1>1. \/ /\ Moves(c, [call[c] EXCEPT !.pc = "read"])
           /\ flight = None /\ flight' = c
        \/ /\ Moves(c, [call[c] EXCEPT !.pc = "wait"])
           /\ flight # None /\ flight' = flight
    <2>1. "read" \in Pcs /\ "wait" \in Pcs
      BY DEF Pcs
    <2> QED BY <2>1, GotoMoves DEF OnUnauthorized, IInv
  <1>2. /\ call[c] \in CallTypes /\ At(c, "refused")
        /\ UNCHANGED <<server, expired, store, user, faults, floor>>
    BY DEF OnUnauthorized, IInv, Types
  <1>3. Types'
    BY <1>1, <1>2 DEF IInv, Types, Token, Moves, server, store, CallTypes
  <1>4. SessionsLeft'
    <2>1. MayRefresh' \subseteq MayRefresh /\ MayLogin' \subseteq MayLogin
      BY <1>1, <1>2 DEF IInv, Types, RefreshesOnce, Logins, MayRefresh, MayLogin, At, Moves,
         CallTypes
    <2> QED BY <2>1, <1>1, <1>2, FewerLeft DEF IInv, server
  <1>5. Logins' /\ RefreshesOnce' /\ GrantIsNew' /\ LogoutSticks'
    BY <1>1, <1>2 DEF IInv, Types, Logins, RefreshesOnce, GrantIsNew, LogoutSticks, At, Moves,
      CallTypes, server, store
  <1>6. OneRefresh'
    BY <1>1, <1>2, ConstantsOK DEF IInv, Types, OneRefresh, Running, At, Moves, CallTypes
  <1>7. Kept'
    BY <1>1, <1>2 DEF IInv, Types, OneRefresh, Kept, WhileIn, WhileOut, RefreshFits, Alive,
      Running, Logins, GrantIsNew, At, Moves, CallTypes, server, store
  <1> QED BY <1>3, <1>4, <1>5, <1>6, <1>7 DEF IInv

LEMMA StartStep ==
  ASSUME IInv, NEW c \in Calls, NEW login \in BOOLEAN, Start(c, login)
  PROVE  IInv'
  <1>1. Moves(c, [call[c] EXCEPT !.pc = "sent", !.login = login, !.tok = access])
    BY SendMoves DEF Start, IInv
  <1>2. /\ call[c] \in CallTypes /\ At(c, "start")
        /\ login => user = "out" /\ \A d \in Calls : ~call[d].login
        /\ UNCHANGED <<server, expired, store, flight, user, faults, floor>>
    BY DEF Start, LoggingIn, IInv, Types
  <1>3. Types'
    BY <1>1, <1>2 DEF IInv, Types, Token, Moves, server, store, CallTypes
  <1>4. SessionsLeft'
    <2>1. MayRefresh' \subseteq MayRefresh /\ MayLogin' \subseteq MayLogin
      BY <1>1, <1>2 DEF IInv, Types, RefreshesOnce, Logins, MayRefresh, MayLogin, At, Moves,
         CallTypes
    <2> QED BY <2>1, <1>1, <1>2, FewerLeft DEF IInv, server
  <1>5. Logins' /\ RefreshesOnce' /\ GrantIsNew' /\ LogoutSticks'
    BY <1>1, <1>2 DEF IInv, Types, Logins, RefreshesOnce, GrantIsNew, LogoutSticks, At, Moves,
      CallTypes, server, store
  <1>6. OneRefresh'
    BY <1>1, <1>2, ConstantsOK DEF IInv, Types, OneRefresh, Running, At, Moves, CallTypes
  <1>7. Kept'
    BY <1>1, <1>2 DEF IInv, Types, OneRefresh, Kept, WhileIn, WhileOut, RefreshFits, Alive,
      Running, Logins, GrantIsNew, At, Moves, CallTypes, server, store
  <1> QED BY <1>3, <1>4, <1>5, <1>6, <1>7 DEF IInv

(* A call that is answered, or whose answer is given up.                   *)
LEMMA EndStep ==
  ASSUME IInv, NEW c \in Calls, Moves(c, Ended),
         call[c].pc \in {"sent", "retry"}, faults' \in Nat /\ faults' >= faults,
         UNCHANGED <<server, expired, store, flight, user, floor>>
  PROVE  IInv'
  <1>1. call[c] \in CallTypes /\ (faults' = 0 => faults = 0)
    BY DEF IInv, Types
  <1> USE DEF Ended
  <1>3. Types'
    BY <1>1 DEF IInv, Types, Token, Moves, server, store, CallTypes
  <1>4. SessionsLeft'
    <2>1. MayRefresh' \subseteq MayRefresh /\ MayLogin' \subseteq MayLogin
      BY <1>1 DEF IInv, Types, RefreshesOnce, Logins, MayRefresh, MayLogin, At, Moves,
        CallTypes
    <2> QED BY <2>1, <1>1, FewerLeft DEF IInv, server
  <1>5. Logins' /\ RefreshesOnce' /\ GrantIsNew' /\ LogoutSticks'
    BY <1>1 DEF IInv, Types, Logins, RefreshesOnce, GrantIsNew, LogoutSticks, At, Moves,
      CallTypes, server, store
  <1>6. OneRefresh'
    BY <1>1, ConstantsOK DEF IInv, Types, OneRefresh, Running, At, Moves, CallTypes
  <1>7. Kept'
    BY <1>1 DEF IInv, Types, OneRefresh, Kept, WhileIn, WhileOut, RefreshFits, Alive,
      Running, Logins, GrantIsNew, At, Moves, CallTypes, server, store
  <1> QED BY <1>3, <1>4, <1>5, <1>6, <1>7 DEF IInv

(* A call whose 401 it is to act on.                                       *)
LEMMA RefusedStep ==
  ASSUME IInv, NEW c \in Calls, NEW login \in BOOLEAN, Moves(c, RefusedAs(login)),
         login => call[c].login, At(c, "sent"), ~call[c].retried,
         UNCHANGED <<server, expired, store, flight, user, faults, floor>>
  PROVE  IInv'
  <1> USE DEF RefusedAs
  <1>1. call[c] \in CallTypes
    BY DEF IInv, Types
  <1>3. Types'
    BY <1>1 DEF IInv, Types, Token, Moves, server, store, CallTypes
  <1>4. SessionsLeft'
    <2>1. MayRefresh' \subseteq MayRefresh /\ MayLogin' \subseteq MayLogin
      BY <1>1 DEF IInv, Types, RefreshesOnce, Logins, MayRefresh, MayLogin, At, Moves,
        CallTypes
    <2> QED BY <2>1, <1>1, FewerLeft DEF IInv, server
  <1>5. Logins' /\ RefreshesOnce' /\ GrantIsNew' /\ LogoutSticks'
    BY <1>1 DEF IInv, Types, Logins, RefreshesOnce, GrantIsNew, LogoutSticks, At, Moves,
      CallTypes, server, store
  <1>6. OneRefresh'
    BY <1>1, ConstantsOK DEF IInv, Types, OneRefresh, Running, At, Moves, CallTypes
  <1>7. Kept'
    BY <1>1 DEF IInv, Types, OneRefresh, Kept, WhileIn, WhileOut, RefreshFits, Alive,
      Running, Logins, GrantIsNew, At, Moves, CallTypes, server, store
  <1> QED BY <1>3, <1>4, <1>5, <1>6, <1>7 DEF IInv

LEMMA RetryStep ==
  ASSUME IInv, NEW c \in Calls, Retry(c)
  PROVE  IInv'
  <1>0. CASE access = 0
    <2>1. Moves(c, Ended)
      BY <1>0, EndMoves DEF Retry, IInv
    <2>2. faults' \in Nat /\ faults' >= faults
      BY DEF Retry, IInv, Types
    <2> QED BY <2>1, <2>2, EndStep DEF Retry, At
  <1>1. CASE access # 0
    <2>1. PICK login \in BOOLEAN :
            call[c].login = login /\ call[c] \in CallTypes /\ At(c, "retry")
      BY DEF IInv, Types, CallTypes, Retry
    <2>2. Moves(c, [call[c] EXCEPT !.pc = "sent", !.login = login, !.tok = access])
      BY <1>1, <2>1, SendMoves DEF Retry, IInv
    <2>3. /\ UNCHANGED <<server, expired, store, flight, user, faults, floor>>
          /\ login => call[c].login
      BY <2>1 DEF Retry
    <2>4. Types'
    BY <2>1, <2>2, <2>3 DEF IInv, Types, Token, Moves, server, store, CallTypes
    <2>5. SessionsLeft'
      <3>1. MayRefresh' \subseteq MayRefresh /\ MayLogin' \subseteq MayLogin
      BY <2>1, <2>2, <2>3 DEF IInv, Types, RefreshesOnce, Logins, MayRefresh, MayLogin, At, Moves,
        CallTypes
      <3> QED BY <3>1, <2>1, <2>2, <2>3, FewerLeft DEF IInv, server
    <2>6. Logins' /\ RefreshesOnce' /\ GrantIsNew' /\ LogoutSticks'
    BY <2>1, <2>2, <2>3 DEF IInv, Types, Logins, RefreshesOnce, GrantIsNew, LogoutSticks, At, Moves,
      CallTypes, server, store
    <2>7. OneRefresh'
    BY <2>1, <2>2, <2>3, ConstantsOK DEF IInv, Types, OneRefresh, Running, At, Moves, CallTypes
    <2>8. Kept'
    BY <2>1, <2>2, <2>3 DEF IInv, Types, OneRefresh, Kept, WhileIn, WhileOut, RefreshFits, Alive,
      Running, Logins, GrantIsNew, At, Moves, CallTypes, server, store
    <2> QED BY <2>4, <2>5, <2>6, <2>7, <2>8 DEF IInv
  <1> QED BY <1>0, <1>1

LEMMA RespondStep ==
  ASSUME IInv, NEW c \in Calls, Respond(c)
  PROVE  IInv'
  <1>1. \/ Moves(c, Ended)
        \/ ~call[c].retried /\ Moves(c, RefusedAs(call[c].login))
    BY EndMoves, UnauthorizedMoves DEF Respond, IInv
  <1>2. /\ faults' \in Nat /\ faults' >= faults
        /\ UNCHANGED <<server, expired, store, flight, user, faults, floor>>
    BY DEF Respond, IInv, Types
  <1>3. PICK login \in BOOLEAN : login = call[c].login
    BY DEF IInv, Types, CallTypes
  <1> QED BY <1>1, <1>2, <1>3, EndStep, RefusedStep DEF Respond, At

LEMMA FindActiveStep ==
  ASSUME IInv, NEW c \in Calls, FindActive(c)
  PROVE  IInv'
  <1>1. \/ call[c].tok \in active /\ Moves(c, [call[c] EXCEPT !.pc = "found"])
        \/ call[c].tok \notin active /\ Moves(c, [call[c] EXCEPT !.pc = "denied"])
    <2>1. "found" \in Pcs /\ "denied" \in Pcs
      BY DEF Pcs
    <2> QED BY <2>1, GotoMoves DEF FindActive, IInv
  <1>2. /\ call[c] \in CallTypes /\ At(c, "ask")
        /\ UNCHANGED <<server, expired, store, flight, user, faults, floor>>
    BY DEF FindActive, IInv, Types
  <1>3. Types'
    BY <1>1, <1>2 DEF IInv, Types, Token, Moves, server, store, CallTypes
  <1>4. SessionsLeft'
    <2>1. MayRefresh' \subseteq MayRefresh /\ MayLogin' \subseteq MayLogin
      BY <1>1, <1>2 DEF IInv, Types, RefreshesOnce, Logins, MayRefresh, MayLogin, At, Moves,
         CallTypes
    <2> QED BY <2>1, <1>1, <1>2, FewerLeft DEF IInv, server
  <1>5. Logins' /\ RefreshesOnce' /\ GrantIsNew' /\ LogoutSticks'
    BY <1>1, <1>2 DEF IInv, Types, Logins, RefreshesOnce, GrantIsNew, LogoutSticks, At, Moves,
      CallTypes, server, store
  <1>6. OneRefresh'
    BY <1>1, <1>2, ConstantsOK DEF IInv, Types, OneRefresh, Running, At, Moves, CallTypes
  <1>7. Kept'
    BY <1>1, <1>2 DEF IInv, Types, OneRefresh, Kept, WhileIn, WhileOut, RefreshFits, Alive,
      Running, Logins, GrantIsNew, At, Moves, CallTypes, server, store
  <1> QED BY <1>3, <1>4, <1>5, <1>6, <1>7 DEF IInv

LEMMA RevokeStep ==
  ASSUME IInv, NEW c \in Calls, Revoke(c)
  PROVE  IInv'
  <1>1. Moves(c, [call[c] EXCEPT !.pc = "revoked"])
    <2>1. "revoked" \in Pcs
      BY DEF Pcs
    <2> QED BY <2>1, GotoMoves DEF Revoke, IInv
  <1>2. /\ call[c] \in CallTypes /\ At(c, "found") /\ active' = active \ {call[c].tok}
        /\ UNCHANGED <<next, expired, store, flight, user, faults, floor>>
    BY DEF Revoke, IInv, Types
  <1>3. Types'
    BY <1>1, <1>2 DEF IInv, Types, Token, Moves, server, store, CallTypes
  <1>4. SessionsLeft'
    <2>1. MayRefresh' \subseteq MayRefresh /\ MayLogin' \subseteq MayLogin
      BY <1>1, <1>2 DEF IInv, Types, RefreshesOnce, Logins, MayRefresh, MayLogin, At, Moves,
         CallTypes
    <2> QED BY <2>1, <1>1, <1>2, FewerLeft DEF IInv, server
  <1>5. Logins' /\ RefreshesOnce' /\ GrantIsNew' /\ LogoutSticks'
    BY <1>1, <1>2 DEF IInv, Types, Logins, RefreshesOnce, GrantIsNew, LogoutSticks, At, Moves,
      CallTypes, server, store
  <1>6. OneRefresh'
    BY <1>1, <1>2, ConstantsOK DEF IInv, Types, OneRefresh, Running, At, Moves, CallTypes
  <1>7. Kept'
    BY <1>1, <1>2 DEF IInv, Types, OneRefresh, Kept, WhileIn, WhileOut, RefreshFits, Alive,
      Running, Logins, GrantIsNew, At, Moves, CallTypes, server, store
  <1> QED BY <1>3, <1>4, <1>5, <1>6, <1>7 DEF IInv

LEMMA PersistAccessStep ==
  ASSUME IInv, NEW c \in Calls, PersistAccess(c)
  PROVE  IInv'
  <1>1. \/ At(c, "granted") /\ Moves(c, [call[c] EXCEPT !.pc = "persist"])
        \/ At(c, "welcome") /\ Moves(c, [call[c] EXCEPT !.pc = "enter"])
    <2>1. "persist" \in Pcs /\ "enter" \in Pcs
      BY DEF Pcs
    <2> QED BY <2>1, GotoMoves DEF PersistAccess, IInv
  <1>2. /\ call[c] \in CallTypes /\ access' = call[c].new
        /\ UNCHANGED <<server, expired, refresh, flight, user, faults, floor>>
    BY DEF PersistAccess, IInv, Types
  <1>3. Types'
    BY <1>1, <1>2 DEF IInv, Types, Token, Moves, server, store, CallTypes
  <1>4. SessionsLeft'
    <2>1. MayRefresh' \subseteq MayRefresh /\ MayLogin' \subseteq MayLogin
      BY <1>1, <1>2 DEF IInv, Types, RefreshesOnce, Logins, MayRefresh, MayLogin, At, Moves,
         CallTypes
    <2> QED BY <2>1, <1>1, <1>2, FewerLeft DEF IInv, server
  <1>5. Logins' /\ RefreshesOnce' /\ GrantIsNew' /\ LogoutSticks'
    BY <1>1, <1>2 DEF IInv, Types, Logins, RefreshesOnce, GrantIsNew, LogoutSticks, At, Moves,
      CallTypes, server, store
  <1>6. OneRefresh'
    BY <1>1, <1>2, ConstantsOK DEF IInv, Types, OneRefresh, Running, At, Moves, CallTypes
  <1>7. Kept'
    BY <1>1, <1>2 DEF IInv, Types, OneRefresh, Kept, WhileIn, WhileOut, RefreshFits, Alive,
      Running, Logins, GrantIsNew, At, Moves, CallTypes, server, store
  <1> QED BY <1>3, <1>4, <1>5, <1>6, <1>7 DEF IInv

LEMMA ClearAccessStep ==
  ASSUME IInv, NEW c \in Calls, ClearAccess(c)
  PROVE  IInv'
  <1>1. Moves(c, [call[c] EXCEPT !.pc = "clear"])
    <2>1. "clear" \in Pcs
      BY DEF Pcs
    <2> QED BY <2>1, GotoMoves DEF ClearAccess, IInv
  <1>2. /\ call[c] \in CallTypes /\ At(c, "denied") /\ access' = 0
        /\ UNCHANGED <<server, expired, refresh, flight, user, faults, floor>>
    BY DEF ClearAccess, IInv, Types
  <1>3. Types'
    BY <1>1, <1>2 DEF IInv, Types, Token, Moves, server, store, CallTypes
  <1>4. SessionsLeft'
    <2>1. MayRefresh' \subseteq MayRefresh /\ MayLogin' \subseteq MayLogin
      BY <1>1, <1>2 DEF IInv, Types, RefreshesOnce, Logins, MayRefresh, MayLogin, At, Moves,
         CallTypes
    <2> QED BY <2>1, <1>1, <1>2, FewerLeft DEF IInv, server
  <1>5. Logins' /\ RefreshesOnce' /\ GrantIsNew' /\ LogoutSticks'
    BY <1>1, <1>2 DEF IInv, Types, Logins, RefreshesOnce, GrantIsNew, LogoutSticks, At, Moves,
      CallTypes, server, store
  <1>6. OneRefresh'
    BY <1>1, <1>2, ConstantsOK DEF IInv, Types, OneRefresh, Running, At, Moves, CallTypes
  <1>7. Kept'
    BY <1>1, <1>2 DEF IInv, Types, OneRefresh, Kept, WhileIn, WhileOut, RefreshFits, Alive,
      Running, Logins, GrantIsNew, At, Moves, CallTypes, server, store
  <1> QED BY <1>3, <1>4, <1>5, <1>6, <1>7 DEF IInv

LEMMA FailCallStep ==
  ASSUME IInv, NEW c \in Calls, FailCall(c)
  PROVE  IInv'
  <1>1. \/ call[c].pc \in {"ask", "revoked"} /\ Moves(c, [call[c] EXCEPT !.pc = "denied"])
        \/ At(c, "found") /\ Moves(c, [call[c] EXCEPT !.pc = "revoked"])
    <2>1. "denied" \in Pcs /\ "revoked" \in Pcs
      BY DEF Pcs
    <2> QED BY <2>1, GotoMoves DEF FailCall, IInv
  <1>2. /\ call[c] \in CallTypes /\ faults' = faults + 1
        /\ UNCHANGED <<server, expired, store, flight, user, floor>>
    BY DEF FailCall, IInv, Types
  <1>3. Types'
    BY <1>1, <1>2 DEF IInv, Types, Token, Moves, server, store, CallTypes
  <1>4. SessionsLeft'
    <2>1. MayRefresh' \subseteq MayRefresh /\ MayLogin' \subseteq MayLogin
      BY <1>1, <1>2 DEF IInv, Types, RefreshesOnce, Logins, MayRefresh, MayLogin, At, Moves,
         CallTypes
    <2> QED BY <2>1, <1>1, <1>2, FewerLeft DEF IInv, server
  <1>5. Logins' /\ RefreshesOnce' /\ GrantIsNew' /\ LogoutSticks'
    BY <1>1, <1>2 DEF IInv, Types, Logins, RefreshesOnce, GrantIsNew, LogoutSticks, At, Moves,
      CallTypes, server, store
  <1>6. OneRefresh'
    BY <1>1, <1>2, ConstantsOK DEF IInv, Types, OneRefresh, Running, At, Moves, CallTypes
  <1>7. Kept'
    BY <1>1, <1>2 DEF IInv, Types, OneRefresh, Kept, WhileIn, WhileOut, RefreshFits, Alive,
      Running, Logins, GrantIsNew, At, Moves, CallTypes, server, store
  <1> QED BY <1>3, <1>4, <1>5, <1>6, <1>7 DEF IInv

LEMMA IssueStep ==
  ASSUME IInv, NEW c \in Calls, Issue(c)
  PROVE  IInv'
  <1>1. Moves(c, [call[c] EXCEPT !.pc = "granted", !.new = next])
    <2>1. "granted" \in Pcs
      BY DEF Pcs
    <2> QED BY <2>1, GrantMoves DEF Issue, IInv
  <1>2. /\ call[c] \in CallTypes /\ At(c, "revoked")
        /\ active' = active \cup {next} /\ next' = next + 1
        /\ UNCHANGED <<expired, store, flight, user, faults, floor>>
    BY DEF Issue, NewSession, IInv, Types
  <1>3. Types'
    BY <1>1, <1>2 DEF IInv, Types, Token, Moves, server, store, CallTypes
  <1>4. SessionsLeft'
    <2>1. /\ c \in MayRefresh /\ MayRefresh' \subseteq MayRefresh \ {c}
          /\ MayLogin' \subseteq MayLogin
      BY <1>1, <1>2 DEF IInv, Types, RefreshesOnce, Logins, MayRefresh, MayLogin, At, Moves,
         CallTypes
    <2> QED BY <2>1, <1>2, OneIssued DEF IInv
  <1>5. Logins' /\ RefreshesOnce' /\ GrantIsNew' /\ LogoutSticks'
    BY <1>1, <1>2 DEF IInv, Types, Logins, RefreshesOnce, GrantIsNew, LogoutSticks, At, Moves,
      CallTypes, server, store
  <1>6. OneRefresh'
    BY <1>1, <1>2, ConstantsOK DEF IInv, Types, OneRefresh, Running, At, Moves, CallTypes
  <1>7. Kept'
    BY <1>1, <1>2 DEF IInv, Types, OneRefresh, Kept, WhileIn, WhileOut, RefreshFits, Alive,
      Running, Logins, GrantIsNew, At, Moves, CallTypes, server, store
  <1> QED BY <1>3, <1>4, <1>5, <1>6, <1>7 DEF IInv

(* A login is granted.                                                     *)
LEMMA WelcomeStep ==
  ASSUME IInv, NEW c \in Calls, At(c, "sent"), call[c].login,
         Moves(c, [call[c] EXCEPT !.pc = "welcome", !.new = next]),
         active' = active \cup {next}, next' = next + 1,
         UNCHANGED <<expired, store, flight, user, faults, floor>>
  PROVE  IInv'
  <1>1. call[c] \in CallTypes /\ user = "out" /\ next # 0
    BY DEF IInv, Types, Logins
  <1>2. \A d \in Calls : d # c => call[d].pc \notin {"welcome", "enter"}
    BY DEF IInv, Logins
  <1>3. Types'
    BY <1>1, <1>2 DEF IInv, Types, Token, Moves, server, store, CallTypes
  <1>4. SessionsLeft'
    <2>1. /\ c \in MayLogin /\ MayLogin' \subseteq MayLogin \ {c}
          /\ MayRefresh' \subseteq MayRefresh
      BY <1>1 DEF IInv, Types, RefreshesOnce, Logins, MayRefresh, MayLogin, At, Moves,
        CallTypes
    <2> QED BY <2>1, <1>1, OneIssued DEF IInv
  <1>5. Logins' /\ RefreshesOnce' /\ GrantIsNew' /\ LogoutSticks'
    BY <1>1, <1>2 DEF IInv, Types, Logins, RefreshesOnce, GrantIsNew, LogoutSticks, At, Moves,
      CallTypes, server, store
  <1>6. OneRefresh'
    BY <1>1, <1>2, ConstantsOK DEF IInv, Types, OneRefresh, Running, At, Moves, CallTypes
  <1>7. Kept'
    BY <1>1, <1>2 DEF IInv, Types, OneRefresh, Kept, WhileIn, WhileOut, RefreshFits, Alive,
      Running, Logins, GrantIsNew, At, Moves, CallTypes, server, store
  <1> QED BY <1>3, <1>4, <1>5, <1>6, <1>7 DEF IInv

LEMMA RespondLoginStep ==
  ASSUME IInv, NEW c \in Calls, RespondLogin(c)
  PROVE  IInv'
  <1>1. "welcome" \in Pcs
    BY DEF Pcs
  <1>2. CASE NewSession /\ Grant(c, "welcome")
    BY <1>1, <1>2, GrantMoves, WelcomeStep DEF RespondLogin, NewSession, IInv
  <1>3. CASE (Unauthorized(c) \/ End(c)) /\ UNCHANGED server
    <2>1. \/ Moves(c, Ended)
          \/ ~call[c].retried /\ Moves(c, RefusedAs(call[c].login))
      BY <1>3, EndMoves, UnauthorizedMoves DEF IInv
    <2>2. /\ faults' \in Nat /\ faults' >= faults
          /\ UNCHANGED <<server, expired, store, flight, user, faults, floor>>
      BY <1>3 DEF RespondLogin, IInv, Types
    <2>3. PICK login \in BOOLEAN : login = call[c].login
      BY DEF IInv, Types, CallTypes
    <2> QED BY <2>1, <2>2, <2>3, EndStep, RefusedStep DEF RespondLogin, At
  <1> QED BY <1>2, <1>3 DEF RespondLogin

(* The answer to a login that was granted is lost.                         *)
LEMMA LoseLoginStep ==
  ASSUME IInv, NEW c \in Calls, At(c, "sent"), call[c].login, Moves(c, Ended),
         active' = active \cup {next}, next' = next + 1, faults' = faults + 1,
         UNCHANGED <<expired, store, flight, user, floor>>
  PROVE  IInv'
  <1> USE DEF Ended
  <1>1. call[c] \in CallTypes
    BY DEF IInv, Types
  <1>3. Types'
    BY <1>1 DEF IInv, Types, Token, Moves, server, store, CallTypes
  <1>4. SessionsLeft'
    <2>1. /\ c \in MayLogin /\ MayLogin' \subseteq MayLogin \ {c}
          /\ MayRefresh' \subseteq MayRefresh
      BY <1>1 DEF IInv, Types, RefreshesOnce, Logins, MayRefresh, MayLogin, At, Moves,
        CallTypes
    <2> QED BY <2>1, <1>1, OneIssued DEF IInv
  <1>5. Logins' /\ RefreshesOnce' /\ GrantIsNew' /\ LogoutSticks'
    BY <1>1 DEF IInv, Types, Logins, RefreshesOnce, GrantIsNew, LogoutSticks, At, Moves,
      CallTypes, server, store
  <1>6. OneRefresh'
    BY <1>1, ConstantsOK DEF IInv, Types, OneRefresh, Running, At, Moves, CallTypes
  <1>7. Kept'
    BY <1>1 DEF IInv, Types, OneRefresh, Kept, WhileIn, WhileOut, RefreshFits, Alive,
      Running, Logins, GrantIsNew, At, Moves, CallTypes, server, store
  <1> QED BY <1>3, <1>4, <1>5, <1>6, <1>7 DEF IInv

(* The answer to a refresh is lost, wherever the server is with it.        *)
LEMMA LoseRefreshStep ==
  ASSUME IInv, NEW c \in Calls, call[c].pc \in {"ask", "found", "revoked", "granted"},
         Moves(c, [call[c] EXCEPT !.pc = "denied"]), faults' = faults + 1,
         \/ /\ active' \subseteq active /\ next' = next
         \/ /\ active' \subseteq active \cup {next} /\ next' = next + 1
            /\ call[c].pc # "granted",
         UNCHANGED <<expired, store, flight, user, floor>>
  PROVE  IInv'
  <1>1. call[c] \in CallTypes
    BY DEF IInv, Types
  <1>3. Types'
    BY <1>1 DEF IInv, Types, Token, Moves, server, store, CallTypes
  <1>4. SessionsLeft'
    <2>1. /\ MayRefresh' \subseteq MayRefresh \ {c} /\ MayLogin' \subseteq MayLogin
          /\ call[c].pc # "granted" => c \in MayRefresh
      BY <1>1 DEF IInv, Types, RefreshesOnce, Logins, MayRefresh, MayLogin, At, Moves,
        CallTypes
    <2>2. CASE next' = next
      BY <2>1, <2>2, FewerLeft DEF IInv
    <2>3. CASE next' = next + 1 /\ call[c].pc # "granted"
      BY <2>1, <2>3, OneIssued DEF IInv
    <2> QED BY <2>2, <2>3
  <1>5. Logins' /\ RefreshesOnce' /\ GrantIsNew' /\ LogoutSticks'
    BY <1>1 DEF IInv, Types, Logins, RefreshesOnce, GrantIsNew, LogoutSticks, At, Moves,
      CallTypes, server, store
  <1>6. OneRefresh'
    BY <1>1, ConstantsOK DEF IInv, Types, OneRefresh, Running, At, Moves, CallTypes
  <1>7. Kept'
    BY <1>1 DEF IInv, Types, OneRefresh, Kept, WhileIn, WhileOut, RefreshFits, Alive,
      Running, Logins, GrantIsNew, At, Moves, CallTypes, server, store
  <1> QED BY <1>3, <1>4, <1>5, <1>6, <1>7 DEF IInv

LEMMA LoseAnswerStep ==
  ASSUME IInv, NEW c \in Calls, LoseAnswer(c)
  PROVE  IInv'
  <1>1. faults' = faults + 1 /\ faults' \in Nat /\ faults' >= faults
    BY DEF LoseAnswer, IInv, Types
  <1>2. CASE At(c, "sent") /\ End(c) /\ UNCHANGED server
    BY <1>1, <1>2, EndMoves, EndStep DEF LoseAnswer, IInv, At
  <1>3. CASE At(c, "sent") /\ End(c) /\ call[c].login /\ NewSession
    BY <1>1, <1>3, EndMoves, LoseLoginStep DEF LoseAnswer, IInv, NewSession
  <1>4. CASE /\ call[c].pc \in {"ask", "found", "revoked", "granted"}
             /\ Goto(c, "denied")
             /\ \E o \in Outcomes(c) : active' = o[1] /\ next' = o[2]
    <2>1. "denied" \in Pcs
      BY DEF Pcs
    <2>2. \/ /\ active' \subseteq active /\ next' = next
          \/ /\ active' \subseteq active \cup {next} /\ next' = next + 1
             /\ call[c].pc # "granted"
      BY <1>4 DEF Outcomes, At
    <2> QED BY <1>1, <1>4, <2>1, <2>2, GotoMoves, LoseRefreshStep DEF LoseAnswer, IInv
  <1> QED BY <1>2, <1>3, <1>4 DEF LoseAnswer

-----------------------------------------------------------------------------
(* The refresh ends, for the call that ran it and for those that waited.   *)
LEMMA CompleteFacts ==
  ASSUME IInv, NEW c \in Calls, c \in Running, NEW ok \in BOOLEAN, Complete(c, ok)
  PROVE  /\ flight = c /\ flight' = None
         /\ call' \in [Calls -> CallTypes]
         /\ \A d \in Calls :
              \/ /\ d # c /\ ~At(d, "wait") /\ call'[d] = call[d] /\ d \notin Running
              \/ /\ call'[d].tok = 0 /\ call'[d].new = 0 /\ call[d].pc # "start"
                 /\ d = c \/ At(d, "wait")
                 /\ \/ /\ call'[d].pc = "retry" /\ call'[d].retried
                       /\ call'[d].login => call[d].login
                    \/ call'[d].pc = "done" /\ ~call'[d].login
  <1>1. flight = c /\ \A d \in Calls : d \in Running => d = c
    BY DEF IInv, OneRefresh
  <1>2. \A d \in Calls : call[d] \in CallTypes
    BY DEF IInv, Types
  <1>3. CASE ok
    BY <1>1, <1>2, <1>3 DEF Complete, Fresh, CallTypes, Pcs, At, Running
  <1>4. CASE ~ok
    BY <1>1, <1>2, <1>4 DEF Complete, Fresh, CallTypes, Pcs, At, Running
  <1> QED BY <1>3, <1>4

LEMMA CompleteStep ==
  ASSUME IInv, NEW c \in Calls, c \in Running, NEW ok \in BOOLEAN, Complete(c, ok),
         Token(refresh'), floor # 0 => refresh' = 0 \/ refresh' >= floor,
         faults = 0 /\ floor # 0 =>
           \/ user = "out" /\ refresh' = 0
           \/ user # "out" /\ refresh' # 0 /\ Alive = {refresh'},
         UNCHANGED <<server, expired, access, user, faults, floor>>
  PROVE  IInv'
  <1>1. Types'
    BY CompleteFacts DEF IInv, Types, Token, server
  <1>2. SessionsLeft'
    <2>1. MayRefresh' \subseteq MayRefresh /\ MayLogin' \subseteq MayLogin
      BY CompleteFacts DEF MayRefresh, MayLogin, At, Running
    <2> QED BY <2>1, FewerLeft DEF IInv, server
  <1>3. Logins'
    BY CompleteFacts DEF IInv, Logins, Running
  <1>4. RefreshesOnce' /\ GrantIsNew' /\ LogoutSticks'
    BY CompleteFacts DEF IInv, RefreshesOnce, GrantIsNew, LogoutSticks, At
  <1>5. OneRefresh'
    BY CompleteFacts, ConstantsOK DEF IInv, OneRefresh, Running, At
  <1>6. Kept'
    <2>1. Running' = {}
      BY CompleteFacts DEF Running
    <2>2. \A d \in Calls :
            call'[d].pc \in {"welcome", "enter"} <=> call[d].pc \in {"welcome", "enter"}
      BY CompleteFacts DEF Running, At
    <2>3. \A d \in Calls : call'[d].pc \in {"welcome", "enter"} => call'[d] = call[d]
      BY CompleteFacts
    <2>4. Alive' = Alive
      BY DEF Alive, server
    <2> QED BY <2>1, <2>2, <2>3, <2>4 DEF IInv, Kept, WhileIn, WhileOut, RefreshFits, Running, At
  <1> QED BY <1>1, <1>2, <1>3, <1>4, <1>5, <1>6 DEF IInv

LEMMA ReadRefreshStep ==
  ASSUME IInv, NEW c \in Calls, ReadRefresh(c)
  PROVE  IInv'
  <1>1. CASE refresh = 0
    <2>1. c \in Running /\ Complete(c, FALSE)
      BY <1>1 DEF ReadRefresh, Running, At
    <2>2. faults = 0 /\ floor # 0 => user = "out"
      BY <1>1 DEF ReadRefresh, IInv, Kept, WhileIn, RefreshFits
    <2> QED BY <1>1, <2>1, <2>2, CompleteStep DEF ReadRefresh, IInv, Types, Token, store
  <1>2. CASE refresh # 0
    <2>1. Moves(c, [call[c] EXCEPT !.pc = "ask", !.tok = refresh])
      BY <1>2, ReadMoves DEF ReadRefresh, IInv
    <2>2. /\ call[c] \in CallTypes /\ At(c, "read")
          /\ UNCHANGED <<server, expired, store, flight, user, faults, floor>>
      BY <1>2 DEF ReadRefresh, IInv, Types
    <2>3. Types'
      BY <1>2, <2>1, <2>2 DEF IInv, Types, Token, Moves, server, store, CallTypes
    <2>4. SessionsLeft'
      <3>1. MayRefresh' \subseteq MayRefresh /\ MayLogin' \subseteq MayLogin
        BY <1>2, <2>1, <2>2 DEF IInv, Types, RefreshesOnce, Logins, MayRefresh, MayLogin, At, Moves,
          CallTypes
      <3> QED BY <3>1, <1>2, <2>1, <2>2, FewerLeft DEF IInv, server
    <2>5. Logins' /\ RefreshesOnce' /\ GrantIsNew' /\ LogoutSticks'
      BY <1>2, <2>1, <2>2 DEF IInv, Types, Logins, RefreshesOnce, GrantIsNew, LogoutSticks, At,
         Moves,
        CallTypes, server, store
    <2>6. OneRefresh'
      BY <1>2, <2>1, <2>2, ConstantsOK DEF IInv, Types, OneRefresh, Running, At, Moves, CallTypes
    <2>7. Kept'
      BY <1>2, <2>1, <2>2 DEF IInv, Types, OneRefresh, Kept, WhileIn, WhileOut, RefreshFits, Alive,
        Running, Logins, GrantIsNew, At, Moves, CallTypes, server, store
    <2> QED BY <2>3, <2>4, <2>5, <2>6, <2>7 DEF IInv
  <1> QED BY <1>1, <1>2

LEMMA PersistRefreshStep ==
  ASSUME IInv, NEW c \in Calls, PersistRefresh(c)
  PROVE  IInv'
  <1>0. /\ call[c] \in CallTypes /\ refresh' = call[c].new /\ Token(refresh')
        /\ UNCHANGED <<server, expired, access, faults, floor>>
    BY DEF PersistRefresh, IInv, Types, Token, server
  <1>1. CASE At(c, "persist") /\ Complete(c, TRUE) /\ UNCHANGED user
    <2>1. c \in Running /\ refresh' # 0 /\ (floor # 0 => refresh' >= floor)
      BY <1>0, <1>1 DEF Running, At, IInv, GrantIsNew
    <2>2. faults = 0 /\ floor # 0 => user # "out" /\ Alive = {refresh'}
      BY <1>0, <1>1, <2>1 DEF IInv, Types, Kept, WhileIn, WhileOut, RefreshFits, At
    <2> QED BY <1>0, <1>1, <2>1, <2>2, CompleteStep
  <1>2. CASE At(c, "enter") /\ End(c) /\ user' = "in" /\ UNCHANGED flight
    <2> USE DEF Ended
    <2>1. Moves(c, Ended)
      BY <1>2, EndMoves DEF IInv
    <2>2. /\ call[c].login /\ user = "out" /\ refresh' # 0 /\ refresh' >= floor
          /\ \A d \in Calls : d # c => ~call[d].login
      BY <1>0, <1>2 DEF IInv, Logins, GrantIsNew, At
    <2>3. Types'
      BY <1>0, <1>2, <2>1 DEF IInv, Types, Token, Moves, server, CallTypes
    <2>4. SessionsLeft'
      <3>1. MayRefresh' \subseteq MayRefresh /\ MayLogin' \subseteq MayLogin
        BY <1>2, <2>1 DEF IInv, Types, MayRefresh, MayLogin, At, Moves, CallTypes
      <3> QED BY <3>1, <1>0, FewerLeft DEF IInv, server
    <2>5. Logins' /\ RefreshesOnce' /\ GrantIsNew' /\ LogoutSticks'
      BY <1>0, <1>2, <2>1, <2>2 DEF IInv, Types, Logins, RefreshesOnce, GrantIsNew,
        LogoutSticks, At, Moves, CallTypes
    <2>6. OneRefresh'
      BY <1>2, <2>1, ConstantsOK DEF IInv, Types, OneRefresh, Running, At, Moves, CallTypes
    <2>7. Kept'
      <3>1. faults = 0 /\ floor # 0 => Alive = {call[c].new} /\ \A d \in Running : At(d, "read")
        BY <1>2, <2>2 DEF IInv, Kept, WhileOut, At
      <3>2. Alive' = Alive
        BY <1>0 DEF Alive, server
      <3> QED BY <1>0, <1>2, <2>1, <2>2, <3>1, <3>2 DEF IInv, Types, Kept, WhileIn, WhileOut,
        RefreshFits, Running, At, Moves, CallTypes
    <2> QED BY <2>3, <2>4, <2>5, <2>6, <2>7 DEF IInv
  <1> QED BY <1>1, <1>2 DEF PersistRefresh

LEMMA ClearRefreshStep ==
  ASSUME IInv, NEW c \in Calls, ClearRefresh(c)
  PROVE  IInv'
  <1>1. c \in Running /\ Complete(c, FALSE) /\ refresh' = 0
    BY DEF ClearRefresh, Running, At
  <1>2. faults = 0 /\ floor # 0 => user = "out"
    BY DEF ClearRefresh, IInv, Kept, WhileIn, RefreshFits, At
  <1>3. Token(refresh')
    BY <1>1 DEF IInv, Types, Token
  <1>4. UNCHANGED <<server, expired, access, user, faults, floor>>
    BY DEF ClearRefresh
  <1> QED BY <1>1, <1>2, <1>3, <1>4, CompleteStep

-----------------------------------------------------------------------------
(* What no call does: tokens expire, the user logs out.                    *)
LEMMA ExpireStep ==
  ASSUME IInv, UNCHANGED <<server, store, flight, call, user, faults, floor>>
  PROVE  IInv'
  BY DEF server, store, IInv, Types, Token, SessionsLeft, MayRefresh, MayLogin, LastSession,
    Logins, RefreshesOnce, OneRefresh, Running, GrantIsNew, LogoutSticks, Kept, WhileIn,
    WhileOut, RefreshFits, Alive, At

LEMMA CallsRest ==
  ASSUME IInv, UNCHANGED <<next, flight, call>>, user = "out" => user' = "out"
  PROVE  SessionsLeft' /\ Logins' /\ RefreshesOnce' /\ OneRefresh'
  BY DEF IInv, SessionsLeft, MayRefresh, MayLogin, LastSession, Logins, RefreshesOnce,
    OneRefresh, Running, At

LEMMA ExpireRefreshStep ==
  ASSUME IInv, ExpireRefresh
  PROVE  IInv'
  <1>1. /\ faults' = faults + 1 /\ faults \in Nat /\ active' = {}
        /\ UNCHANGED <<next, store, flight, call, user, floor>>
    BY DEF ExpireRefresh, IInv, Types
  <1>2. Types' /\ GrantIsNew' /\ LogoutSticks' /\ Kept'
    BY <1>1 DEF IInv, Types, Token, GrantIsNew, LogoutSticks, Kept, store
  <1> QED BY <1>1, <1>2, CallsRest DEF IInv

LEMMA RemoveAccessStep ==
  ASSUME IInv, RemoveAccess
  PROVE  IInv'
  <1>1. /\ user = "in" /\ user' = "leaving" /\ access' = 0
        /\ UNCHANGED <<server, refresh, flight, call, faults, floor>>
    BY DEF RemoveAccess
  <1>2. Types' /\ GrantIsNew' /\ LogoutSticks'
    BY <1>1 DEF IInv, Types, Token, GrantIsNew, LogoutSticks, server
  <1>3. Kept'
    BY <1>1 DEF IInv, Kept, WhileIn, WhileOut, RefreshFits, Alive, At, server
  <1> QED BY <1>1, <1>2, <1>3, CallsRest, ConstantsOK DEF IInv, server, Logins

LEMMA RemoveRefreshStep ==
  ASSUME IInv, RemoveRefresh
  PROVE  IInv'
  <1>1. /\ user = "leaving" /\ user' = "out" /\ refresh' = 0
        /\ floor' = IF flight = None THEN next ELSE 0
        /\ UNCHANGED <<server, access, flight, call, faults>>
    BY DEF RemoveRefresh, LoggedOut
  <1>2. Types' /\ LogoutSticks'
    BY <1>1 DEF IInv, Types, Token, LogoutSticks, server
  <1>3. /\ \A c \in Calls : call[c].pc \notin {"welcome", "enter"}
        /\ flight = None => Running = {}
    BY <1>1 DEF IInv, Logins, OneRefresh
  <1>4. GrantIsNew'
    BY <1>1, <1>3 DEF IInv, Types, CallTypes, Running, GrantIsNew
  <1>5. Kept'
    <2> SUFFICES ASSUME flight = None, floor' = next PROVE WhileOut' /\ user' = "out"
      BY <1>1 DEF Kept, WhileIn
    <2>1. Alive' = {}
      <3>1. active \subseteq 1 .. next - 1 /\ next \in Nat
        BY DEF IInv, Types
      <3>2. \A n \in active' : ~(n >= floor')
        BY <3>1, <1>1 DEF server
      <3> QED BY <3>2 DEF Alive
    <2>2. Running' = {}
      BY <1>1, <1>3 DEF Running
    <2> QED BY <1>1, <1>3, <2>1, <2>2 DEF WhileOut
  <1> QED BY <1>1, <1>2, <1>4, <1>5, CallsRest DEF IInv, server

-----------------------------------------------------------------------------
LEMMA NextIInv == IInv /\ [Next]_vars => IInv'
  <1> SUFFICES ASSUME IInv, [Next]_vars PROVE IInv'
    OBVIOUS
  <1>1. ASSUME NEW c \in Calls, Start(c, TRUE) \/ Start(c, FALSE) PROVE IInv'
    BY <1>1, StartStep
  <1>2. ASSUME NEW c \in Calls, Step(c) PROVE IInv'
    BY <1>2, RetryStep, RespondStep, RespondLoginStep, OnUnauthorizedStep, ReadRefreshStep,
      FindActiveStep, RevokeStep, IssueStep, PersistAccessStep, PersistRefreshStep,
      ClearAccessStep, ClearRefreshStep DEF Step, Refresh
  <1>3. ASSUME NEW c \in Calls, LoseAnswer(c) \/ FailCall(c) PROVE IInv'
    BY <1>3, LoseAnswerStep, FailCallStep
  <1>4. ASSUME NEW n \in Sessions, Expire(n) PROVE IInv'
    BY <1>4, ExpireStep DEF Expire
  <1>5. CASE ExpireRefresh \/ RemoveAccess \/ RemoveRefresh
    BY <1>5, ExpireRefreshStep, RemoveAccessStep, RemoveRefreshStep
  <1>6. CASE UNCHANGED vars
    BY <1>6, ExpireStep DEF vars
  <1> QED BY <1>1, <1>2, <1>3, <1>4, <1>5, <1>6 DEF Next

LEMMA IInvAlways == Spec => []IInv
  BY InitIInv, NextIInv, PTL DEF Spec

(* Types, and that the sessions counted on are enough for every call to    *)
(* refresh and to log in once.                                             *)
THEOREM TypeCorrect == Spec => []TypeOK
  <1>1. IInv => TypeOK
    <2> SUFFICES ASSUME IInv PROVE TypeOK
      OBVIOUS
    <2>1. MayRefresh \subseteq Calls /\ MayLogin \subseteq Calls
      BY DEF MayRefresh, MayLogin
    <2>2. /\ Cardinality(MayRefresh) \in Nat /\ Cardinality(MayLogin) \in Nat
          /\ Cardinality(Calls) \in Nat
      BY <2>1, FS_Subset, FS_CardinalityType, ConstantsOK
    <2>3. LastSession \in Nat /\ next <= LastSession + 1
      BY <2>2 DEF IInv, Types, SessionsLeft, LastSession
    <2> QED BY <2>3 DEF IInv, Types, Token, TypeOK, Sessions
  <1> QED BY <1>1, IInvAlways, PTL

(* However many calls meet a 401 at once, one refresh runs at a time.      *)
THEOREM RefreshesAreOne == Spec => []OneRefresh
  BY IInvAlways, PTL DEF IInv

(* While nothing fails, a user who is logged in keeps his session: the     *)
(* refresh token the app stores is the one that the server takes.          *)
THEOREM SessionsAreKept == Spec => []SessionKept
  <1>1. IInv => SessionKept
    BY DEF IInv, Kept, WhileIn, Alive, SessionKept
  <1> QED BY <1>1, IInvAlways, PTL

(* A logout that does not end in the middle of a refresh is for good.      *)
THEOREM LogoutsStick == Spec => []LogoutSticks
  BY IInvAlways, PTL DEF IInv
=============================================================================
