---------------------------- MODULE Notifications ---------------------------
(***************************************************************************)
(* Notifications and the devices they are pushed to: notification.Service  *)
(* (internal/notification/service.go, fcm_sender.go) over the tables       *)
(* notifications and device_tokens (internal/db) and its routes            *)
(* (handlers/notifications.go).                                            *)
(*                                                                         *)
(* A device belongs to the user who registered it last: a registration     *)
(* deletes the token's rows and inserts its own in one transaction, at     *)
(* READ COMMITTED.  What else keeps a token to one user depends on the     *)
(* schema: the monolith's index makes the token unique, the user-service's *)
(* only the user and the token together.                                   *)
(*                                                                         *)
(* A trip's changes are stored as a notification and then pushed to the    *)
(* devices the user has by then, 500 at a time.                            *)
(***************************************************************************)
EXTENDS Naturals, Sequences, FiniteSets

CONSTANTS
  Users,
  Tokens,     \* device tokens
  Jobs,      \* concurrent requests
  NoUser, NoToken,
  ChunkSize,  \* devices in one multicast (500)
  MaxNotes    \* bound: notifications stored

ASSUME NotificationsOK ==
  /\ NoUser \notin Users /\ NoToken \notin Tokens
  /\ ChunkSize \in Nat \ {0} /\ MaxNotes \in Nat

VARIABLES
  unique,  \* what the UNIQUE index covers: "token", or "user and token"
  rows,    \* device_tokens: the committed pairs of a user and a token
  inbox,   \* notifications: whom each is for and whether it has been read
  job,    \* the requests
  owner    \* history: who registered each token last, undisturbed

inboxVars == <<unique, rows, inbox, job, owner>>

Schemas == {"token", "user and token"}

\* "gone" and "new" are what the transaction has deleted and inserted, "aim"
\* what its DELETE has found; "left" and "sent" are devices to push to, "ever"
\* and "always" (history) those the user has had since the note was stored.
NoJob == [pc |-> "idle", user |-> NoUser, token |-> NoToken, alone |-> TRUE,
         aim |-> {}, gone |-> {}, new |-> {},
         note |-> 0, left |-> {}, sent |-> {}, ever |-> {}, always |-> {}]

Doing(j, pc)   == job[j].pc = pc
EndJob(j)      == job' = [job EXCEPT ![j] = NoJob]

Devices(u)  == {k \in Tokens : <<u, k>> \in rows}
RowsOf(k)   == {row \in rows : row[2] = k}

InboxInit ==
  /\ unique \in Schemas
  /\ rows = {} /\ inbox = <<>>
  /\ job = [j \in Jobs |-> NoJob]
  /\ owner = [k \in Tokens |-> NoUser]

-----------------------------------------------------------------------------
(* RegisterDevice: BEGIN; DELETE; INSERT; COMMIT.                          *)

Registering(j, k) == job[j].pc \in {"delete", "lock", "insert", "commit"} /\ job[j].token = k

RegisterDevice(j, u, k) ==
  LET others == {d \in Jobs : Registering(d, k)}
  IN  /\ Doing(j, "idle")
      /\ job' = [d \in Jobs |->
           IF d = j THEN [NoJob EXCEPT !.pc = "delete", !.user = u, !.token = k,
                                      !.alone = others = {}]
           ELSE IF d \in others THEN [job[d] EXCEPT !.alone = FALSE]
           ELSE job[d]]
      /\ UNCHANGED <<unique, rows, inbox, owner>>

\* Mutant of Delete: it finds only the user's own row of the token.
DeleteOwn(j) ==
  /\ Doing(j, "delete")
  /\ job' = [job EXCEPT ![j].pc = "lock",
                          ![j].aim = rows \cap {<<job[j].user, job[j].token>>}]
  /\ UNCHANGED <<unique, rows, inbox, owner>>

(* The DELETE sees what is committed when it starts ...                    *)
Delete(j) ==
  /\ Doing(j, "delete")
  /\ job' = [job EXCEPT ![j].pc = "lock", ![j].aim = RowsOf(job[j].token)]
  /\ UNCHANGED <<unique, rows, inbox, owner>>

(* ... waits for transactions that have deleted the same rows, and skips   *)
(* those that are gone when they end.                                      *)
Lock(j) ==
  /\ Doing(j, "lock")
  /\ \A d \in Jobs \ {j} : job[d].gone \cap job[j].aim = {}
  /\ job' = [job EXCEPT ![j].pc = "insert", ![j].gone = job[j].aim \cap rows]
  /\ UNCHANGED <<unique, rows, inbox, owner>>

Clash(row, other) ==
  IF unique = "token" THEN row[2] = other[2] ELSE row = other

(* The INSERT waits for the transactions that decide on a row of its key.  *)
Undecided(j, row) ==
  \E d \in Jobs \ {j} : \E other \in job[d].gone \cup job[d].new : Clash(row, other)

Insert(j) ==
  LET row == <<job[j].user, job[j].token>>
  IN  /\ Doing(j, "insert") /\ ~Undecided(j, row)
      /\ IF \E other \in rows \ job[j].gone : Clash(row, other)
         THEN EndJob(j)     \* duplicate key: rolled back and answered 500
         ELSE job' = [job EXCEPT ![j].pc = "commit", ![j].new = {row}]
      /\ UNCHANGED <<unique, rows, inbox, owner>>

(* Other statements no longer find the rows that are gone, and the devices *)
(* of the users being notified change with the table.                      *)
Follow(j, d) ==
  IF job[d].pc \in {"list", "push", "pushed"}
  THEN LET now == {k \in Tokens : <<job[d].user, k>> \in rows'}
       IN  [job[d] EXCEPT !.ever = @ \cup now, !.always = @ \cap now]
  ELSE [job[d] EXCEPT !.aim = @ \ job[j].gone]

CommitRows(j) ==
  /\ rows' = (rows \ job[j].gone) \cup job[j].new
  /\ job' = [d \in Jobs |-> IF d = j THEN NoJob ELSE Follow(j, d)]

Commit(j) ==
  /\ Doing(j, "commit")
  /\ CommitRows(j)
  /\ owner' = [owner EXCEPT ![job[j].token] = IF job[j].alone THEN job[j].user ELSE NoUser]
  /\ UNCHANGED <<unique, inbox>>

(* A statement fails, the client gives up or the process stops: rolled     *)
(* back, or committed without an answer.                                   *)
RegisterFails(j) ==
  /\ Registering(j, job[j].token)
  /\ \/ EndJob(j) /\ UNCHANGED <<rows, owner>>
     \/ Doing(j, "commit") /\ CommitRows(j) /\ owner' = [owner EXCEPT ![job[j].token] = NoUser]
  /\ UNCHANGED <<unique, inbox>>

-----------------------------------------------------------------------------
(* NotifyRiderStatusChange, NotifyDriverTripAssigned and send.             *)

Notify(j, u) ==
  /\ Doing(j, "idle") /\ Len(inbox) < MaxNotes
  /\ job' = [job EXCEPT ![j] = [NoJob EXCEPT !.pc = "store", !.user = u]]
  /\ UNCHANGED <<unique, rows, inbox, owner>>

Unread(u) == [user |-> u, read |-> FALSE]

StoreNote(j) ==
  LET u == job[j].user
  IN  /\ Doing(j, "store") /\ Len(inbox) < MaxNotes
      /\ inbox' = Append(inbox, Unread(u))
      /\ job' = [job EXCEPT ![j].pc = "list", ![j].note = Len(inbox'),
                              ![j].ever = Devices(u), ![j].always = Devices(u)]
      /\ UNCHANGED <<unique, rows, owner>>

ListDevices(j) ==
  /\ Doing(j, "list")
  /\ IF Devices(job[j].user) = {} THEN EndJob(j)
     ELSE job' = [job EXCEPT ![j].pc = "push", ![j].left = Devices(job[j].user)]
  /\ UNCHANGED <<unique, rows, inbox, owner>>

\* Mutant of Push: only the first multicast is sent.
PushFirst(j) ==
  /\ Doing(j, "push")
  /\ \E chunk \in SUBSET job[j].left :
       /\ Cardinality(chunk) = ChunkSize \/ chunk = job[j].left
       /\ Cardinality(chunk) <= ChunkSize
       /\ job' = [job EXCEPT ![j].sent = @ \cup chunk, ![j].left = @ \ chunk,
                               ![j].pc = "pushed"]
  /\ UNCHANGED <<unique, rows, inbox, owner>>

(* One multicast; the last one ends the call.                              *)
Push(j) ==
  /\ Doing(j, "push")
  /\ \E chunk \in SUBSET job[j].left :
       /\ Cardinality(chunk) = ChunkSize \/ chunk = job[j].left
       /\ Cardinality(chunk) <= ChunkSize
       /\ job' = [job EXCEPT
            ![j].sent = @ \cup chunk, ![j].left = @ \ chunk,
            ![j].pc = IF chunk = job[j].left THEN "pushed" ELSE "push"]
  /\ UNCHANGED <<unique, rows, inbox, owner>>

EndPush(j) ==
  /\ Doing(j, "pushed")
  /\ EndJob(j)
  /\ UNCHANGED <<unique, rows, inbox, owner>>

(* The database or the push service refuses, or nothing is configured to   *)
(* push with.  The errors are logged; the trip's change stands.            *)
NotifyFails(j) ==
  /\ job[j].pc \in {"store", "list", "push"}
  /\ EndJob(j)
  /\ \/ UNCHANGED inbox
     \/ Doing(j, "store") /\ Len(inbox) < MaxNotes /\ inbox' = Append(inbox, Unread(job[j].user))
  /\ UNCHANGED <<unique, rows, owner>>

(* The two welcome notes of a new account, stored together by a goroutine  *)
(* that nobody waits for.                                                  *)
Welcome(u) ==
  /\ Len(inbox) + 2 <= MaxNotes
  /\ inbox' = inbox \o <<Unread(u), Unread(u)>>
  /\ UNCHANGED <<unique, rows, job, owner>>

(* PATCH /notifications/:id/read finds only a note of the user's own.      *)
MarkAsRead(u, n) ==
  /\ inbox[n].user = u
  /\ inbox' = [inbox EXCEPT ![n].read = TRUE]
  /\ UNCHANGED <<unique, rows, job, owner>>

Register(j) ==
  \/ \E u \in Users, k \in Tokens : RegisterDevice(j, u, k)
  \/ Delete(j) \/ Lock(j) \/ Insert(j) \/ Commit(j) \/ RegisterFails(j)

Send(j) ==
  \/ \E u \in Users : Notify(j, u)
  \/ StoreNote(j) \/ ListDevices(j) \/ Push(j) \/ EndPush(j) \/ NotifyFails(j)

InboxNext ==
  \/ \E j \in Jobs : Register(j) \/ Send(j)
  \/ \E u \in Users : Welcome(u) \/ \E n \in DOMAIN inbox : MarkAsRead(u, n)

InboxSpec == InboxInit /\ [][InboxNext]_inboxVars

-----------------------------------------------------------------------------
JobPcs == {"idle", "delete", "lock", "insert", "commit", "store", "list", "push", "pushed"}

(* Type invariant.                                                         *)
InboxTypeOK ==
  /\ unique \in Schemas
  /\ rows \subseteq Users \X Tokens
  /\ inbox \in Seq([user : Users, read : BOOLEAN]) /\ Len(inbox) <= MaxNotes
  /\ job \in [Jobs -> [pc : JobPcs, user : Users \cup {NoUser}, token : Tokens \cup {NoToken},
                       alone : BOOLEAN, aim : SUBSET (Users \X Tokens),
                       gone : SUBSET (Users \X Tokens), new : SUBSET (Users \X Tokens),
                       note : 0 .. MaxNotes, left : SUBSET Tokens, sent : SUBSET Tokens,
                       ever : SUBSET Tokens, always : SUBSET Tokens]]
  /\ owner \in [Tokens -> Users \cup {NoUser}]

(* A device follows its last registration: when that was answered with     *)
(* success and met no other registration of the token, the device is its   *)
(* user's and nobody else's, until another one succeeds.  Where the token  *)
(* is unique it never has two owners; where it is not, two registrations   *)
(* at once may leave it both.                                              *)
DeviceHasItsOwner ==
  \A k \in Tokens :
    /\ owner[k] # NoUser => RowsOf(k) = {<<owner[k], k>>}
    /\ unique = "token" => Cardinality(RowsOf(k)) <= 1

(* A push reaches the right devices: when all was sent, it went to every   *)
(* device the user has had since the note was stored, and to none that he  *)
(* did not have at any moment since, however devices change hands while it *)
(* is sent.  The note itself is in his inbox.                              *)
PushesReachOwners ==
  \A j \in Jobs :
    Doing(j, "pushed") =>
      /\ job[j].always \subseteq job[j].sent /\ job[j].sent \subseteq job[j].ever
      /\ inbox[job[j].note].user = job[j].user
=============================================================================
