------------------------------- MODULE Wallet -------------------------------
(***************************************************************************)
(* The wallet of the user service: WalletService over walletRepository.    *)
(*                                                                         *)
(* ApplyTransaction is one database transaction: SELECT ... FOR UPDATE,    *)
(* INSERT when the user has no wallet yet, a change of the row in memory,  *)
(* an UPDATE, an INSERT in wallet_transactions and the COMMIT.  Several    *)
(* sessions run such transactions at once; nothing a session wrote is      *)
(* visible before it commits, a second session waits for the first one to  *)
(* end, and a session may be rolled back at any step (an SQL error, a      *)
(* request context cancelled by a client that gave up, a crash).           *)
(*                                                                         *)
(* Data left out: ids and timestamps.  wallet_transactions is kept as its  *)
(* sums by user and type.                                                  *)
(***************************************************************************)
EXTENDS Integers

CONSTANTS
  Users,        \* wallet owners
  Sessions,     \* database sessions serving requests at the same time
  Amounts,      \* the amounts clients send
  MinTopUp, MaxTopUp,   \* WalletServiceConfig.MinTopUpAmount, MaxTopUpAmount
  MaxBooked,    \* bound of the model: no more is booked by user and type
  NoUser, NoSession

ASSUME ConstantsOK ==
  /\ Amounts \subseteq Nat \ {0}
  /\ MinTopUp \in Nat /\ MaxTopUp \in Nat /\ MaxBooked \in Nat
  /\ NoUser \notin Users /\ NoSession \notin Sessions

VARIABLES
  wallets,   \* the committed rows of wallets
  books,     \* the committed rows of wallet_transactions, summed
  holder,    \* who holds a user's row lock, or has inserted the row and not committed
  tx         \* what each session is doing

vars == <<wallets, books, holder, tx>>

Types  == {"topup", "deduction", "reward"}
NoRow  == [balance |-> -1, points |-> -1]
Zero   == [balance |-> 0, points |-> 0]
Rows   == [balance : Int, points : Int]

Idle == [pc |-> "idle", op |-> "none", user |-> NoUser, amount |-> 0,
         row |-> NoRow, dirty |-> NoRow, entry |-> 0]

(* The transaction holds the lock of its user from the SELECT or INSERT on. *)
Locking == {"apply", "save", "log", "commit"}

Init ==
  /\ wallets = [u \in Users |-> NoRow]
  /\ books = [u \in Users |-> [type \in Types |-> 0]]
  /\ holder = [u \in Users |-> NoSession]
  /\ tx = [s \in Sessions |-> Idle]

At(s, pc)   == tx[s].pc = pc
Goto(s, pc) == tx' = [tx EXCEPT ![s].pc = pc]
End(s)      == tx' = [tx EXCEPT ![s] = Idle]
Free(u)     == holder[u] = NoSession

Begin(s, op, u, a, pc) ==
  /\ At(s, "idle")
  /\ tx' = [tx EXCEPT ![s] = [pc |-> pc, op |-> op, user |-> u, amount |-> a,
                              row |-> NoRow, dirty |-> NoRow, entry |-> 0]]
  /\ UNCHANGED <<wallets, books, holder>>

-----------------------------------------------------------------------------
(* WalletService.ApplyTransaction: what the service lets through.          *)
Valid(type, a) == type = "topup" => MinTopUp <= a /\ a <= MaxTopUp

StartApply(s, u, type, a) ==
  /\ Valid(type, a)
  /\ books[u][type] + a <= MaxBooked
  /\ Begin(s, type, u, a, "select")

\* Mutant of Select: a plain SELECT, without FOR UPDATE.
SelectUnlocked(s) ==
  LET u == tx[s].user
  IN  /\ At(s, "select")
      /\ \/ /\ wallets[u] # NoRow
            /\ tx' = [tx EXCEPT ![s].pc = "apply", ![s].row = wallets[u]]
         \/ wallets[u] = NoRow /\ Goto(s, "insert")
      /\ UNCHANGED <<wallets, books, holder>>

(* SELECT ... FOR UPDATE sees committed rows only and waits for the lock.  *)
Select(s) ==
  LET u == tx[s].user
  IN  /\ At(s, "select")
      /\ \/ /\ wallets[u] # NoRow /\ Free(u)
            /\ holder' = [holder EXCEPT ![u] = s]
            /\ tx' = [tx EXCEPT ![s].pc = "apply", ![s].row = wallets[u]]
         \/ wallets[u] = NoRow /\ Goto(s, "insert") /\ UNCHANGED holder
      /\ UNCHANGED <<wallets, books>>

(* The INSERT of a first wallet waits for a rival's INSERT to be decided.  *)
Insert(s) ==
  LET u == tx[s].user
  IN  /\ At(s, "insert") /\ Free(u)
      /\ \/ /\ wallets[u] = NoRow
            /\ holder' = [holder EXCEPT ![u] = s]
            /\ tx' = [tx EXCEPT ![s].pc = "apply", ![s].row = Zero]
         \/ wallets[u] # NoRow /\ End(s) /\ UNCHANGED holder    \* duplicate key
      /\ UNCHANGED <<wallets, books>>

Unlock(s) == holder' = [holder EXCEPT ![tx[s].user] = NoSession]

(* The row in memory after the switch on the transaction's type.           *)
Changed(row, type, a) ==
  [balance |-> CASE type = "topup" -> row.balance + a
                 [] type = "deduction" -> row.balance - a
                 [] OTHER -> row.balance,
   points  |-> IF type = "reward" THEN row.points + a ELSE row.points]

\* Mutant of Covered: a deduction is never refused.
CoveredAlways(row, type, a) == TRUE

Covered(row, type, a) == type = "deduction" => row.balance >= a

Apply(s) ==
  LET t == tx[s]
  IN  /\ At(s, "apply")
      /\ \/ /\ Covered(t.row, t.op, t.amount)
            /\ tx' = [tx EXCEPT ![s].pc = "save", ![s].row = Changed(@, t.op, t.amount)]
            /\ UNCHANGED holder
         \/ ~Covered(t.row, t.op, t.amount) /\ End(s) /\ Unlock(s)   \* insufficient funds
      /\ UNCHANGED <<wallets, books>>

Save(s) ==
  /\ At(s, "save")
  /\ tx' = [tx EXCEPT ![s].pc = "log", ![s].dirty = tx[s].row]
  /\ UNCHANGED <<wallets, books, holder>>

Log(s) ==
  /\ At(s, "log")
  /\ tx' = [tx EXCEPT ![s].pc = "commit", ![s].entry = tx[s].amount]
  /\ UNCHANGED <<wallets, books, holder>>

\* Mutant of Commit: a COMMIT whose answer was lost is run a second time.
CommitTwice(s) ==
  LET t == tx[s]
  IN  /\ At(s, "commit")
      /\ wallets' = [wallets EXCEPT ![t.user] = Changed(t.dirty, t.op, t.amount)]
      /\ books' = [books EXCEPT ![t.user][t.op] = @ + 2 * t.entry]
      /\ Unlock(s) /\ End(s)

Commit(s) ==
  LET t == tx[s]
  IN  /\ At(s, "commit")
      /\ wallets' = [wallets EXCEPT ![t.user] = t.dirty]
      /\ books' = [books EXCEPT ![t.user][t.op] = @ + t.entry]
      /\ Unlock(s) /\ End(s)

Rollback(s) ==
  /\ At(s, "select") \/ At(s, "insert") \/ tx[s].pc \in Locking
  /\ IF tx[s].pc \in Locking THEN Unlock(s) ELSE UNCHANGED holder
  /\ End(s)
  /\ UNCHANGED <<wallets, books>>

-----------------------------------------------------------------------------
(* walletRepository.Get, behind Summary, EnsureBalanceForTrip and the      *)
(* reward of 0 points: find the row or create it, in no transaction.       *)

StartGet(s, u) == Begin(s, "get", u, 0, "read")

Read(s) ==
  /\ At(s, "read")
  /\ \/ wallets[tx[s].user] # NoRow /\ End(s)
     \/ wallets[tx[s].user] = NoRow /\ Goto(s, "create")
  /\ UNCHANGED <<wallets, books, holder>>

\* Mutant of Create: a duplicate key makes it insert again.
CreateRetries(s) ==
  LET u == tx[s].user
  IN  /\ At(s, "create") /\ Free(u)
      /\ \/ wallets[u] = NoRow /\ wallets' = [wallets EXCEPT ![u] = Zero] /\ End(s)
         \/ wallets[u] # NoRow /\ UNCHANGED <<wallets, tx>>
      /\ UNCHANGED <<books, holder>>

Create(s) ==
  LET u == tx[s].user
  IN  /\ At(s, "create") /\ Free(u)
      /\ \/ wallets[u] = NoRow /\ wallets' = [wallets EXCEPT ![u] = Zero]
         \/ wallets[u] # NoRow /\ UNCHANGED wallets              \* duplicate key
      /\ End(s)
      /\ UNCHANGED <<books, holder>>

-----------------------------------------------------------------------------
Start(s) ==
  \E u \in Users :
    \/ StartGet(s, u)
    \/ \E type \in Types, a \in Amounts : StartApply(s, u, type, a)

Step(s) ==
  \/ Select(s) \/ Insert(s) \/ Apply(s) \/ Save(s) \/ Log(s) \/ Commit(s)
  \/ Read(s) \/ Create(s)

Next == \E s \in Sessions : Start(s) \/ Step(s) \/ Rollback(s)

Spec == Init /\ [][Next]_vars

(* A session goes on by itself.  Strong fairness for the two steps that    *)
(* wait: PostgreSQL queues the waiters of a row, so one is not passed over *)
(* for ever.  Nothing obliges clients to send, or a transaction to fail.   *)
Fairness ==
  \A s \in Sessions :
    /\ WF_vars(Step(s))
    /\ SF_vars(Select(s)) /\ SF_vars(Insert(s)) /\ SF_vars(Create(s))

FairSpec == Spec /\ Fairness

-----------------------------------------------------------------------------
Pcs == {"idle", "select", "insert", "apply", "save", "log", "commit", "read", "create"}

Txs == [pc : Pcs, op : Types \cup {"get", "none"}, user : Users \cup {NoUser},
        amount : Amounts \cup {0}, row : Rows, dirty : Rows, entry : Amounts \cup {0}]

(* Type invariant.                                                         *)
TypeOK ==
  /\ wallets \in [Users -> Rows]
  /\ books \in [Users -> [Types -> Nat]]
  /\ holder \in [Users -> Sessions \cup {NoSession}]
  /\ tx \in [Sessions -> Txs]

(* The wallet a user has, 0 before the row exists.                         *)
Wallet(u) == IF wallets[u] = NoRow THEN Zero ELSE wallets[u]

(* The rows and the history agree: what was topped up less what was        *)
(* deducted is the balance, and what was rewarded is the points, however   *)
(* transactions of several sessions interleave and wherever one of them is *)
(* rolled back, the first transaction of a user without a row included.    *)
BooksBalance ==
  \A u \in Users : /\ Wallet(u).balance = books[u]["topup"] - books[u]["deduction"]
                   /\ Wallet(u).points = books[u]["reward"]

(* Deductions that raced for the same money never overdraw it.             *)
NoOverdraft == \A u \in Users : Wallet(u).balance >= 0

(* Each request ends, by its result or an error: sessions do not block one *)
(* another for ever, since a transaction locks one row and gives it back   *)
(* on every path.                                                          *)
RequestsEnd == \A s \in Sessions : ~At(s, "idle") ~> At(s, "idle")

(* Seen from outside, transactions happen one at a time and all at once:   *)
(* a session's reads and writes take effect together, at its COMMIT.       *)
Ledger == INSTANCE WalletLedger WITH
            balance <- [u \in Users |-> Wallet(u).balance],
            points  <- [u \in Users |-> Wallet(u).points]

ImplementsLedger == Ledger!Spec
=============================================================================
