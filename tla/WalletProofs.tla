---------------------------- MODULE WalletProofs ----------------------------
(***************************************************************************)
(* Proofs about Wallet for every set of users, sessions and amounts.       *)
(***************************************************************************)
EXTENDS Wallet, TLAPS

(* What a session knows while it works: from the SELECT on it holds the    *)
(* lock, so the row in its memory stays what the committed row, changed by *)
(* its own transaction, will be.                                           *)
Fits(s) ==
  LET t == tx[s]
  IN  /\ t.pc # "idle" => t.user \in Users
      /\ t.pc \in {"select", "insert"} \cup Locking => t.op \in Types /\ t.amount \in Amounts
      /\ t.pc \in Locking => holder[t.user] = s
      /\ t.pc = "apply" => t.row = Wallet(t.user)
      /\ t.pc \in {"save", "log", "commit"}
           => /\ t.row = Changed(Wallet(t.user), t.op, t.amount)
              /\ Covered(Wallet(t.user), t.op, t.amount)
      /\ t.pc \in {"log", "commit"} => t.dirty = t.row
      /\ t.pc = "commit" => t.entry = t.amount

(* The inductive invariant: the committed rows agree with the history      *)
(* because every open transaction is computed from the row it has locked.  *)
IInv ==
  /\ TypeOK
  /\ BooksBalance
  /\ NoOverdraft
  /\ \A s \in Sessions : Fits(s)

LEMMA IdleType == Idle \in Txs
  BY DEF Idle, Txs, Pcs, Rows, NoRow

LEMMA InitIInv == Init => IInv
  <1> SUFFICES ASSUME Init PROVE IInv
    OBVIOUS
  <1>1. TypeOK
    BY IdleType DEF Init, TypeOK, Rows, NoRow
  <1>2. BooksBalance /\ NoOverdraft
    BY DEF Init, BooksBalance, NoOverdraft, Wallet, Zero, Types
  <1>3. \A s \in Sessions : Fits(s)
    BY DEF Init, Fits, Idle, Locking
  <1> QED BY <1>1, <1>2, <1>3 DEF IInv

-----------------------------------------------------------------------------
(* The frame of every step of s: the other transactions still fit, because  *)
(* the rows they have locked do not change under them.                      *)
LEMMA FrameInv ==
  ASSUME IInv, NEW s \in Sessions, NEW q \in Txs, tx' = [tx EXCEPT ![s] = q],
         wallets' \in [Users -> Rows],
         books' \in [Users -> [Types -> Nat]],
         holder' \in [Users -> Sessions \cup {NoSession}],
         \A u \in Users : holder[u] \in Sessions \ {s}
                            => holder'[u] = holder[u] /\ wallets'[u] = wallets[u],
         BooksBalance', NoOverdraft', Fits(s)'
  PROVE  IInv'
  <1>1. TypeOK'
    BY DEF IInv, TypeOK
  <1>2. ASSUME NEW g \in Sessions, g # s PROVE Fits(g)'
    <2>1. tx'[g] = tx[g] /\ Fits(g)
      BY <1>2 DEF IInv, TypeOK
    <2>2. tx[g].pc \in Locking
            => /\ holder'[tx[g].user] = g
               /\ Wallet(tx[g].user)' = Wallet(tx[g].user)
      BY <1>2, <2>1 DEF Fits, Wallet, Locking
    <2> QED BY <2>1, <2>2 DEF Fits, Locking
  <1> QED BY <1>1, <1>2 DEF IInv

(* A step that commits nothing, and takes or gives back the lock of s at    *)
(* most.                                                                    *)
LEMMA LocalInv ==
  ASSUME IInv, NEW s \in Sessions, NEW q \in Txs, tx' = [tx EXCEPT ![s] = q],
         UNCHANGED <<wallets, books>>,
         holder' \in [Users -> Sessions \cup {NoSession}],
         \A u \in Users : holder[u] \in Sessions \ {s} => holder'[u] = holder[u],
         Fits(s)'
  PROVE  IInv'
  <1>1. BooksBalance' /\ NoOverdraft'
    BY DEF IInv, BooksBalance, NoOverdraft, Wallet
  <1>2. wallets' \in [Users -> Rows] /\ books' \in [Users -> [Types -> Nat]]
    BY DEF IInv, TypeOK
  <1> QED BY <1>1, <1>2, FrameInv

LEMMA EndFits == ASSUME IInv, NEW s \in Sessions, End(s) PROVE Fits(s)'
  BY DEF IInv, TypeOK, End, Fits, Idle, Locking

(* A session that ends without a COMMIT, keeping or giving back its lock.  *)
LEMMA EndInv ==
  ASSUME IInv, NEW s \in Sessions, End(s), UNCHANGED <<wallets, books>>,
         UNCHANGED holder \/ (tx[s].pc \in Locking /\ Unlock(s))
  PROVE  IInv'
  <1>1. Fits(s)' /\ TypeOK /\ Fits(s)
    BY EndFits DEF IInv
  <1>2. /\ holder' \in [Users -> Sessions \cup {NoSession}]
        /\ \A u \in Users : holder[u] \in Sessions \ {s} => holder'[u] = holder[u]
    BY <1>1 DEF TypeOK, Unlock, Fits, Locking
  <1> QED BY <1>1, <1>2, IdleType, LocalInv DEF End

LEMMA BeginInv ==
  ASSUME IInv, NEW s \in Sessions, NEW u \in Users, NEW a \in Amounts \cup {0},
         NEW op \in Types \cup {"get"}, NEW pc \in {"select", "read"},
         pc = "select" => op \in Types /\ a \in Amounts,
         Begin(s, op, u, a, pc)
  PROVE  IInv'
  <1> DEFINE q == [pc |-> pc, op |-> op, user |-> u, amount |-> a,
                   row |-> NoRow, dirty |-> NoRow, entry |-> 0]
  <1>1. q \in Txs
    BY DEF Txs, Pcs, NoRow, Rows
  <1>2. tx' = [tx EXCEPT ![s] = q] /\ tx'[s] = q /\ UNCHANGED <<wallets, books, holder>>
    BY DEF Begin, IInv, TypeOK
  <1>3. q.pc = pc /\ q.op = op /\ q.user = u /\ q.amount = a
    OBVIOUS
  <1> HIDE DEF q
  <1>4. Fits(s)'
    BY <1>2, <1>3 DEF Fits, Locking
  <1>5. holder' \in [Users -> Sessions \cup {NoSession}]
    BY <1>2 DEF IInv, TypeOK
  <1> QED BY <1>1, <1>2, <1>4, <1>5, LocalInv

(* Steps that only move the program counter, outside the lock.             *)
LEMMA GotoInv ==
  ASSUME IInv, NEW s \in Sessions, NEW pc \in {"insert", "create"}, Goto(s, pc),
         tx[s].pc # "idle", pc = "insert" => tx[s].pc = "select",
         UNCHANGED <<wallets, books, holder>>
  PROVE  IInv'
  <1> DEFINE q == [tx[s] EXCEPT !.pc = pc]
  <1>1. tx[s] \in Txs /\ Fits(s) /\ TypeOK
    BY DEF IInv, TypeOK
  <1>2. q \in Txs /\ tx' = [tx EXCEPT ![s] = q] /\ tx'[s] = q
    BY <1>1 DEF Goto, Txs, Pcs, TypeOK
  <1>3. q.pc = pc /\ q.op = tx[s].op /\ q.user = tx[s].user /\ q.amount = tx[s].amount
    BY <1>1 DEF Txs
  <1> HIDE DEF q
  <1>4. Fits(s)'
    BY <1>1, <1>2, <1>3 DEF Fits, Locking
  <1> QED BY <1>1, <1>2, <1>4, LocalInv DEF TypeOK

-----------------------------------------------------------------------------
(* The steps of ApplyTransaction                                            *)

(* A session takes the lock of its user, with the row as committed.        *)
LEMMA TakeInv ==
  ASSUME IInv, NEW s \in Sessions, tx[s].pc \in {"select", "insert"}, Free(tx[s].user),
         holder' = [holder EXCEPT ![tx[s].user] = s],
         tx' = [tx EXCEPT ![s].pc = "apply", ![s].row = Wallet(tx[s].user)],
         UNCHANGED <<wallets, books>>
  PROVE  IInv'
  <1> DEFINE u == tx[s].user
             q == [tx[s] EXCEPT !.pc = "apply", !.row = Wallet(u)]
  <1>1. tx[s] \in Txs /\ Fits(s) /\ TypeOK /\ u \in Users /\ s # NoSession
    BY ConstantsOK DEF IInv, TypeOK, Fits
  <1>2. Wallet(u) \in Rows
    BY <1>1 DEF TypeOK, Wallet, Zero, Rows
  <1>3. q \in Txs /\ tx' = [tx EXCEPT ![s] = q] /\ tx'[s] = q
    BY <1>1, <1>2 DEF Txs, Pcs, TypeOK
  <1>4. q.pc = "apply" /\ q.op = tx[s].op /\ q.user = u /\ q.amount = tx[s].amount
          /\ q.row = Wallet(u)
    BY <1>1 DEF Txs
  <1>5. Wallet(u)' = Wallet(u) /\ holder'[u] = s
    BY <1>1 DEF Wallet, TypeOK
  <1>6. /\ holder' \in [Users -> Sessions \cup {NoSession}]
        /\ \A v \in Users : holder[v] \in Sessions \ {s} => holder'[v] = holder[v]
    BY <1>1, ConstantsOK DEF TypeOK, Free
  <1> HIDE DEF q, u
  <1>7. Fits(s)'
    BY <1>1, <1>3, <1>4, <1>5 DEF Fits, Locking, u
  <1> QED BY <1>3, <1>6, <1>7, LocalInv

LEMMA SelectInv == ASSUME IInv, NEW s \in Sessions, Select(s) PROVE IInv'
  <1>1. CASE wallets[tx[s].user] = NoRow
    BY <1>1, GotoInv DEF Select, At
  <1>2. CASE wallets[tx[s].user] # NoRow
    <2>1. Wallet(tx[s].user) = wallets[tx[s].user]
      BY <1>2 DEF Wallet
    <2> QED BY <1>2, <2>1, TakeInv DEF Select, At
  <1> QED BY <1>1, <1>2

LEMMA InsertInv == ASSUME IInv, NEW s \in Sessions, Insert(s) PROVE IInv'
  <1>1. CASE wallets[tx[s].user] = NoRow
    <2>1. Wallet(tx[s].user) = Zero
      BY <1>1 DEF Wallet
    <2> QED BY <1>1, <2>1, TakeInv DEF Insert, At
  <1>2. CASE wallets[tx[s].user] # NoRow
    BY <1>2, EndInv DEF Insert
  <1> QED BY <1>1, <1>2

LEMMA ChangedType ==
  ASSUME NEW row \in Rows, NEW type, NEW a \in Nat
  PROVE  Changed(row, type, a) \in Rows
  BY DEF Changed, Rows

LEMMA ApplyInv == ASSUME IInv, NEW s \in Sessions, Apply(s) PROVE IInv'
  <1> DEFINE t == tx[s]
             new == Changed(t.row, t.op, t.amount)
             q == [t EXCEPT !.pc = "save", !.row = new]
  <1>1. /\ t \in Txs /\ Fits(s) /\ TypeOK /\ t.pc = "apply" /\ UNCHANGED <<wallets, books>>
        /\ t.amount \in Nat
    BY ConstantsOK DEF IInv, TypeOK, Apply, At, Txs
  <1>2. CASE ~Covered(t.row, t.op, t.amount)
    BY <1>1, <1>2, EndInv DEF Apply, Locking
  <1>3. CASE Covered(t.row, t.op, t.amount)
    <2>1. t.row = Wallet(t.user) /\ t.user \in Users /\ holder[t.user] = s
      BY <1>1 DEF Fits, Locking
    <2>2. new \in Rows
      BY <1>1, ChangedType DEF Txs
    <2>3. tx' = [tx EXCEPT ![s].pc = "save", ![s].row = new] /\ UNCHANGED holder
      BY <1>3 DEF Apply
    <2> HIDE DEF new
    <2>4. q \in Txs /\ tx' = [tx EXCEPT ![s] = q] /\ tx'[s] = q
      BY <1>1, <2>2, <2>3 DEF Txs, Pcs, TypeOK
    <2>5. q.pc = "save" /\ q.op = t.op /\ q.user = t.user /\ q.amount = t.amount /\ q.row = new
      BY <1>1 DEF Txs
    <2>6. \A u \in Users : Wallet(u)' = Wallet(u)
      BY <1>1 DEF Wallet
    <2>7. new = Changed(Wallet(t.user), t.op, t.amount)
            /\ Covered(Wallet(t.user), t.op, t.amount)
      BY <1>3, <2>1 DEF new
    <2> HIDE DEF q
    <2>8. Fits(s)'
      BY <1>1, <2>1, <2>3, <2>4, <2>5, <2>6, <2>7 DEF Fits, Locking
    <2> QED BY <1>1, <2>3, <2>4, <2>8, LocalInv DEF TypeOK
  <1> QED BY <1>2, <1>3

LEMMA SaveInv == ASSUME IInv, NEW s \in Sessions, Save(s) PROVE IInv'
  <1> DEFINE t == tx[s]
             q == [t EXCEPT !.pc = "log", !.dirty = t.row]
  <1>1. /\ t \in Txs /\ Fits(s) /\ TypeOK /\ t.pc = "save"
        /\ UNCHANGED <<wallets, books, holder>>
    BY DEF IInv, TypeOK, Save, At
  <1>2. q \in Txs /\ tx' = [tx EXCEPT ![s] = q] /\ tx'[s] = q
    BY <1>1 DEF Txs, Pcs, TypeOK, Save
  <1>3. q.pc = "log" /\ q.op = t.op /\ q.user = t.user /\ q.amount = t.amount
          /\ q.row = t.row /\ q.dirty = t.row
    BY <1>1 DEF Txs
  <1>4. \A u \in Users : Wallet(u)' = Wallet(u)
    BY <1>1 DEF Wallet
  <1> HIDE DEF q
  <1>5. Fits(s)'
    BY <1>1, <1>2, <1>3, <1>4 DEF Fits, Locking
  <1> QED BY <1>1, <1>2, <1>5, LocalInv DEF TypeOK

LEMMA LogInv == ASSUME IInv, NEW s \in Sessions, Log(s) PROVE IInv'
  <1> DEFINE t == tx[s]
             q == [t EXCEPT !.pc = "commit", !.entry = t.amount]
  <1>1. /\ t \in Txs /\ Fits(s) /\ TypeOK /\ t.pc = "log"
        /\ UNCHANGED <<wallets, books, holder>>
    BY DEF IInv, TypeOK, Log, At
  <1>2. q \in Txs /\ tx' = [tx EXCEPT ![s] = q] /\ tx'[s] = q
    BY <1>1 DEF Txs, Pcs, TypeOK, Log
  <1>3. q.pc = "commit" /\ q.op = t.op /\ q.user = t.user /\ q.amount = t.amount
          /\ q.row = t.row /\ q.dirty = t.dirty /\ q.entry = t.amount
    BY <1>1 DEF Txs
  <1>4. \A u \in Users : Wallet(u)' = Wallet(u)
    BY <1>1 DEF Wallet
  <1> HIDE DEF q
  <1>5. Fits(s)'
    BY <1>1, <1>2, <1>3, <1>4 DEF Fits, Locking
  <1> QED BY <1>1, <1>2, <1>5, LocalInv DEF TypeOK

(* What the COMMIT publishes: the locked row, changed by the transaction.  *)
LEMMA CommitFacts ==
  ASSUME IInv, NEW s \in Sessions, Commit(s)
  PROVE  \E u \in Users, type \in Types, a \in Nat \ {0} :
           /\ u = tx[s].user /\ a \in Amounts /\ holder[u] = s
           /\ Covered(Wallet(u), type, a)
           /\ Wallet(u)' = Changed(Wallet(u), type, a)
           /\ Wallet(u)'.balance >= 0
           /\ \A v \in Users : v # u => wallets'[v] = wallets[v] /\ Wallet(v)' = Wallet(v)
           /\ wallets' \in [Users -> Rows]
           /\ books' = [books EXCEPT ![u][type] = @ + a]
  <1>1. TypeOK /\ NoOverdraft /\ Fits(s) /\ tx[s].pc = "commit" /\ BooksBalance
    BY DEF IInv, Commit, At
  <1>2. PICK u \in Users, type \in Types, a \in Amounts :
          u = tx[s].user /\ type = tx[s].op /\ a = tx[s].amount
    BY <1>1 DEF Fits, Locking
  <1>3. a \in Nat \ {0}
    BY ConstantsOK
  <1>4. /\ holder[u] = s /\ Covered(Wallet(u), type, a)
        /\ tx[s].dirty = Changed(Wallet(u), type, a) /\ tx[s].entry = a
    BY <1>1, <1>2 DEF Fits, Locking
  <1>5. Wallet(u) \in Rows /\ Wallet(u).balance >= 0
    BY <1>1 DEF TypeOK, Wallet, Zero, Rows, NoOverdraft
  <1> DEFINE new == Changed(Wallet(u), type, a)
  <1>6. new \in Rows /\ new.balance >= 0
    BY <1>3, <1>4, <1>5 DEF Changed, Covered, Rows, Types
  <1>7. wallets' = [wallets EXCEPT ![u] = new] /\ books' = [books EXCEPT ![u][type] = @ + a]
    BY <1>2, <1>4 DEF Commit
  <1> HIDE DEF new
  <1>8. new # NoRow
    BY <1>6 DEF NoRow
  <1>9. wallets'[u] = new /\ Wallet(u)' = new
    BY <1>1, <1>7, <1>8 DEF TypeOK, Wallet
  <1>10. /\ wallets' \in [Users -> Rows]
         /\ \A v \in Users : v # u => wallets'[v] = wallets[v] /\ Wallet(v)' = Wallet(v)
    BY <1>1, <1>6, <1>7 DEF TypeOK, Wallet
  <1> QED BY <1>2, <1>3, <1>4, <1>6, <1>7, <1>9, <1>10 DEF new

LEMMA CommitInv == ASSUME IInv, NEW s \in Sessions, Commit(s) PROVE IInv'
  <1>1. TypeOK /\ BooksBalance /\ NoOverdraft /\ Fits(s) /\ tx[s].pc = "commit"
    BY DEF IInv, Commit, At
  <1>2. PICK u \in Users, type \in Types, a \in Nat \ {0} :
          /\ u = tx[s].user /\ holder[u] = s
          /\ Wallet(u)' = Changed(Wallet(u), type, a)
          /\ Wallet(u)'.balance >= 0
          /\ \A v \in Users : v # u => wallets'[v] = wallets[v] /\ Wallet(v)' = Wallet(v)
          /\ wallets' \in [Users -> Rows]
          /\ books' = [books EXCEPT ![u][type] = @ + a]
    BY CommitFacts
  <1>3. NoOverdraft'
    BY <1>1, <1>2 DEF NoOverdraft
  <1>4. books' \in [Users -> [Types -> Nat]]
    BY <1>1, <1>2 DEF TypeOK
  <1>5. BooksBalance'
    <2> SUFFICES ASSUME NEW v \in Users
                 PROVE  /\ Wallet(v)'.balance = books'[v]["topup"] - books'[v]["deduction"]
                        /\ Wallet(v)'.points = books'[v]["reward"]
      BY DEF BooksBalance
    <2>1. CASE v # u
      BY <1>1, <1>2, <2>1 DEF BooksBalance, TypeOK
    <2>2. CASE v = u
      <3>1. books[u] \in [Types -> Nat] /\ books'[u] = [books[u] EXCEPT ![type] = @ + a]
        BY <1>1, <1>2 DEF TypeOK
      <3>2. /\ Wallet(u).balance = books[u]["topup"] - books[u]["deduction"]
            /\ Wallet(u).points = books[u]["reward"]
        BY <1>1 DEF BooksBalance
      <3> QED BY <1>2, <2>2, <3>1, <3>2 DEF Changed, Types
    <2> QED BY <2>1, <2>2
  <1>6. /\ holder' \in [Users -> Sessions \cup {NoSession}]
        /\ \A v \in Users : holder[v] \in Sessions \ {s}
                              => holder'[v] = holder[v] /\ wallets'[v] = wallets[v]
    BY <1>1, <1>2 DEF TypeOK, Commit, Unlock
  <1>7. Fits(s)' /\ tx' = [tx EXCEPT ![s] = Idle]
    BY EndFits DEF Commit, End
  <1> QED BY <1>2, <1>3, <1>4, <1>5, <1>6, <1>7, IdleType, FrameInv

LEMMA RollbackInv == ASSUME IInv, NEW s \in Sessions, Rollback(s) PROVE IInv'
  BY EndInv DEF Rollback

-----------------------------------------------------------------------------
(* Get and the rest                                                         *)

LEMMA ReadInv == ASSUME IInv, NEW s \in Sessions, Read(s) PROVE IInv'
  BY EndInv, GotoInv DEF Read, At

(* A wallet that appears empty is the wallet the user already had.         *)
LEMMA CreateSame ==
  ASSUME IInv, NEW s \in Sessions, Create(s)
  PROVE  /\ wallets' \in [Users -> Rows]
         /\ \A v \in Users : Wallet(v)' = Wallet(v)
         /\ \A v \in Users : holder[v] # NoSession => wallets'[v] = wallets[v]
  <1>1. TypeOK /\ Fits(s) /\ tx[s].user \in Users /\ holder[tx[s].user] = NoSession
    BY DEF IInv, Fits, Create, At, Free
  <1>2. Zero \in Rows /\ Zero # NoRow
    BY DEF Zero, Rows, NoRow
  <1>3. CASE UNCHANGED wallets
    BY <1>1, <1>3 DEF TypeOK, Wallet
  <1>4. CASE wallets[tx[s].user] = NoRow /\ wallets' = [wallets EXCEPT ![tx[s].user] = Zero]
    BY <1>1, <1>2, <1>4 DEF TypeOK, Wallet
  <1> QED BY <1>3, <1>4 DEF Create

LEMMA CreateInv == ASSUME IInv, NEW s \in Sessions, Create(s) PROVE IInv'
  <1>1. TypeOK /\ BooksBalance /\ NoOverdraft /\ UNCHANGED <<books, holder>>
    BY DEF IInv, Create
  <1>2. BooksBalance' /\ NoOverdraft'
    BY <1>1, CreateSame DEF BooksBalance, NoOverdraft
  <1>3. \A u \in Users : holder[u] \in Sessions \ {s}
                           => holder'[u] = holder[u] /\ wallets'[u] = wallets[u]
    BY <1>1, CreateSame, ConstantsOK
  <1>4. Fits(s)' /\ tx' = [tx EXCEPT ![s] = Idle]
    BY EndFits DEF Create, End
  <1> QED BY <1>1, <1>2, <1>3, <1>4, CreateSame, IdleType, FrameInv DEF TypeOK

LEMMA StartInv == ASSUME IInv, NEW s \in Sessions, Start(s) PROVE IInv'
  BY BeginInv DEF Start, StartGet, StartApply

LEMMA StutterInv == IInv /\ UNCHANGED vars => IInv'
  <1> SUFFICES ASSUME IInv, UNCHANGED vars PROVE IInv'
    OBVIOUS
  <1>1. UNCHANGED <<wallets, books, holder, tx>>
    BY DEF vars
  <1>2. TypeOK' /\ BooksBalance' /\ NoOverdraft'
    BY <1>1 DEF IInv, TypeOK, BooksBalance, NoOverdraft, Wallet
  <1>3. \A s \in Sessions : Fits(s)'
    BY <1>1 DEF IInv, Fits, Wallet
  <1> QED BY <1>2, <1>3 DEF IInv

LEMMA NextIInv == IInv /\ [Next]_vars => IInv'
  <1> SUFFICES ASSUME IInv, [Next]_vars PROVE IInv'
    OBVIOUS
  <1>1. ASSUME NEW s \in Sessions, Start(s) \/ Step(s) \/ Rollback(s) PROVE IInv'
    BY <1>1, StartInv, SelectInv, InsertInv, ApplyInv, SaveInv, LogInv, CommitInv,
       ReadInv, CreateInv, RollbackInv DEF Step
  <1> QED BY <1>1, StutterInv DEF Next

LEMMA IInvAlways == Spec => []IInv
  BY InitIInv, NextIInv, PTL DEF Spec

(* For any number of sessions, users and amounts, whatever is rolled back,  *)
(* every wallet is what its transactions say it is.                         *)
THEOREM BooksAlwaysBalance == Spec => []BooksBalance
  <1>1. IInv => BooksBalance
    BY DEF IInv
  <1> QED BY <1>1, IInvAlways, PTL

(* No set of concurrent deductions overdraws a wallet.                      *)
THEOREM NeverOverdrawn == Spec => []NoOverdraft
  <1>1. IInv => NoOverdraft
    BY DEF IInv
  <1> QED BY <1>1, IInvAlways, PTL

-----------------------------------------------------------------------------
(* Refinement of WalletLedger                                               *)

LEMMA LedgerInit == Init => Ledger!Init
  BY DEF Init, Ledger!Init, Ledger!NothingBooked, Ledger!Types, Types, Wallet, Zero

(* A step that leaves every wallet and the books alone is a stutter.       *)
LEMMA LedgerStutter ==
  ASSUME \A u \in Users : Wallet(u)' = Wallet(u), UNCHANGED books
  PROVE  UNCHANGED <<[u \in Users |-> Wallet(u).balance], [u \in Users |-> Wallet(u).points],
                     books>>
  OBVIOUS

LEMMA LedgerCommit == ASSUME IInv, NEW s \in Sessions, Commit(s) PROVE Ledger!Next
  <1>1. PICK u \in Users, type \in Types, a \in Nat \ {0} :
          /\ a \in Amounts
          /\ Covered(Wallet(u), type, a)
          /\ Wallet(u)' = Changed(Wallet(u), type, a)
          /\ \A v \in Users : v # u => Wallet(v)' = Wallet(v)
          /\ books' = [books EXCEPT ![u][type] = @ + a]
    BY CommitFacts
  <1> DEFINE bal == [v \in Users |-> Wallet(v).balance]
             pts == [v \in Users |-> Wallet(v).points]
  <1>2. CASE type = "topup"
    <2>1. Wallet(u)'.balance = Wallet(u).balance + a /\ Wallet(u)'.points = Wallet(u).points
      BY <1>1, <1>2 DEF Changed
    <2>2. bal' = [bal EXCEPT ![u] = @ + a] /\ pts' = pts
      BY <1>1, <2>1
    <2> QED BY <1>1, <1>2, <2>2 DEF Ledger!Next, Ledger!TopUp, Ledger!Book
  <1>3. CASE type = "deduction"
    <2>1. Wallet(u)'.balance = Wallet(u).balance - a /\ Wallet(u)'.points = Wallet(u).points
      BY <1>1, <1>3 DEF Changed
    <2>2. bal' = [bal EXCEPT ![u] = @ - a] /\ pts' = pts
      BY <1>1, <2>1
    <2>3. a <= bal[u]
      <3>1. Wallet(u).balance \in Int
        BY DEF IInv, TypeOK, Wallet, Zero, Rows
      <3> QED BY <1>1, <1>3, <3>1 DEF Covered
    <2> QED BY <1>1, <1>3, <2>2, <2>3 DEF Ledger!Next, Ledger!Deduct, Ledger!Book
  <1>4. CASE type = "reward"
    <2>1. Wallet(u)'.balance = Wallet(u).balance /\ Wallet(u)'.points = Wallet(u).points + a
      BY <1>1, <1>4 DEF Changed
    <2>2. pts' = [pts EXCEPT ![u] = @ + a] /\ bal' = bal
      BY <1>1, <2>1
    <2> QED BY <1>1, <1>4, <2>2 DEF Ledger!Next, Ledger!Reward, Ledger!Book
  <1> QED BY <1>2, <1>3, <1>4 DEF Types

(* The wallet service implements the ledger: each COMMIT is one indivisible *)
(* transaction of the ledger and every other step is invisible in it.       *)
THEOREM WalletImplementsLedger == Spec => ImplementsLedger
  <1>1. IInv /\ [Next]_vars
          => [Ledger!Next]_<<[u \in Users |-> Wallet(u).balance],
                             [u \in Users |-> Wallet(u).points], books>>
    <2> SUFFICES ASSUME IInv, [Next]_vars
                 PROVE  \/ Ledger!Next
                        \/ UNCHANGED <<[u \in Users |-> Wallet(u).balance],
                                       [u \in Users |-> Wallet(u).points], books>>
      OBVIOUS
    <2>1. CASE UNCHANGED <<wallets, books>>
      BY <2>1, LedgerStutter DEF Wallet
    <2>2. ASSUME NEW s \in Sessions, Commit(s) PROVE Ledger!Next
      BY <2>2, LedgerCommit
    <2>3. ASSUME NEW s \in Sessions, Create(s)
          PROVE  UNCHANGED books /\ \A u \in Users : Wallet(u)' = Wallet(u)
      BY <2>3, CreateSame DEF Create
    <2>4. ASSUME NEW s \in Sessions,
                 Start(s) \/ Rollback(s) \/ (Step(s) /\ ~Commit(s) /\ ~Create(s))
          PROVE  UNCHANGED <<wallets, books>>
      BY <2>4 DEF Start, StartGet, StartApply, Begin, Rollback, Step, Select, Insert,
         Apply, Save, Log, Read
    <2> QED BY <2>1, <2>2, <2>3, <2>4, LedgerStutter DEF Next, Step, vars
  <1> QED BY <1>1, LedgerInit, IInvAlways, PTL DEF Spec, ImplementsLedger, Ledger!Spec
=============================================================================
