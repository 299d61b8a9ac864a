---------------------------- MODULE WalletLedger ----------------------------
(***************************************************************************)
(* What a wallet promises: every transaction moves the balance or the      *)
(* points and is entered in the books in one indivisible step, and no      *)
(* deduction takes more than there is.                                     *)
(***************************************************************************)
EXTENDS Integers

CONSTANTS
  Users,      \* wallet owners
  Amounts     \* the amounts of money and points transactions may carry

VARIABLES
  balance,    \* wallets.balance, 0 before the row exists
  points,     \* wallets.reward_points
  books       \* wallet_transactions, summed by user and type

Types == {"topup", "deduction", "reward"}

NothingBooked == [type \in Types |-> 0]

Init ==
  /\ balance = [u \in Users |-> 0]
  /\ points = [u \in Users |-> 0]
  /\ books = [u \in Users |-> NothingBooked]

Book(u, type, a) == books' = [books EXCEPT ![u][type] = @ + a]

TopUp(u, a) ==
  /\ balance' = [balance EXCEPT ![u] = @ + a]
  /\ Book(u, "topup", a)
  /\ UNCHANGED points

Deduct(u, a) ==
  /\ a <= balance[u]
  /\ balance' = [balance EXCEPT ![u] = @ - a]
  /\ Book(u, "deduction", a)
  /\ UNCHANGED points

Reward(u, a) ==
  /\ points' = [points EXCEPT ![u] = @ + a]
  /\ Book(u, "reward", a)
  /\ UNCHANGED balance

Next == \E u \in Users, a \in Amounts : TopUp(u, a) \/ Deduct(u, a) \/ Reward(u, a)

Spec == Init /\ [][Next]_<<balance, points, books>>
=============================================================================
