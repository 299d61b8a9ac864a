----------------------------- MODULE MCUserPages ----------------------------
(* Small instances of HomeCache and Notifications.  The two share no more  *)
(* than a process, so each is explored with the other at rest: the users   *)
(* either look at the home feed or at their notifications.                 *)
EXTENDS HomeCache, Notifications, TLC

VARIABLE asked  \* what the users look at

PagesSymmetry == Permutations(Calls) \cup Permutations(Users)

NewsWrites == 1  \* bound: writes of the news, which nothing follows up

Feed  == asked = "feed" /\ table'[News] <= NewsWrites /\ UNCHANGED <<inboxVars, asked>>
Notes == asked = "notes" /\ UNCHANGED <<vars, asked>>

PagesInit ==
  /\ Init /\ InboxInit
  /\ \/ asked = "feed" /\ unique = "token"
     \/ asked = "notes" /\ caching = {}

PagesNext == (Next /\ Feed) \/ (InboxNext /\ Notes)

PagesSpec == PagesInit /\ [][PagesNext]_<<vars, inboxVars, asked>>
=============================================================================
