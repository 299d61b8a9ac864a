----------------------------- MODULE TokenBucket ----------------------------
(***************************************************************************)
(* What the rate limiter promises: every client has one bucket of Burst    *)
(* tokens that is never taken away from him.  A request is granted for a   *)
(* token, a token comes back every Interval ticks, and only a restart of   *)
(* the process fills the buckets.  A token counts Interval ticks.          *)
(***************************************************************************)
EXTENDS Naturals

CONSTANTS Clients, Burst, Interval

VARIABLES
  tokens,  \* what each client's bucket holds, in ticks
  run      \* which of its runs the process is in; runs alternate 0 and 1

Full == Burst * Interval

Init == tokens = [c \in Clients |-> Full] /\ run = 0

Grant(c) ==
  /\ tokens[c] >= Interval
  /\ tokens' = [tokens EXCEPT ![c] = @ - Interval]
  /\ UNCHANGED run

Refill ==
  /\ tokens' = [c \in Clients |-> IF tokens[c] < Full THEN tokens[c] + 1 ELSE Full]
  /\ UNCHANGED run

Restart == tokens' = [c \in Clients |-> Full] /\ run' = 1 - run

Next == (\E c \in Clients : Grant(c)) \/ Refill \/ Restart

Spec == Init /\ [][Next]_<<tokens, run>>
=============================================================================
