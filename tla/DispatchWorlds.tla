--------------------------- MODULE DispatchWorlds ---------------------------
(* Dispatch in two worlds, chosen in the initial state: one where requests *)
(* of every kind are served one at a time and no call fails, and one where *)
(* two requests overlap and calls fail, for the requests that write        *)
(* assignments.                                                            *)
EXTENDS Dispatch

VARIABLE alone  \* TRUE where requests are served one at a time and none fails

Overlapping == {"assign", "accept", "decline", "update"}

Begin(h) ==
  /\ Start(h)
  /\ IF alone THEN Quiet ELSE req'[h].op \in Overlapping
  /\ UNCHANGED alone

GoOn(h)    == Call(h) /\ UNCHANGED alone
BreakOff(h) == ~alone /\ Fail(h) /\ UNCHANGED alone

Patch(t, s) == alone /\ PatchStatus(t, s) /\ UNCHANGED alone
Toggle(d)   == alone /\ UpdateAvailability(d) /\ UNCHANGED alone

WorldsInit == Init /\ alone \in BOOLEAN

WorldsNext ==
  \/ \E h \in Handlers : Begin(h) \/ GoOn(h) \/ BreakOff(h)
  \/ \E t \in Trips, s \in TripStatuses : Patch(t, s)
  \/ \E d \in Drivers : Toggle(d)

WorldsSpec == WorldsInit /\ [][WorldsNext]_<<vars, alone>>

(* Between requests the two tables agree: the driver a trip names is the   *)
(* driver its assignment row names.  True when requests are served one at  *)
(* a time and none fails; AssignTrip, AcceptTrip, DeclineTrip and the      *)
(* auto-assign of UpdateTripStatus all keep it.                            *)
TablesAgree == alone => TablesMatch
=============================================================================
