------------------------------ MODULE TripHub ------------------------------
(***************************************************************************)
(* The WebSocket hub of one trip (internal/http/handlers/ws.go): the       *)
(* manager that creates it on demand, its event loop, and the connections' *)
(* handler, read pump and write pump, with the Go channels between them.   *)
(*                                                                         *)
(* register and unregister are unbuffered: the hub's receive and the       *)
(* sender's send are one step, and a sender waits until the loop is there. *)
(* A message is numbered: it carries the n-th change of the trip's status, *)
(* or the n-th position its drivers have reported.  Ping frames, which     *)
(* only find out that a peer has gone, are left out.                       *)
(***************************************************************************)
EXTENDS Naturals, Sequences, FiniteSets

CONSTANTS
  Riders,        \* connections that are sent the snapshot
  DriverConns,   \* connections whose frames the server reads
  Writers,       \* HTTP requests that change the status and call BroadcastStatus
  SendCap,       \* capacity of Client.send (16)
  BroadcastCap,  \* capacity of Hub.broadcast (16)
  MaxStatuses,   \* bound: how often the status changes
  MaxPositions,  \* bound: how many positions are reported
  Lag            \* bound: positions a read replica is behind; 0 without one

Conns == Riders \cup DriverConns
Procs == Conns \cup Writers

ASSUME ConstantsOK ==
  /\ Riders \cap DriverConns = {} /\ Conns \cap Writers = {}
  /\ SendCap \in Nat \ {0} /\ BroadcastCap \in Nat \ {0}
  /\ MaxStatuses \in Nat /\ MaxPositions \in Nat /\ Lag \in Nat

VARIABLES
  trip,     \* how many statuses and how many positions the trip has had
  hubs,     \* how many hubs have been created for the trip; the map holds the first
  chan,     \* Hub.broadcast of each hub
  listed,   \* Hub.clients of each hub
  proc,     \* pc, hub and message in hand of each connection handler and request
  send,     \* Client.send: its buffer
  open,     \* Client.send has not been closed
  pump,     \* the write pump: "off", "on" or "done"
  alive,    \* the network connection is up
  log,      \* history: the messages each hub's loop has taken, in order
  since,    \* history: how long that log was when the connection was listed
  took      \* history: what the write pump has taken out of Client.send

vars == <<trip, hubs, chan, listed, proc, send, open, pump, alive, log, since, took>>
hubVars == <<hubs, chan, listed, log, since>>
connVars == <<send, open, pump, alive, took>>

MaxHubs == 2     \* bound: one more than the manager may ever create
HubIds == 1 .. MaxHubs
Kinds == {"status", "position"}
Message(kind, n) == [kind |-> kind, n |-> n]
Bound == [status |-> MaxStatuses, position |-> MaxPositions]
Latest(kind) == Message(kind, trip[kind])

\* What a client's channel holds: the n-th message the hub's loop has taken,
\* or a snapshot.  (The number is history: what is sent is the message.)
Live(m, n)  == [msg |-> m, nth |-> n]
Snapshot(m) == [msg |-> m, nth |-> 0]

Init ==
  /\ trip = [kind \in Kinds |-> 0] /\ hubs = 0
  /\ chan = [h \in HubIds |-> <<>>] /\ listed = [h \in HubIds |-> {}]
  /\ log = [h \in HubIds |-> <<>>]
  /\ proc = [p \in Procs |-> [pc |-> "start", hub |-> 0, msg |-> Message("status", 0)]]
  /\ send = [c \in Conns |-> <<>>] /\ open = [c \in Conns |-> TRUE]
  /\ pump = [c \in Conns |-> "off"] /\ alive = [c \in Conns |-> TRUE]
  /\ since = [c \in Conns |-> 0] /\ took = [c \in Conns |-> <<>>]

At(p, pc)   == proc[p].pc = pc
Goto(p, pc) == proc' = [proc EXCEPT ![p].pc = pc]

-----------------------------------------------------------------------------
(* HandleWebsocket fetches the trip first; a request changes the status     *)
(* first (TripService.UpdateStatus).  Both then ask the manager for the hub. *)
(* A connection that is refused (401, 403, 404) leaves nothing behind.       *)

\* Mutant of Fetch: the position is read with the trip, before registering.
FetchBoth(c) ==
  /\ At(c, "start")
  /\ proc' = [proc EXCEPT ![c].pc = "get", ![c].msg = Latest("position")]
  /\ UNCHANGED <<trip, hubVars, connVars>>

Fetch(c) ==
  /\ At(c, "start")
  /\ proc' = [proc EXCEPT ![c].pc = "get", ![c].msg = Latest("status")]
  /\ UNCHANGED <<trip, hubVars, connVars>>

Change(p, kind, pc) ==
  /\ trip[kind] < Bound[kind]
  /\ trip' = [trip EXCEPT ![kind] = @ + 1]
  /\ proc' = [proc EXCEPT ![p].pc = pc, ![p].msg = Message(kind, trip'[kind])]
  /\ UNCHANGED <<hubVars, connVars>>

UpdateStatus(u) == At(u, "start") /\ Change(u, "status", "get")

(* HubManager.get: the look-up under the read lock, then the creation under *)
(* the write lock, which looks again.                                       *)
UseHub(p, h) ==
  proc' = [proc EXCEPT ![p].hub = h,
             ![p].pc = IF p \in Conns THEN "register" ELSE "broadcast"]

FindHub(p) ==
  /\ At(p, "get")
  /\ IF hubs > 0 THEN UseHub(p, 1) ELSE Goto(p, "create")
  /\ UNCHANGED <<trip, hubVars, connVars>>

\* Mutant of CreateHub: the second look is missing.
CreateHubBlindly(p) ==
  /\ At(p, "create") /\ hubs < MaxHubs
  /\ hubs' = hubs + 1
  /\ UseHub(p, hubs')
  /\ UNCHANGED <<trip, chan, listed, log, since, connVars>>

CreateHub(p) ==
  /\ At(p, "create")
  /\ hubs' = IF hubs > 0 THEN hubs ELSE 1
  /\ UseHub(p, 1)
  /\ UNCHANGED <<trip, chan, listed, log, since, connVars>>

-----------------------------------------------------------------------------
(* Hub.run, one case of its select a step.                                  *)

Register(h, c) ==
  /\ At(c, "register") /\ proc[c].hub = h
  /\ listed' = [listed EXCEPT ![h] = @ \cup {c}]
  /\ since' = [since EXCEPT ![c] = Len(log[h])]
  /\ pump' = [pump EXCEPT ![c] = "on"]
  /\ Goto(c, IF c \in Riders THEN "snapshot" ELSE "read")
  /\ UNCHANGED <<trip, hubs, chan, log, send, open, alive, took>>

(* The read pump ends: its deferred calls unregister and close.             *)
Unregister(h, c) ==
  /\ At(c, "unregister") /\ proc[c].hub = h
  /\ listed' = [listed EXCEPT ![h] = @ \ {c}]
  /\ open' = [open EXCEPT ![c] = @ /\ c \notin listed[h]]
  /\ alive' = [alive EXCEPT ![c] = FALSE]
  /\ Goto(c, "ended")
  /\ UNCHANGED <<trip, hubs, chan, log, since, send, pump, took>>

Full(c) == Len(send[c]) >= SendCap
Deliver(h, m, kept) ==
  send' = [c \in Conns |->
    IF c \in kept THEN Append(send[c], Live(m, Len(log[h]) + 1)) ELSE send[c]]

\* Mutant of Broadcast: a full client stays listed and misses the message.
BroadcastSkipping(h) ==
  LET m == Head(chan[h])
  IN  /\ chan[h] # <<>>
      /\ chan' = [chan EXCEPT ![h] = Tail(@)]
      /\ log' = [log EXCEPT ![h] = Append(@, m)]
      /\ Deliver(h, m, {c \in listed[h] : ~Full(c)})
      /\ UNCHANGED <<trip, hubs, listed, proc, open, pump, alive, since, took>>

\* Mutant of Broadcast: a full client is closed and stays listed.
BroadcastListing(h) ==
  LET m    == Head(chan[h])
      full == {c \in listed[h] : Full(c)}
  IN  /\ chan[h] # <<>>
      /\ chan' = [chan EXCEPT ![h] = Tail(@)]
      /\ log' = [log EXCEPT ![h] = Append(@, m)]
      /\ Deliver(h, m, listed[h] \ full)
      /\ open' = [c \in Conns |-> open[c] /\ c \notin full]
      /\ UNCHANGED <<trip, hubs, listed, proc, pump, alive, since, took>>

\* Mutant of Broadcast: the loop stops when its last client has left.
BroadcastToAudience(h) ==
  LET m    == Head(chan[h])
      full == {c \in listed[h] : Full(c)}
  IN  /\ chan[h] # <<>> /\ listed[h] # {}
      /\ chan' = [chan EXCEPT ![h] = Tail(@)]
      /\ log' = [log EXCEPT ![h] = Append(@, m)]
      /\ Deliver(h, m, listed[h] \ full)
      /\ listed' = [listed EXCEPT ![h] = @ \ full]
      /\ open' = [c \in Conns |-> open[c] /\ c \notin full]
      /\ UNCHANGED <<trip, hubs, proc, pump, alive, since, took>>

(* Every client gets the message or, when its channel is full, is closed    *)
(* and taken off the list.                                                  *)
Broadcast(h) ==
  LET m    == Head(chan[h])
      full == {c \in listed[h] : Full(c)}
  IN  /\ chan[h] # <<>>
      /\ chan' = [chan EXCEPT ![h] = Tail(@)]
      /\ log' = [log EXCEPT ![h] = Append(@, m)]
      /\ Deliver(h, m, listed[h] \ full)
      /\ listed' = [listed EXCEPT ![h] = @ \ full]
      /\ open' = [c \in Conns |-> open[c] /\ c \notin full]
      /\ UNCHANGED <<trip, hubs, proc, pump, alive, since, took>>

-----------------------------------------------------------------------------
(* The handler's snapshot, the read pump and broadcastJSON.                 *)

(* client.send <- payload from outside the hub: it waits while the channel  *)
(* is full and panics when the hub has closed it.                           *)
SendSnapshot(c) ==
  /\ At(c, "snapshot") /\ open[c] /\ ~Full(c)
  /\ send' = [send EXCEPT ![c] = Append(@, Snapshot(proc[c].msg))]
  /\ Goto(c, IF proc[c].msg.kind = "status" THEN "locate" ELSE "read")
  /\ UNCHANGED <<trip, hubVars, open, pump, alive, took>>

SnapshotPanics(c) ==
  /\ At(c, "snapshot") /\ ~open[c]
  /\ Goto(c, "ended")
  /\ UNCHANGED <<trip, hubVars, connVars>>

Locate(c, n) ==
  proc' = [proc EXCEPT ![c].msg = Message("position", n),
             ![c].pc = IF n = 0 THEN "read" ELSE "snapshot"]

(* LatestLocation, from the replica where there is one: the second snapshot, *)
(* if there is a position.                                                   *)
LatestLocation(c) ==
  /\ At(c, "locate")
  /\ \E n \in 0 .. trip["position"] : n + Lag >= trip["position"] /\ Locate(c, n)
  /\ UNCHANGED <<trip, hubVars, connVars>>

(* Its error is ignored; the message in hand stays the status.              *)
LocationFails(c) ==
  /\ At(c, "locate")
  /\ Goto(c, "read")
  /\ UNCHANGED <<trip, hubVars, connVars>>

(* Frames of a driver's connection.  One that cannot be saved is skipped.   *)
(* A position is also sent to the driver service before it is broadcast;    *)
(* whatever that answers (DriverSupply has it), here it only takes time.    *)
ReadFrame(c) == c \in DriverConns /\ At(c, "read") /\ alive[c]
ReadStatus(c)   == ReadFrame(c) /\ Change(c, "status", "broadcast")
ReadLocation(c) == ReadFrame(c) /\ Change(c, "position", "broadcast")

\* Mutant of ReadFails: the read pump returns without unregistering.
ReadFailsSilently(c) ==
  /\ At(c, "read") /\ ~alive[c]
  /\ Goto(c, "ended")
  /\ UNCHANGED <<trip, hubVars, connVars>>

ReadFails(c) ==
  /\ At(c, "read") /\ ~alive[c]
  /\ Goto(c, "unregister")
  /\ UNCHANGED <<trip, hubVars, connVars>>

Enqueue(p) ==
  LET h == proc[p].hub
  IN  /\ At(p, "broadcast") /\ Len(chan[h]) < BroadcastCap
      /\ chan' = [chan EXCEPT ![h] = Append(@, proc[p].msg)]
      /\ Goto(p, IF p \in Conns THEN "read" ELSE "ended")
      /\ UNCHANGED <<trip, hubs, listed, log, since, connVars>>

(* The write pump: take and write; stop at a closed channel or an error.    *)
WriteMessage(c) ==
  /\ pump[c] = "on" /\ send[c] # <<>>
  /\ send' = [send EXCEPT ![c] = Tail(@)]
  /\ took' = [took EXCEPT ![c] = Append(@, Head(send[c]))]
  /\ pump' = [pump EXCEPT ![c] = IF alive[c] THEN "on" ELSE "done"]
  /\ UNCHANGED <<trip, hubVars, proc, open, alive>>

StopWriting(c) ==
  /\ pump[c] = "on"
  /\ ~alive[c] \/ (send[c] = <<>> /\ ~open[c])
  /\ pump' = [pump EXCEPT ![c] = "done"]
  /\ alive' = [alive EXCEPT ![c] = FALSE]
  /\ UNCHANGED <<trip, hubVars, proc, send, open, took>>

(* The peer goes away, or misses a deadline.                                *)
Disconnect(c) ==
  /\ alive[c] /\ pump[c] # "off"
  /\ alive' = [alive EXCEPT ![c] = FALSE]
  /\ UNCHANGED <<trip, hubVars, proc, send, open, pump, took>>

HubStep(h) == Broadcast(h) \/ \E c \in Conns : Register(h, c) \/ Unregister(h, c)
Handle(p)  == FindHub(p) \/ CreateHub(p) \/ Enqueue(p)
Connect(c) ==
  \/ SendSnapshot(c) \/ SnapshotPanics(c)
  \/ LatestLocation(c) \/ LocationFails(c)
  \/ ReadFails(c)
Pump(c)    == WriteMessage(c) \/ StopWriting(c)

Next ==
  \/ \E c \in Conns : Fetch(c) \/ ReadStatus(c) \/ ReadLocation(c) \/ Disconnect(c)
  \/ \E u \in Writers : UpdateStatus(u)
  \/ \E p \in Procs : Handle(p)
  \/ \E c \in Conns : Connect(c) \/ Pump(c)
  \/ \E h \in HubIds : HubStep(h)

Spec == Init /\ [][Next]_vars

(* Go runs every goroutine that can run, and a select whose cases stay      *)
(* ready takes each of them in the end; write deadlines make a write pump   *)
(* go on.  Connecting, sending frames and disconnecting are not fair.       *)
TheHub == 1      \* the hub in the map: the only one, by OneHub

FairSpec ==
  /\ Spec
  /\ \A p \in Procs : WF_vars(Handle(p))
  /\ \A c \in Conns : WF_vars(Connect(c)) /\ WF_vars(Pump(c))
  /\ WF_vars(Broadcast(TheHub))
  /\ \A c \in Conns : SF_vars(Register(TheHub, c) \/ Unregister(TheHub, c))

-----------------------------------------------------------------------------
(* Type invariant, with the capacities of the two kinds of channel.         *)
TypeOK ==
  /\ trip \in [Kinds -> Nat] /\ hubs \in 0 .. MaxHubs
  /\ \A h \in HubIds : listed[h] \subseteq Conns /\ Len(chan[h]) <= BroadcastCap
  /\ \A p \in Procs : proc[p].hub \in 0 .. hubs
  /\ \A c \in Conns : Len(send[c]) <= SendCap /\ open[c] \in BOOLEAN

(* The hub only ever sends to and closes channels that are open: a listed   *)
(* client's channel has not been closed.  Sending on or closing a closed    *)
(* channel would panic the hub's goroutine and with it the process.         *)
ListedIsOpen == \A h \in HubIds : \A c \in listed[h] : open[c]

(* One hub per trip: however first subscribers and status changes race in   *)
(* HubManager.get, all of them talk through the hub in the map.             *)
OneHub == \A p \in Procs : proc[p].hub \in {0, 1}

Handed(c)  == took[c] \o send[c]
Numbers(c) == {Handed(c)[i].nth : i \in 1 .. Len(Handed(c))} \ {0}

(* No gaps: what a connection has been handed is an unbroken part of the    *)
(* trip's broadcasts, in their order, from the moment it was registered on, *)
(* and all of it as long as the connection is listed.  A slow client is cut *)
(* off; it never silently misses a status or a position in the middle.      *)
NoGaps ==
  \A c \in Conns :
    LET h == proc[c].hub
    IN  h # 0 =>
          /\ \E last \in since[c] .. Len(log[h]) :
               /\ Numbers(c) = since[c] + 1 .. last
               /\ c \in listed[h] => last = Len(log[h])
          /\ \A i \in 1 .. Len(Handed(c)) :
               LET n == Handed(c)[i].nth
               IN  n # 0 => /\ Handed(c)[i].msg = log[h][n]
                            /\ \A j \in 1 .. i - 1 : Handed(c)[j].nth < n

HasPosition(c, n) == \E i \in 1 .. Len(Handed(c)) : Handed(c)[i].msg = Message("position", n)
OnItsWay == \E p \in Procs : At(p, "broadcast") /\ proc[p].msg.kind = "position"

(* No position falls between the snapshot and the broadcasts: a rider who   *)
(* is connected and was told where the driver is has the latest position,   *)
(* or one no older than the replica, as soon as none is on its way, however *)
(* his connecting and the drivers' frames interleave.  The same cannot be   *)
(* said of the status, which is fetched before the client is registered.    *)
NoPositionMissed ==
  \A c \in Riders :
    At(c, "read") /\ proc[c].msg.kind = "position" /\ c \in listed[proc[c].hub]
      /\ chan[proc[c].hub] = <<>> /\ ~OnItsWay
    => \E n \in 0 .. trip["position"] :
         n + Lag >= trip["position"] /\ (n = 0 \/ HasPosition(c, n))

(* No caller of broadcastJSON is kept waiting: neither slow nor dead        *)
(* subscribers hold up a status change.                                     *)
BroadcastsEnd ==
  \A p \in DriverConns \cup Writers : At(p, "broadcast") ~> ~At(p, "broadcast")

(* A registered connection that breaks is cleaned up: its client leaves the *)
(* hub and both of its goroutines end.  Said of drivers' connections only:  *)
(* the handler of a rider's may wait for ever to send the snapshot, once    *)
(* the write pump has gone and left the channel full.                       *)
ConnectionsEnd ==
  \A c \in DriverConns :
    (pump[c] # "off" /\ ~alive[c])
      ~> (At(c, "ended") /\ pump[c] = "done" /\ \A h \in HubIds : c \notin listed[h])
=============================================================================
