--------------------------- MODULE TripFrontProofs --------------------------
(***************************************************************************)
(* Proofs about TripFront and its two parts, for every number of clients,  *)
(* requests, buckets, pairs and lookups, and every burst, interval and     *)
(* time to live; and about TripHub, for every number of connections and    *)
(* writers, and every capacity of the channels.                            *)
(***************************************************************************)
EXTENDS TripFront, TripHub, SequenceTheorems, TLAPS

-----------------------------------------------------------------------------
(* The routing proxy.                                                      *)

(* What a lookup on its way knows: a straight line it is about to store    *)
(* comes from a failure no older than the lookup has held it, and a road   *)
(* that is good for its pair was stored after it had missed.               *)
LookupFits(l) ==
  /\ ~Doing(l, "idle") => lookup[l].pair \in Pairs
  /\ Doing(l, "save") => lookup[l].got # "none"
  /\ Doing(l, "save") /\ lookup[l].got = "straight" => calm <= lookup[l].held
  /\ ~Doing(l, "idle") /\ Cached(lookup[l].pair) /\ routes[lookup[l].pair].kind = "road"
       => lookup[l].passed

(* A straight line in the cache is as old as its failure, up to the stall. *)
LinesAreRecent ==
  \A p \in Pairs : routes[p].kind = "straight" => calm <= routes[p].age + SaveStall

RoutesInv == RoutesTypeOK /\ LinesAreRecent /\ \A l \in Lookups : LookupFits(l)

LookupTypes == [pc : {"idle", "fetch", "save"}, pair : Pairs \cup {NoPair},
                got : {"none", "road", "straight"}, held : 0 .. SaveStall,
                passed : BOOLEAN]

LEMMA NoCallType == NoCall \in LookupTypes
  BY RoutesOK DEF NoCall, LookupTypes

LEMMA RoutesInitInv == RoutesInit => RoutesInv
  BY RoutesOK DEF RoutesInit, RoutesInv, RoutesTypeOK, LinesAreRecent, LookupFits,
     NoRoute, NoCall, LongCalm, Doing

(* A step of one lookup that leaves the cache and the clock alone.         *)
LEMMA LookupStep ==
  ASSUME RoutesInv, NEW l \in Lookups, NEW call, lookup' = [lookup EXCEPT ![l] = call],
         call \in LookupTypes,
         UNCHANGED <<routes, calm>>, LookupFits(l)'
  PROVE  RoutesInv'
  <1>1. RoutesTypeOK' /\ LinesAreRecent'
    BY DEF RoutesInv, RoutesTypeOK, LinesAreRecent, LookupTypes
  <1>2. ASSUME NEW m \in Lookups, m # l PROVE LookupFits(m)'
    BY <1>2 DEF RoutesInv, RoutesTypeOK, LookupFits, Doing, Cached
  <1> QED BY <1>1, <1>2 DEF RoutesInv

LEMMA EndCallInv ==
  ASSUME RoutesInv, NEW l \in Lookups, EndCall(l), UNCHANGED <<routes, calm>>
  PROVE  RoutesInv'
  <1>1. LookupFits(l)'
    BY DEF RoutesInv, RoutesTypeOK, EndCall, LookupFits, Doing, NoCall
  <1> QED BY <1>1, LookupStep, NoCallType DEF EndCall

LEMMA AskInv ==
  ASSUME RoutesInv, NEW l \in Lookups, NEW p \in Pairs, Ask(l, p) PROVE RoutesInv'
  <1> DEFINE call == [NoCall EXCEPT !.pc = "fetch", !.pair = p]
  <1>1. LookupFits(l)'
    BY DEF RoutesInv, RoutesTypeOK, Ask, AskUpstream, LookupFits, Doing, NoCall, Cached
  <1>2. lookup' = [lookup EXCEPT ![l] = call] /\ UNCHANGED <<routes, calm>>
    BY DEF Ask, AskUpstream
  <1>3. call \in LookupTypes
    BY NoCallType DEF LookupTypes
  <1> HIDE DEF call
  <1> QED BY <1>1, <1>2, <1>3, LookupStep

LEMMA UpstreamAnswersInv ==
  ASSUME RoutesInv, NEW l \in Lookups, UpstreamAnswers(l) PROVE RoutesInv'
  <1>1. CASE Got(l, "road")
    <2> DEFINE call == [lookup[l] EXCEPT !.pc = "save", !.got = "road"]
    <2>1. LookupFits(l)'
      BY <1>1 DEF RoutesInv, RoutesTypeOK, UpstreamAnswers, Got, LookupFits, Doing, Cached
    <2>2. lookup' = [lookup EXCEPT ![l] = call]
      BY <1>1 DEF Got, RoutesInv, RoutesTypeOK
    <2>3. call \in LookupTypes
      BY DEF RoutesInv, RoutesTypeOK, LookupTypes
    <2> HIDE DEF call
    <2> QED BY <2>1, <2>2, <2>3, LookupStep DEF UpstreamAnswers
  <1>2. CASE EndCall(l)
    BY <1>2, EndCallInv DEF UpstreamAnswers
  <1> QED BY <1>1, <1>2 DEF UpstreamAnswers

(* A failure starts the time without failures anew.                        *)
LEMMA UpstreamFailsInv ==
  ASSUME RoutesInv, NEW l \in Lookups, UpstreamFails(l) PROVE RoutesInv'
  <1> USE RoutesOK DEF RoutesInv, RoutesTypeOK, UpstreamFails, Got, EndCall, Doing, NoCall
  <1>1. lookup' \in [Lookups -> LookupTypes]
    <2>1. lookup \in [Lookups -> LookupTypes]
      BY DEF LookupTypes
    <2>2. [lookup[l] EXCEPT !.pc = "save", !.got = "straight"] \in LookupTypes
      BY <2>1 DEF LookupTypes
    <2>3. Got(l, "straight")
            => lookup' = [lookup EXCEPT ![l] = [lookup[l] EXCEPT !.pc = "save", !.got = "straight"]]
      BY <2>1 DEF LookupTypes
    <2> QED BY <2>1, <2>2, <2>3, NoCallType
  <1>2. LinesAreRecent' /\ calm' \in 0 .. LongCalm /\ routes' = routes
    BY DEF LinesAreRecent, LongCalm
  <1>3. ASSUME NEW m \in Lookups PROVE LookupFits(m)'
    BY DEF LookupFits, Cached
  <1> QED BY <1>1, <1>2, <1>3 DEF LookupTypes

LEMMA SaveInv ==
  ASSUME RoutesInv, NEW l \in Lookups, Save(l) PROVE RoutesInv'
  <1> USE RoutesOK DEF RoutesInv, RoutesTypeOK, Save, Doing
  <1>1. lookup[l].pair \in Pairs /\ lookup[l].got \in {"road", "straight"}
    BY DEF LookupFits
  <1>2. RoutesTypeOK'
    <2>1. routes' \in [Pairs -> [kind : {"none", "road", "straight"}, age : 0 .. RouteTtl + 1]]
      BY <1>1
    <2>2. ASSUME NEW m \in Lookups PROVE lookup'[m] \in LookupTypes
      <3>1. lookup[m] \in LookupTypes /\ [lookup[m] EXCEPT !.passed = TRUE] \in LookupTypes
        BY DEF LookupTypes
      <3>2. lookup'[m] \in {NoCall, lookup[m], [lookup[m] EXCEPT !.passed = TRUE]}
        OBVIOUS
      <3> QED BY <3>1, <3>2, NoCallType
    <2>3. lookup' \in [Lookups -> LookupTypes]
      <3>1. lookup' = [m \in Lookups |-> lookup'[m]]
        OBVIOUS
      <3> QED BY <3>1, <2>2
    <2> QED BY <2>1, <2>3 DEF LookupTypes
  <1>3. LinesAreRecent'
    BY <1>1 DEF LinesAreRecent, LookupFits
  <1>4. ASSUME NEW m \in Lookups PROVE LookupFits(m)'
    <2>1. CASE m = l
      BY <2>1 DEF LookupFits, NoCall
    <2>2. CASE m # l
      BY <2>2, <1>1 DEF LookupFits, Cached
    <2> QED BY <2>1, <2>2
  <1> QED BY <1>2, <1>3, <1>4

LEMMA RoutesTickInv == ASSUME RoutesInv, RoutesTick PROVE RoutesInv'
  <1> USE RoutesOK DEF RoutesInv, RoutesTypeOK, RoutesTick, Later, LongCalm, Doing, NoRoute
  <1>1. RoutesTypeOK'
    OBVIOUS
  <1>2. LinesAreRecent'
    BY DEF LinesAreRecent
  <1>3. ASSUME NEW m \in Lookups PROVE LookupFits(m)'
    BY DEF LookupFits, Cached
  <1> QED BY <1>1, <1>2, <1>3

LEMMA RoutesRestartInv == ASSUME RoutesInv, RoutesRestart PROVE RoutesInv'
  BY RoutesOK DEF RoutesInv, RoutesTypeOK, RoutesRestart, LinesAreRecent, LookupFits,
     NoRoute, NoCall, Doing

LEMMA RoutesNextInv == RoutesInv /\ [RoutesNext]_routeVars => RoutesInv'
  <1> SUFFICES ASSUME RoutesInv, [RoutesNext]_routeVars PROVE RoutesInv'
    OBVIOUS
  <1>1. CASE UNCHANGED routeVars
    BY <1>1 DEF routeVars, RoutesInv, RoutesTypeOK, LinesAreRecent, LookupFits, Doing, Cached
  <1>2. ASSUME NEW l \in Lookups, GetRoute(l) PROVE RoutesInv'
    BY <1>2, AskInv, UpstreamAnswersInv, UpstreamFailsInv, SaveInv DEF GetRoute
  <1> QED BY <1>1, <1>2, RoutesTickInv, RoutesRestartInv DEF RoutesNext

LEMMA RoutesInvAlways == RoutesSpec => []RoutesInv
  BY RoutesInitInv, RoutesNextInv, PTL DEF RoutesSpec

(* A straight line is found only while a request to the upstream has       *)
(* failed within the time an entry is kept and the time to store it.       *)
THEOREM RoadsAlwaysReturn == RoutesSpec => []RoadsReturn
  <1>1. RoutesInv => RoadsReturn
    BY RoutesOK DEF RoutesInv, RoutesTypeOK, LinesAreRecent, RoadsReturn, Cached
  <1> QED BY <1>1, RoutesInvAlways, PTL

(* A good road is replaced by a straight line only by a lookup that had    *)
(* missed before the road was stored.                                      *)
THEOREM RoadsStay == RoutesSpec => RoadsAreKept
  <1> DEFINE Kept == \A p \in Pairs :
        Cached(p) /\ routes[p].kind = "road" /\ routes'[p].kind = "straight" =>
          \E l \in Lookups : Doing(l, "save") /\ lookup[l].pair = p /\ lookup[l].passed
  <1>1. RoutesInv /\ [RoutesNext]_routeVars => [Kept]_routeVars
    <2> SUFFICES ASSUME RoutesInv, RoutesNext, NEW p \in Pairs,
                        Cached(p), routes[p].kind = "road", routes'[p].kind = "straight"
                 PROVE  \E l \in Lookups :
                          Doing(l, "save") /\ lookup[l].pair = p /\ lookup[l].passed
      OBVIOUS
    <2>1. ~UNCHANGED routes /\ ~RoutesTick /\ ~RoutesRestart
      BY DEF RoutesTick, RoutesRestart, NoRoute, RoutesInv, RoutesTypeOK
    <2>2. PICK l \in Lookups : Save(l)
      BY <2>1 DEF RoutesNext, GetRoute, Ask, UpstreamAnswers, UpstreamFails
    <2>3. lookup[l].pair = p
      BY <2>2 DEF Save, RoutesInv, RoutesTypeOK
    <2> QED BY <2>2, <2>3 DEF Save, RoutesInv, LookupFits, Doing
  <1> QED BY <1>1, RoutesInvAlways, PTL DEF RoutesSpec, RoadsAreKept

-----------------------------------------------------------------------------
(* The rate limiter.                                                       *)

LEMMA CapFacts ==
  /\ Cap \in Nat /\ Ttl = 2 * Cap /\ Stall + Cap <= Ttl
  /\ Stall \in Nat /\ Interval \in Nat \ {0} /\ MaxWatch \in Nat
  BY LimiterOK DEF Cap, Ttl, Window

Entries == [bucket : Buckets, idle : 0 .. Ttl + 1] \cup {Absent}
Held    == [client : Clients, bucket : Buckets, age : 0 .. Stall] \cup {Unheld}

(* What a client may still be granted at once: what its bucket holds, or   *)
(* what a new one would.                                                   *)
Left(c) == IF Seen(c) THEN level[limiters[c].bucket] ELSE Cap

(* A bucket was last looked up no earlier than by the request holding it.  *)
HeldIsFresh == \A r \in Requests : Holds(r) => limiters[req[r].client].idle <= req[r].age

(* A bucket not looked up for a while has filled up meanwhile.             *)
IdleIsFull == \A c \in Clients : Seen(c) => Left(c) = Cap \/ limiters[c].idle <= Left(c) + Stall

(* What was granted since the watch began is no longer there to grant.     *)
GrantsAreSpent == \A c \in Clients : spent[c] + Left(c) <= Cap + watched

LimiterInv == LimiterTypeOK /\ OneBucket /\ HeldIsFresh /\ IdleIsFull /\ GrantsAreSpent

LEMMA SeenFacts ==
  ASSUME LimiterTypeOK
  PROVE  /\ \A c \in Clients :
              /\ Left(c) \in 0 .. Cap /\ spent[c] \in Nat
              /\ Seen(c) => limiters[c].bucket \in Buckets /\ limiters[c].idle \in 0 .. Ttl + 1
              /\ ~Seen(c) => limiters[c] = Absent
         /\ \A r \in Requests :
              /\ Holds(r) => /\ req[r].client \in Clients /\ req[r].bucket \in Buckets
                             /\ req[r].age \in 0 .. Stall
              /\ ~Holds(r) => req[r] = Unheld
         /\ watched \in Nat
  <1>1. ASSUME NEW c \in Clients
        PROVE  /\ Seen(c) => limiters[c].bucket \in Buckets /\ limiters[c].idle \in 0 .. Ttl + 1
               /\ ~Seen(c) => limiters[c] = Absent
    BY LimiterOK DEF LimiterTypeOK, Seen, Absent
  <1>2. ASSUME NEW c \in Clients PROVE Left(c) \in 0 .. Cap /\ spent[c] \in Nat
    BY <1>1, CapFacts DEF Left, LimiterTypeOK
  <1>3. ASSUME NEW r \in Requests
        PROVE  /\ Holds(r) => /\ req[r].client \in Clients /\ req[r].bucket \in Buckets
                              /\ req[r].age \in 0 .. Stall
               /\ ~Holds(r) => req[r] = Unheld
    BY LimiterOK DEF LimiterTypeOK, Holds, Unheld
  <1>4. watched \in Nat
    BY CapFacts DEF LimiterTypeOK
  <1> QED BY <1>1, <1>2, <1>3, <1>4

LEMMA LimiterInitInv == LimiterInit => LimiterInv
  <1> SUFFICES ASSUME LimiterInit PROVE LimiterInv
    OBVIOUS
  <1>1. \A c \in Clients : ~Seen(c)
    BY DEF LimiterInit, Seen, Absent
  <1>2. \A r \in Requests : ~Holds(r)
    BY DEF LimiterInit, Holds, Unheld
  <1>3. LimiterTypeOK
    BY CapFacts DEF LimiterInit, LimiterTypeOK
  <1>4. GrantsAreSpent
    <2>1. \A c \in Clients : spent[c] = 0 /\ Left(c) = Cap
      BY <1>1 DEF LimiterInit, Left
    <2>2. watched = 0
      BY DEF LimiterInit
    <2> SUFFICES ASSUME NEW c \in Clients PROVE spent[c] + Left(c) <= Cap + watched
      BY DEF GrantsAreSpent
    <2> QED BY <2>1, <2>2, CapFacts
  <1> QED BY <1>1, <1>2, <1>3, <1>4 DEF LimiterInv, OneBucket, HeldIsFresh, IdleIsFull

LEMMA FindInv ==
  ASSUME LimiterInv, NEW r \in Requests, NEW c \in Clients, FindLimiter(r, c)
  PROVE  LimiterInv' /\ \A d \in Clients : Left(d)' = Left(d)
  <1>1. /\ limiters[c].bucket \in Buckets /\ Seen(c)
        /\ limiters \in [Clients -> Entries] /\ req \in [Requests -> Held]
    BY SeenFacts DEF LimiterInv, FindLimiter, LimiterTypeOK, Entries, Held
  <1>2. limiters[c] \in [bucket : Buckets, idle : 0 .. Ttl + 1]
    BY <1>1, LimiterOK DEF Entries, Seen, Absent
  <1>3. [limiters[c] EXCEPT !.idle = 0] \in Entries
    BY <1>2, CapFacts DEF Entries
  <1>4. [client |-> c, bucket |-> limiters[c].bucket, age |-> 0] \in Held
    BY <1>1, CapFacts DEF Held
  <1>5. LimiterTypeOK'
    BY <1>1, <1>3, <1>4 DEF LimiterInv, LimiterTypeOK, FindLimiter, Hold, Entries, Held
  <1>6. \A d \in Clients : limiters'[d].bucket = limiters[d].bucket /\ Seen(d)' = Seen(d)
    BY <1>1, <1>2 DEF FindLimiter, Seen
  <1>7. \A d \in Clients : Left(d)' = Left(d)
    BY <1>6 DEF Left, FindLimiter
  <1>8. ASSUME NEW s \in Requests, Holds(s)'
        PROVE  /\ limiters'[req'[s].client].bucket = req'[s].bucket
               /\ limiters'[req'[s].client].idle <= req'[s].age
    <2>1. CASE s = r
      BY <2>1, <1>1, <1>2 DEF FindLimiter, Hold
    <2>2. CASE s # r
      <3>1. req'[s] = req[s] /\ Holds(s)
        BY <2>2, <1>8, <1>1 DEF FindLimiter, Hold, Holds
      <3>2. /\ req[s].client \in Clients /\ req[s].age \in Nat
            /\ limiters[req[s].client].idle <= req[s].age
        BY <3>1, SeenFacts, CapFacts DEF LimiterInv, HeldIsFresh
      <3>3. limiters'[req[s].client].idle \in {0, limiters[req[s].client].idle}
        BY <3>2, <1>1, <1>2 DEF FindLimiter
      <3> QED BY <3>1, <3>2, <3>3, <1>6 DEF LimiterInv, OneBucket
    <2> QED BY <2>1, <2>2
  <1>9. OneBucket' /\ HeldIsFresh'
    BY <1>6, <1>8 DEF OneBucket, HeldIsFresh, LimiterInv
  <1>10. IdleIsFull'
    <2> SUFFICES ASSUME NEW d \in Clients, Seen(d)'
                 PROVE  Left(d)' = Cap \/ limiters'[d].idle <= Left(d)' + Stall
      BY DEF IdleIsFull
    <2>1. limiters'[d].idle \in {0, limiters[d].idle}
      BY <1>1, <1>2 DEF FindLimiter
    <2>2. Left(d)' = Left(d) /\ Left(d) \in Nat /\ Seen(d)
      BY <1>6, <1>7, SeenFacts, CapFacts DEF LimiterInv
    <2> QED BY <2>1, <2>2, CapFacts DEF LimiterInv, IdleIsFull
  <1>11. GrantsAreSpent'
    BY <1>7 DEF GrantsAreSpent, LimiterInv, FindLimiter
  <1> QED BY <1>5, <1>7, <1>9, <1>10, <1>11 DEF LimiterInv

(* A new bucket belongs to nobody else.  Those that are dropped are held   *)
(* by no request, and full.                                                *)
LEMMA NewInv ==
  ASSUME LimiterInv, NEW r \in Requests, NEW c \in Clients, NewLimiter(r, c)
  PROVE  LimiterInv' /\ \A d \in Clients : Left(d)' = Left(d)
  <1>1. PICK b \in Buckets \ InUse :
          /\ level' = [level EXCEPT ![b] = Cap]
          /\ limiters' = [d \in Clients |->
               IF d = c THEN [bucket |-> b, idle |-> 0]
               ELSE IF Outdated(d) THEN Absent ELSE limiters[d]]
          /\ Hold(r, c, b)
    BY DEF NewLimiter
  <1>2. /\ limiters \in [Clients -> Entries] /\ req \in [Requests -> Held]
        /\ level \in [Buckets -> 0 .. Cap] /\ ~Seen(c) /\ UNCHANGED <<spent, watched>>
    BY DEF LimiterInv, LimiterTypeOK, Entries, Held, NewLimiter
  <1>3. [bucket |-> b, idle |-> 0] \in Entries /\ [client |-> c, bucket |-> b, age |-> 0] \in Held
    BY CapFacts DEF Entries, Held
  <1>4. LimiterTypeOK'
    <2>1. limiters' \in [Clients -> Entries]
      BY <1>1, <1>2, <1>3 DEF Entries
    <2>2. req' \in [Requests -> Held]
      BY <1>1, <1>2, <1>3 DEF Hold
    <2>3. level' \in [Buckets -> 0 .. Cap]
      BY <1>1, <1>2, CapFacts
    <2> QED BY <2>1, <2>2, <2>3 DEF LimiterInv, LimiterTypeOK, NewLimiter, Entries, Held
  <1>5. \A d \in Clients : Outdated(d) => Left(d) = Cap
    BY SeenFacts, CapFacts DEF LimiterInv, IdleIsFull, Outdated
  <1>6. /\ limiters'[c].bucket = b /\ limiters'[c].idle = 0 /\ Seen(c)'
        /\ \A d \in Clients \ {c} :
             \/ Outdated(d) /\ ~Seen(d)'
             \/ limiters'[d] = limiters[d] /\ Seen(d)' = Seen(d)
    BY <1>1, LimiterOK DEF Seen, Absent
  <1>7. \A d \in Clients : Left(d)' = Left(d)
    <2>1. \A d \in Clients : Seen(d) => limiters[d].bucket # b /\ limiters[d].bucket \in Buckets
      BY SeenFacts DEF LimiterInv, InUse
    <2> QED BY <1>1, <1>2, <1>5, <1>6, <2>1 DEF Left
  <1>8. ASSUME NEW s \in Requests, Holds(s)'
        PROVE  /\ limiters'[req'[s].client].bucket = req'[s].bucket
               /\ limiters'[req'[s].client].idle <= req'[s].age
    <2>1. CASE s = r
      BY <2>1, <1>1, <1>2, <1>6 DEF Hold
    <2>2. CASE s # r
      <3>1. req'[s] = req[s] /\ Holds(s)
        BY <2>2, <1>8, <1>1, <1>2 DEF Hold, Holds
      <3>2. /\ req[s].client \in Clients /\ req[s].age \in 0 .. Stall
            /\ limiters[req[s].client].bucket = req[s].bucket
            /\ limiters[req[s].client].idle <= req[s].age
            /\ req[s].bucket \in Buckets
        BY <3>1, SeenFacts DEF LimiterInv, HeldIsFresh, OneBucket
      <3>3. Seen(req[s].client) /\ ~Outdated(req[s].client)
        BY <3>2, LimiterOK, CapFacts, SeenFacts DEF Outdated, Seen, LimiterInv
      <3> QED BY <3>1, <3>2, <3>3, <1>2, <1>6
    <2> QED BY <2>1, <2>2
  <1>9. OneBucket'
    <2>1. \A d, e \in Clients : Seen(d)' /\ limiters'[d].bucket = limiters'[e].bucket => d = e
      <3>1. \A d \in Clients \ {c} : limiters'[d].bucket # b
        <4>1. b # None /\ \A d \in Clients : limiters[d].bucket # b
          BY LimiterOK DEF InUse
        <4> QED BY <1>6, <4>1 DEF Seen
      <3>2. ASSUME NEW d \in Clients \ {c}, NEW e \in Clients \ {c}, Seen(d)',
                   limiters'[d].bucket = limiters'[e].bucket
            PROVE  d = e
        <4>1. Seen(e)'
          BY <3>2 DEF Seen
        <4> QED BY <3>2, <4>1, <1>6 DEF LimiterInv, OneBucket
      <3> QED BY <3>1, <3>2, <1>6
    <2> QED BY <1>8, <2>1 DEF OneBucket
  <1>10. HeldIsFresh'
    BY <1>8 DEF HeldIsFresh
  <1>11. IdleIsFull'
    <2> SUFFICES ASSUME NEW d \in Clients, Seen(d)'
                 PROVE  Left(d)' = Cap \/ limiters'[d].idle <= Left(d)' + Stall
      BY DEF IdleIsFull
    <2>1. CASE d = c
      BY <2>1, <1>6, <1>7, <1>2, CapFacts DEF Left
    <2>2. CASE d # c
      BY <2>2, <1>6, <1>7 DEF LimiterInv, IdleIsFull
    <2> QED BY <2>1, <2>2
  <1>12. GrantsAreSpent'
    BY <1>2, <1>7 DEF GrantsAreSpent, LimiterInv
  <1> QED BY <1>4, <1>7, <1>9, <1>10, <1>11, <1>12 DEF LimiterInv

LEMMA AllowInv ==
  ASSUME LimiterInv, NEW r \in Requests, Allow(r)
  PROVE  /\ LimiterInv'
         /\ \/ \A d \in Clients : Left(d)' = Left(d)
            \/ \E c \in Clients :
                 /\ Left(c) >= Interval /\ Left(c)' = Left(c) - Interval
                 /\ \A d \in Clients \ {c} : Left(d)' = Left(d)
  <1>0. PICK c \in Clients, b \in Buckets : req[r].client = c /\ req[r].bucket = b
    BY SeenFacts DEF LimiterInv, Allow
  <1> DEFINE granted == level[b] >= Interval
  <1>1. /\ limiters \in [Clients -> Entries] /\ req \in [Requests -> Held]
        /\ level \in [Buckets -> 0 .. Cap] /\ spent \in [Clients -> Nat]
        /\ limiters[c].bucket = b /\ Seen(c) /\ limiters[c].idle \in 0 .. Stall
    <2>1. /\ Holds(r) /\ req[r].age \in 0 .. Stall
          /\ limiters[c].bucket = b /\ limiters[c].idle <= req[r].age
      BY <1>0, SeenFacts DEF LimiterInv, Allow, HeldIsFresh, OneBucket
    <2>2. Seen(c)
      BY <2>1, LimiterOK DEF Seen
    <2>3. limiters[c].idle \in 0 .. Ttl + 1
      BY <2>1, <2>2, SeenFacts DEF LimiterInv
    <2> QED BY <2>1, <2>2, <2>3, CapFacts DEF LimiterInv, LimiterTypeOK, Entries, Held
  <1>2. UNCHANGED <<limiters, watched, run>> /\ req' = [req EXCEPT ![r] = Unheld]
    BY DEF Allow, Finish
  <1>3. /\ granted => /\ level' = [level EXCEPT ![b] = @ - Interval]
                      /\ spent' = [spent EXCEPT ![c] = @ + Interval]
        /\ ~granted => UNCHANGED <<level, spent>>
    BY <1>0 DEF Allow
  <1>4. \A d \in Clients : Seen(d)' = Seen(d) /\ limiters'[d] = limiters[d]
    BY <1>2 DEF Seen
  <1>5. LimiterTypeOK'
    <2>1. req' \in [Requests -> Held]
      BY <1>1, <1>2 DEF Held
    <2>2. level' \in [Buckets -> 0 .. Cap] /\ spent' \in [Clients -> Nat]
      BY <1>1, <1>3, CapFacts
    <2> QED BY <1>2, <2>1, <2>2 DEF LimiterInv, LimiterTypeOK, Held
  <1>6. OneBucket' /\ HeldIsFresh'
    <2>1. ASSUME NEW s \in Requests, Holds(s)' PROVE req'[s] = req[s] /\ Holds(s)
      BY <2>1, <1>1, <1>2 DEF Holds, Unheld
    <2>2. OneBucket'
      BY <2>1, <1>2, <1>4 DEF OneBucket, LimiterInv
    <2>3. HeldIsFresh'
      BY <2>1, <1>2 DEF HeldIsFresh, LimiterInv
    <2> QED BY <2>2, <2>3
  <1>7. \A d \in Clients \ {c} : Left(d)' = Left(d)
    <2> SUFFICES ASSUME NEW d \in Clients \ {c}, Seen(d) PROVE level'[limiters[d].bucket] = level[limiters[d].bucket]
      BY <1>4 DEF Left
    <2>1. limiters[d].bucket # b /\ limiters[d].bucket \in Buckets
      BY <1>1, SeenFacts DEF LimiterInv, OneBucket
    <2> QED BY <2>1, <1>1, <1>3
  <1>8. Left(c) = level[b] /\ Left(c)' = level'[b]
    BY <1>1, <1>2, <1>4 DEF Left
  <1>9. IdleIsFull'
    <2> SUFFICES ASSUME NEW d \in Clients, Seen(d)
                 PROVE  Left(d)' = Cap \/ limiters[d].idle <= Left(d)' + Stall
      BY <1>4 DEF IdleIsFull
    <2>1. CASE d = c
      <3>1. Left(c)' \in Nat
        BY <1>5, <1>8, <1>1 DEF LimiterTypeOK
      <3> QED BY <2>1, <3>1, <1>1, CapFacts
    <2>2. CASE d # c
      BY <2>2, <1>7 DEF LimiterInv, IdleIsFull
    <2> QED BY <2>1, <2>2
  <1>10. GrantsAreSpent'
    <2> SUFFICES ASSUME NEW d \in Clients PROVE spent'[d] + Left(d)' <= Cap + watched
      BY <1>2 DEF GrantsAreSpent
    <2>1. spent[d] + Left(d) <= Cap + watched
      BY DEF LimiterInv, GrantsAreSpent
    <2>2. CASE d = c /\ granted
      BY <2>1, <2>2, <1>1, <1>3, <1>8, CapFacts
    <2>3. CASE d = c /\ ~granted
      BY <2>1, <2>3, <1>3, <1>8
    <2>4. CASE d # c
      BY <2>1, <2>4, <1>1, <1>3, <1>7
    <2> QED BY <2>2, <2>3, <2>4
  <1>11. CASE granted
    <2>1. Left(c) >= Interval /\ Left(c)' = Left(c) - Interval
      BY <1>1, <1>3, <1>8, <1>11
    <2> QED BY <2>1, <1>1, <1>5, <1>6, <1>7, <1>9, <1>10 DEF LimiterInv
  <1>12. CASE ~granted
    BY <1>12, <1>3, <1>5, <1>6, <1>7, <1>8, <1>9, <1>10 DEF LimiterInv
  <1> QED BY <1>11, <1>12

LEMMA LimiterTickInv ==
  ASSUME LimiterInv, LimiterTick
  PROVE  LimiterInv' /\ \A d \in Clients : Left(d)' = UpTo(Left(d), Cap)
  <1>1. /\ limiters \in [Clients -> Entries] /\ req \in [Requests -> Held]
        /\ level \in [Buckets -> 0 .. Cap] /\ watched \in Nat
        /\ watched' = watched + 1 /\ UNCHANGED <<spent, run>>
    BY SeenFacts DEF LimiterInv, LimiterTypeOK, Entries, Held, LimiterTick
  <1>2. ASSUME NEW d \in Clients
        PROVE  /\ limiters'[d] \in Entries /\ Seen(d)' = Seen(d)
               /\ limiters'[d].bucket = limiters[d].bucket
               /\ Seen(d) => limiters'[d].idle = UpTo(limiters[d].idle, Ttl + 1)
    <2>1. CASE Seen(d)
      <3>1. limiters[d] \in [bucket : Buckets, idle : 0 .. Ttl + 1]
        BY <1>1, <2>1, LimiterOK DEF Entries, Seen, Absent
      <3>2. limiters'[d] = [limiters[d] EXCEPT !.idle = UpTo(@, Ttl + 1)]
        BY <2>1 DEF LimiterTick
      <3>3. UpTo(limiters[d].idle, Ttl + 1) \in 0 .. Ttl + 1
        BY <3>1, CapFacts DEF UpTo
      <3> QED BY <2>1, <3>1, <3>2, <3>3 DEF Entries, Seen
    <2>2. CASE ~Seen(d)
      BY <2>2, SeenFacts DEF LimiterTick, Entries, Seen, LimiterInv
    <2> QED BY <2>1, <2>2
  <1>3. ASSUME NEW r \in Requests
        PROVE  /\ req'[r] \in Held /\ Holds(r)' = Holds(r)
               /\ req'[r].client = req[r].client /\ req'[r].bucket = req[r].bucket
               /\ Holds(r) => req'[r].age = req[r].age + 1
    <2>1. CASE Holds(r)
      <3>1. req[r] \in [client : Clients, bucket : Buckets, age : 0 .. Stall]
        BY <1>1, <2>1, LimiterOK DEF Held, Holds, Unheld
      <3>2. req'[r] = [req[r] EXCEPT !.age = @ + 1] /\ req[r].age < Stall
        BY <2>1 DEF LimiterTick
      <3>3. req[r].age + 1 \in 0 .. Stall
        BY <3>1, <3>2, CapFacts
      <3> QED BY <2>1, <3>1, <3>2, <3>3 DEF Held, Holds
    <2>2. CASE ~Holds(r)
      BY <2>2, SeenFacts DEF LimiterTick, Held, Holds, LimiterInv
    <2> QED BY <2>1, <2>2
  <1>4. \A d \in Clients : Left(d)' = UpTo(Left(d), Cap) /\ Left(d) \in 0 .. Cap
    <2> SUFFICES ASSUME NEW d \in Clients PROVE Left(d)' = UpTo(Left(d), Cap)
      BY SeenFacts DEF LimiterInv
    <2>1. CASE Seen(d)
      <3>1. level'[limiters[d].bucket] = UpTo(level[limiters[d].bucket], Cap)
        BY <2>1, SeenFacts DEF LimiterTick, LimiterInv
      <3> QED BY <2>1, <3>1, <1>2 DEF Left
    <2>2. CASE ~Seen(d)
      BY <2>2, <1>2, CapFacts DEF Left, UpTo
    <2> QED BY <2>1, <2>2
  <1>5. LimiterTypeOK'
    <2>1. limiters' \in [Clients -> Entries] /\ req' \in [Requests -> Held]
      BY <1>2, <1>3 DEF LimiterTick
    <2>2. level' \in [Buckets -> 0 .. Cap]
      BY <1>1, CapFacts DEF LimiterTick, UpTo
    <2>3. watched' \in 0 .. MaxWatch
      BY CapFacts DEF LimiterInv, LimiterTypeOK, LimiterTick
    <2> QED BY <1>1, <2>1, <2>2, <2>3 DEF LimiterInv, LimiterTypeOK, Entries, Held
  <1>6. OneBucket'
    <2>1. \A r \in Requests : Holds(r) => req[r].client \in Clients
      BY SeenFacts DEF LimiterInv
    <2> QED BY <2>1, <1>2, <1>3 DEF OneBucket, LimiterInv
  <1>7. HeldIsFresh'
    <2> SUFFICES ASSUME NEW r \in Requests, Holds(r)
                 PROVE  limiters'[req[r].client].idle <= req[r].age + 1
      BY <1>3 DEF HeldIsFresh
    <2>1. /\ req[r].client \in Clients /\ req[r].age \in Nat
          /\ limiters[req[r].client].idle <= req[r].age
          /\ limiters[req[r].client].bucket = req[r].bucket /\ req[r].bucket \in Buckets
      BY SeenFacts, CapFacts DEF LimiterInv, HeldIsFresh, OneBucket
    <2>2. Seen(req[r].client)
      BY <2>1, LimiterOK DEF Seen
    <2>3. limiters[req[r].client].idle \in 0 .. Ttl + 1
      BY <2>1, <2>2, SeenFacts DEF LimiterInv
    <2> QED BY <2>1, <2>2, <2>3, <1>2, CapFacts DEF UpTo
  <1>8. IdleIsFull'
    <2> SUFFICES ASSUME NEW d \in Clients, Seen(d)
                 PROVE  Left(d)' = Cap \/ limiters'[d].idle <= Left(d)' + Stall
      BY <1>2 DEF IdleIsFull
    <2>1. limiters[d].idle \in 0 .. Ttl + 1 /\ (Left(d) = Cap \/ limiters[d].idle <= Left(d) + Stall)
      BY SeenFacts DEF LimiterInv, IdleIsFull
    <2> QED BY <2>1, <1>2, <1>4, CapFacts DEF UpTo
  <1>9. GrantsAreSpent'
    <2> SUFFICES ASSUME NEW d \in Clients PROVE spent[d] + Left(d)' <= Cap + watched + 1
      BY <1>1, CapFacts DEF GrantsAreSpent
    <2>1. spent[d] \in Nat /\ spent[d] + Left(d) <= Cap + watched
      BY SeenFacts DEF LimiterInv, GrantsAreSpent
    <2> QED BY <2>1, <1>1, <1>4, CapFacts DEF UpTo
  <1> QED BY <1>4, <1>5, <1>6, <1>7, <1>8, <1>9 DEF LimiterInv

LEMMA WatchInv ==
  ASSUME LimiterInv, Watch PROVE LimiterInv' /\ \A d \in Clients : Left(d)' = Left(d)
  <1>1. \A d \in Clients : Seen(d)' = Seen(d) /\ Left(d)' = Left(d) /\ Left(d) \in 0 .. Cap
    BY SeenFacts DEF Watch, Seen, Left, LimiterInv
  <1>2. LimiterTypeOK'
    BY CapFacts DEF Watch, LimiterInv, LimiterTypeOK
  <1>3. OneBucket' /\ HeldIsFresh' /\ IdleIsFull'
    BY <1>1 DEF Watch, LimiterInv, OneBucket, HeldIsFresh, IdleIsFull, Holds
  <1>4. GrantsAreSpent'
    <2>1. \A d \in Clients : spent'[d] = 0 /\ watched' = 0
      BY DEF Watch
    <2> QED BY <1>1, <2>1, CapFacts DEF GrantsAreSpent
  <1> QED BY <1>1, <1>2, <1>3, <1>4 DEF LimiterInv

LEMMA LimiterRestartInv ==
  ASSUME LimiterInv, LimiterRestart PROVE LimiterInv' /\ \A d \in Clients : Left(d)' = Cap
  <1>1. \A c \in Clients : ~Seen(c)'
    BY DEF LimiterRestart, Seen, Absent
  <1>2. \A r \in Requests : ~Holds(r)'
    BY DEF LimiterRestart, Holds, Unheld
  <1>3. LimiterTypeOK'
    BY CapFacts DEF LimiterRestart, LimiterInv, LimiterTypeOK
  <1>4. \A c \in Clients : spent'[c] = 0 /\ Left(c)' = Cap
    BY <1>1 DEF LimiterRestart, Left
  <1>5. GrantsAreSpent'
    BY <1>4, CapFacts DEF LimiterRestart, GrantsAreSpent
  <1> QED BY <1>1, <1>2, <1>3, <1>4, <1>5 DEF LimiterInv, OneBucket, HeldIsFresh, IdleIsFull

LEMMA LimiterNextInv == LimiterInv /\ [LimiterNext]_limiterVars => LimiterInv'
  <1> SUFFICES ASSUME LimiterInv, [LimiterNext]_limiterVars PROVE LimiterInv'
    OBVIOUS
  <1>1. CASE UNCHANGED limiterVars
    BY <1>1 DEF limiterVars, LimiterInv, LimiterTypeOK, OneBucket, HeldIsFresh, IdleIsFull,
       GrantsAreSpent, Left, Seen, Holds
  <1>2. ASSUME NEW r \in Requests, Limit(r) PROVE LimiterInv'
    BY <1>2, FindInv, NewInv, AllowInv DEF Limit
  <1> QED BY <1>1, <1>2, LimiterTickInv, WatchInv, LimiterRestartInv DEF LimiterNext

LEMMA LimiterInvAlways == LimiterSpec => []LimiterInv
  BY LimiterInitInv, LimiterNextInv, PTL DEF LimiterSpec

(* No client ever has two buckets.                                         *)
THEOREM ClientsHaveOneBucket == LimiterSpec => []OneBucket
  BY LimiterInvAlways, PTL DEF LimiterInv

(* Since any moment, a client was granted no more than a full bucket and   *)
(* what came back meanwhile.                                               *)
THEOREM GrantsAreLimited == LimiterSpec => []NeverOverRate
  <1>1. LimiterInv => NeverOverRate
    <2> SUFFICES ASSUME LimiterInv, NEW c \in Clients PROVE spent[c] <= Cap + watched
      BY DEF NeverOverRate
    <2>1. spent[c] \in Nat /\ Left(c) \in 0 .. Cap /\ spent[c] + Left(c) <= Cap + watched
      BY SeenFacts DEF LimiterInv, GrantsAreSpent
    <2> QED BY <2>1, SeenFacts, CapFacts DEF LimiterInv
  <1> QED BY <1>1, LimiterInvAlways, PTL

-----------------------------------------------------------------------------
(* The limiter and the abstract bucket.                                    *)

LEMMA SameTokens ==
  ASSUME \A d \in Clients : Left(d)' = Left(d), UNCHANGED run
  PROVE  UNCHANGED <<[c \in Clients |-> IF Seen(c) THEN level[limiters[c].bucket] ELSE Cap], run>>
  BY DEF Left

LEMMA LimiterSimulates ==
  ASSUME LimiterInv, [LimiterNext]_limiterVars
  PROVE  \/ Promise!Next
         \/ UNCHANGED <<[c \in Clients |-> IF Seen(c) THEN level[limiters[c].bucket] ELSE Cap], run>>
  <1> DEFINE tokens == [c \in Clients |-> IF Seen(c) THEN level[limiters[c].bucket] ELSE Cap]
  <1>1. \A c \in Clients : tokens[c] = Left(c) /\ tokens'[c] = Left(c)' /\ Left(c) \in 0 .. Cap
    BY SeenFacts DEF Left, LimiterInv
  <1>2. CASE UNCHANGED limiterVars
    BY <1>2 DEF limiterVars, Seen
  <1>3. ASSUME NEW r \in Requests, NEW c \in Clients, FindLimiter(r, c) \/ NewLimiter(r, c)
        PROVE  UNCHANGED <<tokens, run>>
    BY <1>3, FindInv, NewInv, SameTokens DEF FindLimiter, NewLimiter
  <1>4. ASSUME NEW r \in Requests, Allow(r) PROVE Promise!Next \/ UNCHANGED <<tokens, run>>
    <2>1. CASE \A d \in Clients : Left(d)' = Left(d)
      BY <2>1, <1>4, SameTokens DEF Allow
    <2>2. ASSUME NEW c \in Clients, Left(c) >= Interval, Left(c)' = Left(c) - Interval,
                 \A d \in Clients \ {c} : Left(d)' = Left(d)
          PROVE  Promise!Next
      <3>1. tokens' = [tokens EXCEPT ![c] = @ - Interval]
        BY <2>2, <1>1
      <3> QED BY <2>2, <3>1, <1>1, <1>4 DEF Allow, Promise!Next, Promise!Grant
    <2> QED BY <2>1, <2>2, <1>4, AllowInv
  <1>5. CASE LimiterTick
    <2>1. \A c \in Clients : Left(c)' = IF Left(c) < Cap THEN Left(c) + 1 ELSE Cap
      BY <1>5, LimiterTickInv, <1>1, CapFacts DEF UpTo
    <2>2. tokens' = [c \in Clients |-> IF tokens[c] < Cap THEN tokens[c] + 1 ELSE Cap]
      BY <1>1, <2>1
    <2> QED BY <2>2, <1>5 DEF LimiterTick, Promise!Next, Promise!Refill, Promise!Full, Cap
  <1>6. CASE Watch
    BY <1>6, WatchInv, SameTokens DEF Watch
  <1>7. CASE LimiterRestart
    <2>1. tokens' = [c \in Clients |-> Cap]
      BY <1>1, <1>7, LimiterRestartInv
    <2> QED BY <2>1, <1>7 DEF LimiterRestart, Promise!Next, Promise!Restart, Promise!Full, Cap
  <1> QED BY <1>2, <1>3, <1>4, <1>5, <1>6, <1>7 DEF LimiterNext, Limit

(* Dropping and making buckets is not noticed: a request that is granted   *)
(* takes a token of the client's one bucket, time and restarts fill them,  *)
(* and every other step is invisible.                                      *)
THEOREM LimiterImplementsBucket == LimiterSpec => ImplementsBucket
  <1>1. LimiterInit => Promise!Init
    BY DEF LimiterInit, Promise!Init, Promise!Full, Seen, Absent, Cap
  <1>2. LimiterInv /\ [LimiterNext]_limiterVars
          => [Promise!Next]_<<[c \in Clients |-> IF Seen(c) THEN level[limiters[c].bucket]
                                                 ELSE Cap], run>>
    BY LimiterSimulates
  <1> QED BY <1>1, <1>2, LimiterInvAlways, PTL DEF LimiterSpec, ImplementsBucket, Promise!Spec

-----------------------------------------------------------------------------
(* Side by side in one process, both keep their promises.                  *)
THEOREM FrontKeepsBoth == FrontSpec => LimiterSpec /\ RoutesSpec
  <1>1. FrontInit => LimiterInit /\ RoutesInit
    BY DEF FrontInit
  <1>2. [FrontNext]_frontVars => [LimiterNext]_limiterVars /\ [RoutesNext]_routeVars
    BY DEF FrontNext, frontVars, LimiterNext, RoutesNext, Tick, Restart
  <1> QED BY <1>1, <1>2, PTL DEF FrontSpec, LimiterSpec, RoutesSpec

-----------------------------------------------------------------------------
(* The hub of one trip.                                                    *)

Hub == 1  \* the hub that the map holds

(* Where a process is until it is registered.                              *)
Before == {"start", "get", "create", "register"}
HubPcs == Before \cup {"snapshot", "locate", "read", "broadcast", "unregister", "ended"}
Messages == [kind : Kinds, n : Nat]
Copies == [msg : Messages, nth : Nat]
ProcTypes == [pc : HubPcs, hub : {0, 1}, msg : Messages]

(* The types TypeOK bounds, and those of what has been sent.               *)
HubTypes ==
  /\ trip \in [Kinds -> Nat] /\ hubs \in {0, 1}
  /\ chan \in [HubIds -> Seq(Messages)] /\ log \in [HubIds -> Seq(Messages)]
  /\ listed \in [HubIds -> SUBSET Conns]
  /\ proc \in [Procs -> ProcTypes]
  /\ send \in [Conns -> Seq(Copies)] /\ took \in [Conns -> Seq(Copies)]
  /\ open \in [Conns -> BOOLEAN] /\ since \in [Conns -> Nat]

(* Only the hub in the map is used.                                        *)
OthersRest == \A h \in HubIds : h # Hub => listed[h] = {} /\ chan[h] = <<>>

(* Neither kind of channel holds more than it can.                         *)
Capacities ==
  /\ \A h \in HubIds : Len(chan[h]) <= BroadcastCap
  /\ \A c \in Conns : Len(send[c]) <= SendCap

(* A process has a hub from HubManager.get on; a rider has a position in   *)
(* hand only once it was read for the snapshot.                            *)
ProcFits(p) ==
  /\ proc[p].hub = IF proc[p].pc \in {"start", "get", "create"} THEN 0 ELSE Hub
  /\ proc[p].hub <= hubs
  /\ p \in Riders =>
       /\ proc[p].pc \in Before \cup {"locate"} => proc[p].msg.kind = "status"
       /\ ~At(p, "broadcast")

(* Nobody has sent to a connection that is not registered yet, or closed it.*)
NotYet(c) ==
  proc[c].pc \in Before =>
    /\ open[c] /\ send[c] = <<>> /\ took[c] = <<>>
    /\ c \notin listed[Hub]

(* Of the broadcasts c has been handed those since it was registered, up   *)
(* to the latest one, or to the one with which it was cut off.             *)
Covers(c) ==
  \E last \in since[c] .. Len(log[Hub]) :
    /\ Numbers(c) = since[c] + 1 .. last
    /\ c \in listed[Hub] => last = Len(log[Hub])

(* They came in the order in which the hub took them.                      *)
InOrder(c) ==
  \A i \in 1 .. Len(Handed(c)) :
    LET n == Handed(c)[i].nth
    IN  n # 0 => /\ Handed(c)[i].msg = log[Hub][n]
                 /\ \A j \in 1 .. i - 1 : Handed(c)[j].nth < n

(* What the rider read is recent enough, or what he missed will be, or has *)
(* been, broadcast to him.                                                 *)
Reached(c) ==
  \/ proc[c].msg.n + Lag >= trip["position"]
  \/ \E p \in Procs : At(p, "broadcast") /\ proc[p].msg = Latest("position")
  \/ \E i \in 1 .. Len(chan[Hub]) : chan[Hub][i] = Latest("position")
  \/ \E i \in since[c] + 1 .. Len(log[Hub]) : log[Hub][i] = Latest("position")

(* A rider on the way with a position he read, and one who was sent it.    *)
PositionFits(c) ==
  proc[c].msg.kind = "position" =>
    /\ proc[c].pc \in {"snapshot", "read"} => proc[c].msg.n <= trip["position"] /\ Reached(c)
    /\ At(c, "read") => proc[c].msg.n = 0 \/ HasPosition(c, proc[c].msg.n)

(* The inductive invariant.                                                *)
HubInv ==
  /\ HubTypes /\ OthersRest /\ Capacities /\ ListedIsOpen
  /\ \A p \in Procs : ProcFits(p)
  /\ \A c \in Conns : NotYet(c) /\ Covers(c) /\ InOrder(c)
  /\ \A c \in Riders : PositionFits(c)

LEMMA HubFacts ==
  /\ Hub \in HubIds /\ Riders \subseteq Conns /\ Conns \subseteq Procs
  /\ \A kind \in Kinds, n \in Nat : Message(kind, n) \in Messages
  /\ "status" \in Kinds /\ "position" \in Kinds
  BY DEF Hub, HubIds, MaxHubs, Conns, Procs, Message, Messages, Kinds

(* What a connection was handed is a sequence of copies.                   *)
LEMMA HandedType ==
  ASSUME HubTypes, NEW c \in Conns
  PROVE  /\ Handed(c) \in Seq(Copies) /\ Len(Handed(c)) \in Nat
         /\ \A i \in 1 .. Len(Handed(c)) : Handed(c)[i] \in Copies
  <1>1. took[c] \in Seq(Copies) /\ send[c] \in Seq(Copies)
    BY DEF HubTypes
  <1>2. Handed(c) \in Seq(Copies)
    BY <1>1, ConcatProperties DEF Handed
  <1> QED BY <1>2, LenProperties, ElementOfSeq

LEMMA MoveHead ==
  ASSUME NEW S, NEW s \in Seq(S), NEW t \in Seq(S), t # <<>>
  PROVE  Append(s, Head(t)) \o Tail(t) = s \o t
  OBVIOUS

LEMMA HandedMore ==
  ASSUME HubTypes, NEW c \in Conns, NEW x \in Copies,
         took'[c] = took[c], send'[c] = Append(send[c], x)
  PROVE  Handed(c)' = Append(Handed(c), x)
  <1>1. took[c] \in Seq(Copies) /\ send[c] \in Seq(Copies)
    BY DEF HubTypes
  <1>2. took[c] \o Append(send[c], x) = Append(took[c] \o send[c], x)
    <2>1. ASSUME NEW s \in Seq(Copies), NEW t \in Seq(Copies)
          PROVE  s \o Append(t, x) = Append(s \o t, x)
      OBVIOUS
    <2> QED BY <1>1, <2>1
  <1> QED BY <1>2 DEF Handed

LEMMA HandedOn ==
  ASSUME HubTypes, NEW c \in Conns, send[c] # <<>>,
         took'[c] = Append(took[c], Head(send[c])), send'[c] = Tail(send[c])
  PROVE  Handed(c)' = Handed(c)
  <1>1. took[c] \in Seq(Copies) /\ send[c] \in Seq(Copies)
    BY DEF HubTypes
  <1> QED BY <1>1, MoveHead DEF Handed

LEMMA InitHubInv == Init => HubInv
  <1> SUFFICES ASSUME Init PROVE HubInv
    OBVIOUS
  <1>1. HubTypes /\ OthersRest /\ Capacities
    <2>1. <<>> \in Seq(Messages) /\ <<>> \in Seq(Copies) /\ Len(<<>>) = 0
      BY EmptySeq
    <2>2. Message("status", 0) \in Messages
      BY HubFacts
    <2> QED BY <2>1, <2>2, ConstantsOK DEF Init, HubTypes, OthersRest, Capacities, ProcTypes,
      HubPcs, Before
  <1>2. ListedIsOpen /\ \A p \in Procs : ProcFits(p)
    BY HubFacts DEF Init, ListedIsOpen, ProcFits, Message, At, Before, Hub
  <1>3. ASSUME NEW c \in Conns PROVE NotYet(c) /\ Covers(c) /\ InOrder(c)
    <2>1. Handed(c) = <<>> /\ Len(Handed(c)) = 0
      BY DEF Init, Handed
    <2>2. since[c] = 0 /\ Len(log[Hub]) = 0 /\ c \notin listed[Hub]
      BY HubFacts DEF Init
    <2> QED BY <2>1, <2>2 DEF Init, NotYet, Covers, InOrder, Numbers
  <1>4. ASSUME NEW c \in Riders PROVE PositionFits(c)
    BY HubFacts DEF Init, PositionFits, Message
  <1> QED BY <1>1, <1>2, <1>3, <1>4 DEF HubInv

-----------------------------------------------------------------------------
(* Connections whose own state, and the hub's, stays as it is.             *)
LEMMA HandedSame ==
  ASSUME HubInv, UNCHANGED <<listed, log, since, send, took>>, NEW c \in Conns
  PROVE  Covers(c)' /\ InOrder(c)' /\ Handed(c)' = Handed(c)
  <1>1. Handed(c)' = Handed(c)
    BY DEF Handed
  <1>2. Covers(c) /\ InOrder(c)
    BY DEF HubInv
  <1> QED BY <1>1, <1>2 DEF Covers, InOrder, Numbers

(* A step of one process that touches no channel.                          *)
ProcMoves(p, q) == q \in ProcTypes /\ proc' = [proc EXCEPT ![p] = q]

LEMMA ProcStep ==
  ASSUME HubInv, NEW p \in Procs, NEW q, ProcMoves(p, q), ProcFits(p)',
         q.pc \in Before => proc[p].pc \in Before,
         hubs' \in {0, 1}, hubs <= hubs', trip' \in [Kinds -> Nat],
         p \in Riders => PositionFits(p)',
         \/ trip'["position"] = trip["position"] /\ ~At(p, "broadcast")
         \/ q.pc = "broadcast" /\ q.msg = Latest("position")'
              /\ trip'["position"] >= trip["position"],
         UNCHANGED <<chan, log, since, listed, send, open, took>>
  PROVE  HubInv'
  <1>1. /\ proc \in [Procs -> ProcTypes] /\ proc' \in [Procs -> ProcTypes]
        /\ proc'[p] = q /\ \A r \in Procs : r # p => proc'[r] = proc[r]
    BY DEF HubInv, HubTypes, ProcMoves
  <1>2. HubTypes' /\ OthersRest' /\ Capacities' /\ ListedIsOpen'
    BY <1>1 DEF HubInv, HubTypes, OthersRest, Capacities, ListedIsOpen
  <1>3. ASSUME NEW r \in Procs PROVE ProcFits(r)'
    <2>1. CASE r = p
      BY <2>1
    <2>2. CASE r # p
      <3>1. ProcFits(r) /\ proc[r].hub \in {0, 1} /\ hubs \in {0, 1}
        BY <1>1 DEF HubInv, HubTypes, ProcTypes
      <3> QED BY <1>1, <2>2, <3>1 DEF ProcFits, At
    <2> QED BY <2>1, <2>2
  <1>4. ASSUME NEW c \in Conns PROVE NotYet(c)' /\ Covers(c)' /\ InOrder(c)'
    <2>1. NotYet(c) /\ c \in Procs
      BY HubFacts DEF HubInv
    <2>2. NotYet(c)'
      BY <1>1, <2>1 DEF NotYet
    <2> QED BY <2>2, HandedSame
  <1>5. ASSUME NEW c \in Riders, c # p PROVE PositionFits(c)'
    <2>1. c \in Procs /\ c \in Conns /\ proc'[c] = proc[c] /\ PositionFits(c)
      BY <1>1, <1>5, HubFacts DEF HubInv
    <2>2. HasPosition(c, proc[c].msg.n)' <=> HasPosition(c, proc[c].msg.n)
      BY <2>1, HandedSame DEF HasPosition
    <2>3. trip["position"] \in Nat /\ trip'["position"] \in Nat /\ proc[c].msg.n \in Nat
      BY <1>1, <2>1, HubFacts DEF HubInv, HubTypes, ProcTypes, Messages
    <2>4. Reached(c) => Reached(c)'
      <3>1. CASE trip'["position"] = trip["position"] /\ ~At(p, "broadcast")
        <4>1. Latest("position")' = Latest("position")
          BY <3>1 DEF Latest
        <4>2. \A r \in Procs : At(r, "broadcast") => r # p
          BY <3>1
        <4> QED BY <1>1, <2>1, <3>1, <4>1, <4>2 DEF Reached, At
      <3>2. CASE q.pc = "broadcast" /\ q.msg = Latest("position")'
        BY <1>1, <3>2 DEF Reached, At
      <3> QED BY <3>1, <3>2
    <2> QED BY <2>1, <2>2, <2>3, <2>4 DEF PositionFits, At
  <1> QED BY <1>2, <1>3, <1>4, <1>5 DEF HubInv

LEMMA ProcFacts ==
  ASSUME HubInv, NEW p \in Procs
  PROVE  /\ proc[p] \in ProcTypes /\ proc[p].msg \in Messages /\ ProcFits(p)
         /\ proc[p].msg.n \in Nat /\ trip["position"] \in Nat /\ trip["status"] \in Nat
  BY HubFacts DEF HubInv, HubTypes, ProcTypes, Messages

LEMMA GotoMoves ==
  ASSUME HubInv, NEW p \in Procs, NEW pc \in HubPcs, Goto(p, pc)
  PROVE  /\ ProcMoves(p, [proc[p] EXCEPT !.pc = pc])
         /\ proc'[p] = [pc |-> pc, hub |-> proc[p].hub, msg |-> proc[p].msg]
  BY ProcFacts DEF HubInv, HubTypes, ProcMoves, ProcTypes, Goto

(* What a step of a handler that only moves on leaves to be seen.          *)
LEMMA GotoStep ==
  ASSUME HubInv, NEW p \in Procs, NEW pc \in HubPcs, Goto(p, pc), ~At(p, "broadcast"),
         pc \notin Before \/ (pc = "create" /\ At(p, "get")), pc # "broadcast",
         (pc = "create") <=> (proc[p].pc \in {"start", "get", "create"}),
         p \in Riders => pc \in {"create", "ended", "unregister"} \/ proc[p].msg.kind = "status",
         UNCHANGED <<trip, hubs, chan, log, since, listed, send, open, took>>
  PROVE  HubInv'
  <1> DEFINE q == [proc[p] EXCEPT !.pc = pc]
  <1>1. /\ ProcMoves(p, q) /\ q.pc = pc /\ q.hub = proc[p].hub /\ q.msg = proc[p].msg
        /\ proc'[p] = q
    BY GotoMoves, ProcFacts DEF ProcTypes
  <1>2. ProcFits(p)'
    BY <1>1, ProcFacts DEF ProcFits, At, Before
  <1>3. q.pc \in Before => proc[p].pc \in Before
    BY <1>1 DEF Before, At
  <1>4. p \in Riders => PositionFits(p)'
    BY <1>1, ProcFacts DEF PositionFits, At, ProcFits, Before
  <1>5. hubs' \in {0, 1} /\ hubs <= hubs' /\ trip' \in [Kinds -> Nat]
    BY DEF HubInv, HubTypes
  <1> HIDE DEF q
  <1> QED BY <1>1, <1>2, <1>3, <1>4, <1>5, ProcStep

LEMMA FetchInv == ASSUME HubInv, NEW c \in Conns, Fetch(c) PROVE HubInv'
  <1> DEFINE q == [proc[c] EXCEPT !.pc = "get", !.msg = Latest("status")]
  <1>0. c \in Procs /\ At(c, "start") /\ Latest("status") \in Messages
    BY HubFacts, ProcFacts DEF Fetch, Latest
  <1>1. ProcMoves(c, q)
    BY <1>0, ProcFacts DEF Fetch, ProcMoves, ProcTypes, HubInv, HubTypes, HubPcs, Before
  <1>2. proc'[c] = q /\ q.pc = "get" /\ q.hub = proc[c].hub /\ q.msg.kind = "status"
    BY <1>0, <1>1, ProcFacts DEF ProcMoves, HubInv, HubTypes, ProcTypes, Latest, Message
  <1>3. /\ UNCHANGED <<trip, hubs, chan, log, since, listed, send, open, took>>
        /\ hubs' \in {0, 1} /\ hubs <= hubs' /\ trip' \in [Kinds -> Nat]
    BY DEF Fetch, hubVars, connVars, HubInv, HubTypes
  <1>4. ProcFits(c)' /\ PositionFits(c)'
    BY <1>0, <1>2, <1>3, ProcFacts DEF ProcFits, PositionFits, At, Before
  <1>5. proc[c].pc \in Before /\ ~At(c, "broadcast")
    BY <1>0 DEF At, Before
  <1> HIDE DEF q
  <1> QED BY <1>0, <1>1, <1>3, <1>4, <1>5, ProcStep

LEMMA ChangeFacts ==
  ASSUME HubInv, NEW p \in Procs, NEW kind \in Kinds, NEW pc \in HubPcs, Change(p, kind, pc)
  PROVE  \E q :
           /\ ProcMoves(p, q) /\ proc'[p] = q
           /\ q.pc = pc /\ q.hub = proc[p].hub /\ q.msg = Latest(kind)'
           /\ trip' \in [Kinds -> Nat] /\ trip'["position"] >= trip["position"]
           /\ kind # "position" => trip'["position"] = trip["position"]
           /\ UNCHANGED <<hubs, chan, log, since, listed, send, open, took>>
  <1> DEFINE q == [proc[p] EXCEPT !.pc = pc, !.msg = Message(kind, trip'[kind])]
  <1>1. /\ trip \in [Kinds -> Nat] /\ trip' = [trip EXCEPT ![kind] = trip[kind] + 1]
        /\ trip' \in [Kinds -> Nat] /\ trip'[kind] \in Nat
    BY DEF Change, HubInv, HubTypes
  <1>2. Message(kind, trip'[kind]) \in Messages
    BY <1>1, HubFacts
  <1>3. ProcMoves(p, q)
    BY <1>2, ProcFacts DEF Change, ProcMoves, ProcTypes, HubInv, HubTypes
  <1>4. /\ proc'[p] = q /\ q.pc = pc /\ q.hub = proc[p].hub
        /\ q.msg = Message(kind, trip'[kind])
    BY <1>3, ProcFacts DEF ProcMoves, HubInv, HubTypes, ProcTypes
  <1>5. /\ trip'["position"] >= trip["position"]
        /\ kind # "position" => trip'["position"] = trip["position"]
    BY <1>1, HubFacts
  <1> HIDE DEF q
  <1> QED BY <1>1, <1>3, <1>4, <1>5 DEF Change, hubVars, connVars, Latest

LEMMA UpdateStatusInv == ASSUME HubInv, NEW u \in Writers, UpdateStatus(u) PROVE HubInv'
  <1>1. u \in Procs /\ u \notin Conns /\ "get" \in HubPcs /\ At(u, "start")
    BY ConstantsOK DEF Procs, HubPcs, Before, UpdateStatus
  <1>2. PICK q :
           /\ ProcMoves(u, q) /\ proc'[u] = q
           /\ q.pc = "get" /\ q.hub = proc[u].hub
           /\ trip' \in [Kinds -> Nat] /\ trip'["position"] = trip["position"]
           /\ UNCHANGED <<hubs, chan, log, since, listed, send, open, took>>
    BY <1>1, ChangeFacts, HubFacts DEF UpdateStatus
  <1>3. hubs' \in {0, 1} /\ hubs <= hubs' /\ u \notin Riders
    BY <1>1, <1>2, HubFacts DEF HubInv, HubTypes
  <1>4. ProcFits(u)'
    BY <1>1, <1>2, <1>3, ProcFacts DEF ProcFits, At
  <1>5. proc[u].pc \in Before /\ ~At(u, "broadcast")
    BY <1>1 DEF At, Before
  <1> QED BY <1>1, <1>2, <1>3, <1>4, <1>5, ProcStep

LEMMA ReadFrameInv ==
  ASSUME HubInv, NEW c \in Conns, NEW kind \in Kinds, ReadFrame(c),
         Change(c, kind, "broadcast")
  PROVE  HubInv'
  <1>1. c \in Procs /\ c \notin Riders /\ "broadcast" \in HubPcs /\ At(c, "read")
    BY ConstantsOK, HubFacts DEF HubPcs, ReadFrame
  <1>2. PICK q :
           /\ ProcMoves(c, q) /\ proc'[c] = q
           /\ q.pc = "broadcast" /\ q.hub = proc[c].hub /\ q.msg = Latest(kind)'
           /\ trip' \in [Kinds -> Nat] /\ trip'["position"] >= trip["position"]
           /\ kind # "position" => trip'["position"] = trip["position"]
           /\ UNCHANGED <<hubs, chan, log, since, listed, send, open, took>>
    BY <1>1, ChangeFacts
  <1>3. hubs' \in {0, 1} /\ hubs <= hubs'
    BY <1>2 DEF HubInv, HubTypes
  <1>4. ProcFits(c)'
    BY <1>1, <1>2, <1>3, ProcFacts DEF ProcFits, At
  <1>5. q.pc \notin Before /\ ~At(c, "broadcast")
    BY <1>1, <1>2 DEF At, Before
  <1> QED BY <1>1, <1>2, <1>3, <1>4, <1>5, ProcStep

LEMMA UseHubFacts ==
  ASSUME HubInv, NEW p \in Procs, UseHub(p, Hub)
  PROVE  \E q : /\ ProcMoves(p, q) /\ proc'[p] = q /\ q.hub = Hub /\ q.msg = proc[p].msg
                /\ q.pc = IF p \in Conns THEN "register" ELSE "broadcast"
  <1> DEFINE pc == IF p \in Conns THEN "register" ELSE "broadcast"
             q  == [proc[p] EXCEPT !.hub = Hub, !.pc = pc]
  <1>1. pc \in HubPcs /\ Hub \in {0, 1}
    BY DEF HubPcs, Before, Hub
  <1>2. proc' = [proc EXCEPT ![p].hub = Hub, ![p].pc = pc]
    BY DEF UseHub
  <1> HIDE DEF pc
  <1>3. ProcMoves(p, q)
    BY <1>1, <1>2, ProcFacts DEF ProcMoves, ProcTypes, HubInv, HubTypes
  <1>4. proc'[p] = q /\ q.hub = Hub /\ q.pc = pc /\ q.msg = proc[p].msg
    BY <1>3, ProcFacts DEF ProcMoves, ProcTypes, HubInv, HubTypes
  <1> QED BY <1>3, <1>4 DEF pc

(* FindHub and CreateHub end with the one hub there is.                    *)
LEMMA UseHubStep ==
  ASSUME HubInv, NEW p \in Procs, UseHub(p, Hub), proc[p].pc \in {"get", "create"},
         hubs' = 1, UNCHANGED <<trip, chan, log, since, listed, send, open, took>>
  PROVE  HubInv'
  <1>1. PICK q : /\ ProcMoves(p, q) /\ proc'[p] = q /\ q.hub = Hub /\ q.msg = proc[p].msg
                 /\ q.pc = IF p \in Conns THEN "register" ELSE "broadcast"
    BY UseHubFacts
  <1>2. hubs' \in {0, 1} /\ hubs <= hubs' /\ trip' \in [Kinds -> Nat]
    BY DEF HubInv, HubTypes
  <1>3. ProcFits(p)' /\ (p \in Riders => PositionFits(p)')
    BY <1>1, ProcFacts, HubFacts DEF ProcFits, PositionFits, At, Before, Hub
  <1>4. /\ q.pc \in Before => proc[p].pc \in Before
        /\ trip'["position"] = trip["position"] /\ ~At(p, "broadcast")
    BY DEF Before, At
  <1> QED BY <1>1, <1>2, <1>3, <1>4, ProcStep

LEMMA FindHubInv == ASSUME HubInv, NEW p \in Procs, FindHub(p) PROVE HubInv'
  <1>1. /\ UNCHANGED <<trip, hubs, chan, log, since, listed, send, open, took>>
        /\ At(p, "get") /\ hubs \in {0, 1} /\ "create" \in HubPcs
    BY DEF FindHub, hubVars, connVars, HubInv, HubTypes, HubPcs, Before
  <1>2. CASE hubs > 0
    <2>1. UseHub(p, Hub) /\ hubs' = 1
      BY <1>1, <1>2 DEF FindHub, Hub
    <2> QED BY <1>1, <2>1, UseHubStep DEF At
  <1>3. CASE ~(hubs > 0)
    <2>1. Goto(p, "create")
      BY <1>3 DEF FindHub
    <2> QED BY <1>1, <2>1, GotoStep DEF At
  <1> QED BY <1>2, <1>3

LEMMA CreateHubInv == ASSUME HubInv, NEW p \in Procs, CreateHub(p) PROVE HubInv'
  <1>1. /\ UNCHANGED <<trip, chan, log, since, listed, send, open, took>>
        /\ At(p, "create") /\ UseHub(p, Hub) /\ hubs' = 1
    BY DEF CreateHub, connVars, HubInv, HubTypes, Hub
  <1> QED BY <1>1, UseHubStep DEF At

LEMMA GiveUpInv ==
  ASSUME HubInv, NEW c \in Conns, SnapshotPanics(c) \/ LocationFails(c) \/ ReadFails(c)
  PROVE  HubInv'
  <1>1. /\ UNCHANGED <<trip, hubs, chan, log, since, listed, send, open, took>>
        /\ c \in Procs /\ {"ended", "read", "unregister"} \subseteq HubPcs
    BY HubFacts DEF SnapshotPanics, LocationFails, ReadFails, hubVars, connVars, HubPcs
  <1>2. CASE SnapshotPanics(c)
    BY <1>1, <1>2, GotoStep DEF SnapshotPanics, At, Before
  <1>3. CASE LocationFails(c)
    <2>1. c \in Riders => proc[c].msg.kind = "status"
      BY <1>1, <1>3, ProcFacts DEF LocationFails, ProcFits, At
    <2> QED BY <1>1, <1>3, <2>1, GotoStep DEF LocationFails, At, Before
  <1>4. CASE ReadFails(c)
    BY <1>1, <1>4, GotoStep DEF ReadFails, At, Before
  <1> QED BY <1>2, <1>3, <1>4

LEMMA LatestLocationInv == ASSUME HubInv, NEW c \in Conns, LatestLocation(c) PROVE HubInv'
  <1>1. /\ UNCHANGED <<trip, hubs, chan, log, since, listed, send, open, took>>
        /\ c \in Procs /\ At(c, "locate")
    BY HubFacts DEF LatestLocation, hubVars, connVars
  <1>2. PICK n \in 0 .. trip["position"] : n + Lag >= trip["position"] /\ Locate(c, n)
    BY DEF LatestLocation
  <1>3. n \in Nat /\ n <= trip["position"] /\ Message("position", n) \in Messages
    BY <1>1, <1>2, ProcFacts, HubFacts
  <1> DEFINE pc == IF n = 0 THEN "read" ELSE "snapshot"
             q  == [proc[c] EXCEPT !.msg = Message("position", n), !.pc = pc]
  <1>4. pc \in {"read", "snapshot"} /\ (pc = "read" => n = 0) /\ pc \in HubPcs
    BY DEF HubPcs
  <1>5. proc' = [proc EXCEPT ![c].msg = Message("position", n), ![c].pc = pc]
    BY <1>2 DEF Locate
  <1> HIDE DEF pc
  <1>6. ProcMoves(c, q)
    BY <1>1, <1>3, <1>4, <1>5, ProcFacts DEF ProcMoves, ProcTypes, HubInv, HubTypes
  <1>7. /\ proc'[c] = q /\ q.pc = pc /\ q.hub = proc[c].hub
        /\ q.msg.kind = "position" /\ q.msg.n = n
    BY <1>1, <1>6, ProcFacts DEF ProcMoves, ProcTypes, HubInv, HubTypes, Message
  <1>8. ProcFits(c)' /\ PositionFits(c)'
    <2>1. ProcFits(c)'
      BY <1>1, <1>4, <1>7, ProcFacts DEF ProcFits, At, Before
    <2>2. Reached(c)'
      BY <1>1, <1>2, <1>7 DEF Reached
    <2> QED BY <1>1, <1>3, <1>4, <1>7, <2>1, <2>2 DEF PositionFits, At
  <1>9. /\ q.pc \notin Before /\ hubs' \in {0, 1} /\ hubs <= hubs' /\ ~At(c, "broadcast")
        /\ trip' \in [Kinds -> Nat] /\ trip'["position"] = trip["position"]
    BY <1>1, <1>4, <1>7 DEF HubInv, HubTypes, Before, At
  <1> HIDE DEF q
  <1> QED BY <1>1, <1>6, <1>8, <1>9, ProcStep

-----------------------------------------------------------------------------
(* The hub's loop.                                                         *)
LEMMA OneHubOnly ==
  ASSUME HubInv, NEW c \in Conns, NEW h \in HubIds,
         proc[c].hub = h \/ c \in listed[h] \/ chan[h] # <<>>
  PROVE  h = Hub
  <1>1. c \in Procs /\ ProcFits(c) /\ OthersRest
    BY HubFacts DEF HubInv
  <1>2. h \in Nat \ {0}
    BY DEF HubIds, MaxHubs
  <1> QED BY <1>1, <1>2 DEF ProcFits, OthersRest

(* Riders whom a step leaves as they are, when positions are where they    *)
(* were or further on.                                                     *)
LEMMA PositionKept ==
  ASSUME HubInv, NEW c \in Riders, proc'[c].pc = proc[c].pc, proc'[c].msg = proc[c].msg,
         UNCHANGED trip, since'[c] = since[c], Reached(c) => Reached(c)',
         \A n : HasPosition(c, n) => HasPosition(c, n)'
  PROVE  PositionFits(c)'
  <1>1. PositionFits(c)
    BY DEF HubInv
  <1> QED BY <1>1 DEF PositionFits, At

LEMMA RegisterInv ==
  ASSUME HubInv, NEW h \in HubIds, NEW c \in Conns, Register(h, c) PROVE HubInv'
  <1> DEFINE pc == IF c \in Riders THEN "snapshot" ELSE "read"
  <1>1. /\ h = Hub /\ c \in Procs /\ At(c, "register") /\ NotYet(c) /\ ProcFits(c)
        /\ UNCHANGED <<trip, hubs, chan, log, send, open, took>>
        /\ pc \in HubPcs /\ pc \in {"snapshot", "read"}
    BY OneHubOnly, HubFacts DEF Register, HubInv, HubPcs
  <1>2. /\ listed' = [listed EXCEPT ![Hub] = listed[Hub] \cup {c}]
        /\ since' = [since EXCEPT ![c] = Len(log[Hub])]
        /\ Goto(c, pc) /\ (pc = "snapshot" <=> c \in Riders)
    BY <1>1 DEF Register
  <1> HIDE DEF pc
  <1>3. /\ proc' \in [Procs -> ProcTypes]
        /\ proc'[c] = [pc |-> pc, hub |-> proc[c].hub, msg |-> proc[c].msg]
        /\ \A p \in Procs : p # c => proc'[p] = proc[p]
    BY <1>1, <1>2, GotoMoves DEF ProcMoves, HubInv, HubTypes
  <1>4. log[Hub] \in Seq(Messages) /\ Len(log[Hub]) \in Nat
    BY HubFacts DEF HubInv, HubTypes
  <1>5. HubTypes' /\ OthersRest' /\ Capacities'
    BY <1>1, <1>2, <1>3, <1>4, HubFacts DEF HubInv, HubTypes, OthersRest, Capacities
  <1>6. ListedIsOpen'
    <2>1. open[c] /\ ListedIsOpen /\ listed \in [HubIds -> SUBSET Conns]
      BY <1>1 DEF NotYet, At, Before, HubInv, HubTypes
    <2> QED BY <1>1, <1>2, <2>1 DEF ListedIsOpen
  <1>7. ASSUME NEW p \in Procs PROVE ProcFits(p)'
    <2>1. ProcFits(p)
      BY DEF HubInv
    <2> QED BY <1>1, <1>2, <1>3, <2>1 DEF ProcFits, At, Before
  <1>8. ASSUME NEW d \in Conns PROVE NotYet(d)' /\ Covers(d)' /\ InOrder(d)'
    <2>1. d \in Procs /\ NotYet(d) /\ Covers(d) /\ InOrder(d) /\ Handed(d)' = Handed(d)
      BY <1>1, HubFacts DEF HubInv, Handed
    <2>2. listed \in [HubIds -> SUBSET Conns] /\ since \in [Conns -> Nat] /\ Hub \in HubIds
      BY HubFacts DEF HubInv, HubTypes
    <2>3. InOrder(d)'
      BY <1>1, <2>1 DEF InOrder
    <2>4. CASE d = c
      <3>1. NotYet(c)'
        BY <1>1, <1>3 DEF NotYet, Before
      <3>2. Numbers(c)' = {}
        <4>1. Handed(c) = <<>>
          BY <1>1 DEF NotYet, At, Before, Handed
        <4> QED BY <2>1, <2>4, <4>1 DEF Numbers
      <3>3. since'[c] = Len(log[Hub])
        BY <1>2, <2>2
      <3>4. Covers(c)'
        BY <1>1, <1>4, <3>2, <3>3 DEF Covers
      <3> QED BY <2>3, <2>4, <3>1, <3>4
    <2>5. CASE d # c
      <3>1. since'[d] = since[d] /\ (d \in listed'[Hub] <=> d \in listed[Hub])
        BY <1>2, <2>2, <2>5
      <3>2. NotYet(d)'
        BY <1>1, <1>3, <2>1, <2>5, <3>1 DEF NotYet
      <3>3. Covers(d)'
        BY <1>1, <2>1, <3>1 DEF Covers, Numbers
      <3> QED BY <2>3, <3>2, <3>3
    <2> QED BY <2>4, <2>5
  <1>9. ASSUME NEW d \in Riders PROVE PositionFits(d)'
    <2>1. d \in Procs /\ d \in Conns
      BY HubFacts
    <2>2. CASE d = c
      BY <1>1, <1>3, <2>2 DEF PositionFits, ProcFits, At, Before
    <2>3. CASE d # c
      <3>1. since'[d] = since[d] /\ proc'[d] = proc[d] /\ Handed(d)' = Handed(d)
        BY <1>1, <1>2, <1>3, <2>1, <2>3 DEF Handed, HubInv, HubTypes
      <3>2. Reached(d) => Reached(d)'
        <4>1. \A p \in Procs : At(p, "broadcast") => p # c
          BY <1>1 DEF At
        <4> QED BY <1>1, <1>3, <3>1, <4>1 DEF Reached, At, Latest
      <3> QED BY <1>1, <3>1, <3>2, PositionKept DEF HasPosition
    <2> QED BY <2>2, <2>3
  <1> QED BY <1>5, <1>6, <1>7, <1>8, <1>9 DEF HubInv

LEMMA UnregisterInv ==
  ASSUME HubInv, NEW h \in HubIds, NEW c \in Conns, Unregister(h, c) PROVE HubInv'
  <1>1. /\ h = Hub /\ c \in Procs /\ At(c, "unregister") /\ ProcFits(c) /\ "ended" \in HubPcs
        /\ UNCHANGED <<trip, hubs, chan, log, since, send, took>> /\ Goto(c, "ended")
        /\ listed' = [listed EXCEPT ![Hub] = listed[Hub] \ {c}]
    BY OneHubOnly, HubFacts DEF Unregister, HubInv, HubPcs
  <1>2. /\ open' \in [Conns -> BOOLEAN]
        /\ \A d \in Conns : d # c => open'[d] = open[d]
    BY DEF Unregister, HubInv, HubTypes
  <1>3. /\ proc' \in [Procs -> ProcTypes]
        /\ proc'[c] = [pc |-> "ended", hub |-> proc[c].hub, msg |-> proc[c].msg]
        /\ \A p \in Procs : p # c => proc'[p] = proc[p]
    BY <1>1, GotoMoves DEF ProcMoves, HubInv, HubTypes
  <1>4. /\ listed \in [HubIds -> SUBSET Conns] /\ Hub \in HubIds
        /\ listed'[Hub] = listed[Hub] \ {c}
        /\ \A k \in HubIds : listed'[k] \subseteq listed[k] /\ c \notin listed'[k]
    <2>1. \A k \in HubIds : k # Hub => listed[k] = {}
      BY DEF HubInv, OthersRest
    <2> QED BY <1>1, <2>1, HubFacts DEF HubInv, HubTypes
  <1>5. HubTypes' /\ OthersRest' /\ Capacities'
    BY <1>1, <1>2, <1>3, <1>4, HubFacts DEF HubInv, HubTypes, OthersRest, Capacities
  <1>6. ListedIsOpen'
    BY <1>2, <1>4 DEF HubInv, ListedIsOpen
  <1>7. ASSUME NEW p \in Procs PROVE ProcFits(p)'
    <2>1. ProcFits(p)
      BY DEF HubInv
    <2> QED BY <1>1, <1>3, <2>1 DEF ProcFits, At, Before
  <1>8. ASSUME NEW d \in Conns PROVE NotYet(d)' /\ Covers(d)' /\ InOrder(d)'
    <2>1. d \in Procs /\ NotYet(d) /\ Covers(d) /\ InOrder(d) /\ Handed(d)' = Handed(d)
      BY <1>1, HubFacts DEF HubInv, Handed
    <2>2. NotYet(d)'
      BY <1>1, <1>2, <1>3, <1>4, <2>1 DEF NotYet, Before
    <2>3. Covers(d)' /\ InOrder(d)'
      BY <1>1, <1>4, <2>1 DEF Covers, InOrder, Numbers
    <2> QED BY <2>2, <2>3
  <1>9. ASSUME NEW d \in Riders PROVE PositionFits(d)'
    <2>1. d \in Procs /\ d \in Conns /\ Handed(d)' = Handed(d)
      BY <1>1, HubFacts DEF Handed
    <2>2. CASE d = c
      BY <1>1, <1>3, <2>2 DEF PositionFits, At
    <2>3. CASE d # c
      <3>1. Reached(d) => Reached(d)'
        <4>1. \A p \in Procs : At(p, "broadcast") => p # c
          BY <1>1 DEF At
        <4> QED BY <1>1, <1>3, <2>1, <2>3, <4>1 DEF Reached, At, Latest
      <3> QED BY <1>1, <1>3, <2>1, <2>3, <3>1, PositionKept DEF HasPosition
    <2> QED BY <2>2, <2>3
  <1> QED BY <1>5, <1>6, <1>7, <1>8, <1>9 DEF HubInv

(* Appending to what a client was handed, or to the hub's log.             *)
LEMMA AppendFacts ==
  ASSUME NEW S, NEW s \in Seq(S), NEW x \in S
  PROVE  /\ Append(s, x) \in Seq(S) /\ Len(Append(s, x)) = Len(s) + 1 /\ Len(s) \in Nat
         /\ \A i \in 1 .. Len(s) : Append(s, x)[i] = s[i]
         /\ Append(s, x)[Len(s) + 1] = x
  OBVIOUS

LEMMA TailFacts ==
  ASSUME NEW S, NEW s \in Seq(S), s # <<>>
  PROVE  /\ Tail(s) \in Seq(S) /\ Head(s) \in S /\ Head(s) = s[1]
         /\ Len(s) \in Nat /\ Len(s) >= 1 /\ Len(Tail(s)) = Len(s) - 1
         /\ \A i \in 2 .. Len(s) : i - 1 \in 1 .. Len(Tail(s)) /\ Tail(s)[i - 1] = s[i]
  OBVIOUS

(* What a connection was handed, with one copy more.                       *)
LEMMA HandedCopy ==
  ASSUME HubTypes, NEW c \in Conns, NEW x \in Copies,
         took'[c] = took[c], send'[c] = Append(send[c], x)
  PROVE  /\ Len(Handed(c)') = Len(Handed(c)) + 1 /\ Len(Handed(c)) \in Nat
         /\ \A i \in 1 .. Len(Handed(c)) : Handed(c)'[i] = Handed(c)[i]
         /\ Handed(c)'[Len(Handed(c)) + 1] = x
         /\ Numbers(c)' = Numbers(c) \cup ({x.nth} \ {0})
         /\ \A n : HasPosition(c, n) => HasPosition(c, n)'
  <1>1. Handed(c)' = Append(Handed(c), x) /\ Handed(c) \in Seq(Copies)
    BY HandedMore, HandedType
  <1>2. /\ Len(Handed(c)') = Len(Handed(c)) + 1 /\ Len(Handed(c)) \in Nat
        /\ \A i \in 1 .. Len(Handed(c)) : Handed(c)'[i] = Handed(c)[i]
        /\ Handed(c)'[Len(Handed(c)) + 1] = x
    BY <1>1, AppendFacts
  <1>3. /\ \A i \in 1 .. Len(Handed(c)) : i \in 1 .. Len(Handed(c)')
        /\ Len(Handed(c)) + 1 \in 1 .. Len(Handed(c)')
        /\ \A i \in 1 .. Len(Handed(c)') :
             i \in 1 .. Len(Handed(c)) \/ i = Len(Handed(c)) + 1
    BY <1>2
  <1>4. Numbers(c)' = Numbers(c) \cup ({x.nth} \ {0})
    BY <1>2, <1>3 DEF Numbers
  <1>5. \A n : HasPosition(c, n) => HasPosition(c, n)'
    BY <1>2, <1>3 DEF HasPosition
  <1> QED BY <1>2, <1>4, <1>5

(* The one case of Broadcast that hands something on.                      *)
LEMMA DeliveredFits ==
  ASSUME HubInv, NEW c \in Conns, NEW m \in Messages, c \in listed[Hub],
         took'[c] = took[c], since'[c] = since[c],
         send'[c] = Append(send[c], Live(m, Len(log[Hub]) + 1)),
         log'[Hub] = Append(log[Hub], m)
  PROVE  Covers(c)' /\ InOrder(c)'
  <1> DEFINE n == Len(log[Hub]) + 1
             x == Live(m, n)
             k == Len(Handed(c))
  <1>1. /\ log[Hub] \in Seq(Messages) /\ n \in Nat /\ n # 0 /\ since[c] \in Nat /\ HubTypes
        /\ Len(log'[Hub]) = n /\ log'[Hub][n] = m
        /\ \A i \in 1 .. Len(log[Hub]) : log'[Hub][i] = log[Hub][i]
    BY HubFacts, AppendFacts DEF HubInv, HubTypes
  <1>2. x \in Copies /\ x.nth = n /\ x.msg = m
    BY <1>1 DEF Live, Copies
  <1>3. /\ Len(Handed(c)') = k + 1 /\ k \in Nat
        /\ \A i \in 1 .. k : Handed(c)'[i] = Handed(c)[i]
        /\ Handed(c)'[k + 1] = x
        /\ Numbers(c)' = Numbers(c) \cup ({n} \ {0})
    BY <1>1, <1>2, HandedCopy
  <1>4. /\ since[c] <= Len(log[Hub])
        /\ Numbers(c) = since[c] + 1 .. Len(log[Hub])
    BY <1>1 DEF HubInv, Covers
  <1>5. Covers(c)'
    <2>1. Numbers(c)' = since[c] + 1 .. n
      BY <1>1, <1>3, <1>4
    <2> QED BY <1>1, <1>4, <2>1 DEF Covers
  <1>6. ASSUME NEW i \in 1 .. k + 1, Handed(c)'[i].nth # 0
        PROVE  /\ Handed(c)'[i].msg = log'[Hub][Handed(c)'[i].nth]
               /\ \A j \in 1 .. i - 1 : Handed(c)'[j].nth < Handed(c)'[i].nth
    <2>1. \A j \in 1 .. k : Handed(c)[j] \in Copies
      BY <1>1, HandedType
    <2>2. \A j \in 1 .. k : Handed(c)[j].nth # 0 => Handed(c)[j].nth \in 1 .. Len(log[Hub])
      <3>1. \A j \in 1 .. k : Handed(c)[j].nth # 0 => Handed(c)[j].nth \in Numbers(c)
        BY DEF Numbers
      <3> QED BY <1>1, <1>4, <3>1
    <2>3. CASE i = k + 1
      <3>1. ASSUME NEW j \in 1 .. k PROVE Handed(c)'[j].nth < n
        <4>1. Handed(c)[j].nth \in Nat /\ Handed(c)'[j] = Handed(c)[j]
          BY <1>3, <2>1 DEF Copies
        <4>2. Handed(c)[j].nth # 0 => Handed(c)[j].nth < n
          BY <1>1, <2>2
        <4> QED BY <1>1, <4>1, <4>2
      <3> QED BY <1>1, <1>2, <1>3, <2>3, <3>1
    <2>4. CASE i # k + 1
      <3>1. i \in 1 .. k /\ \A j \in 1 .. i - 1 : j \in 1 .. k
        BY <1>3, <2>4
      <3>2. InOrder(c)
        BY DEF HubInv
      <3>3. /\ Handed(c)[i].msg = log[Hub][Handed(c)[i].nth]
            /\ \A j \in 1 .. i - 1 : Handed(c)[j].nth < Handed(c)[i].nth
        BY <1>3, <1>6, <3>1, <3>2 DEF InOrder
      <3> QED BY <1>1, <1>3, <1>6, <2>2, <3>1, <3>3
    <2> QED BY <2>3, <2>4
  <1>7. InOrder(c)'
    BY <1>3, <1>6 DEF InOrder
  <1> QED BY <1>5, <1>7

(* Broadcasts that a client does not get leave what he has got in order.   *)
LEMMA PassedByFits ==
  ASSUME HubInv, NEW c \in Conns, NEW m \in Messages, c \notin listed'[Hub],
         took'[c] = took[c], since'[c] = since[c], send'[c] = send[c],
         log'[Hub] = Append(log[Hub], m)
  PROVE  Covers(c)' /\ InOrder(c)'
  <1>1. /\ log[Hub] \in Seq(Messages) /\ Len(log[Hub]) \in Nat /\ since[c] \in Nat
        /\ Len(log'[Hub]) = Len(log[Hub]) + 1
        /\ \A i \in 1 .. Len(log[Hub]) : log'[Hub][i] = log[Hub][i]
    BY HubFacts, AppendFacts DEF HubInv, HubTypes
  <1>2. Handed(c)' = Handed(c) /\ Numbers(c)' = Numbers(c)
    BY DEF Handed, Numbers
  <1>3. PICK last \in since[c] .. Len(log[Hub]) : Numbers(c) = since[c] + 1 .. last
    BY DEF HubInv, Covers
  <1>4. last \in since'[c] .. Len(log'[Hub]) /\ Numbers(c)' = since'[c] + 1 .. last
    BY <1>1, <1>2, <1>3
  <1>5. Covers(c)'
    BY <1>4 DEF Covers
  <1>6. \A i \in 1 .. Len(Handed(c)) :
          Handed(c)[i].nth # 0 => Handed(c)[i].nth \in 1 .. Len(log[Hub])
    <2>1. \A i \in 1 .. Len(Handed(c)) : Handed(c)[i].nth # 0 => Handed(c)[i].nth \in Numbers(c)
      BY DEF Numbers
    <2> QED BY <1>1, <1>3, <2>1
  <1>7. InOrder(c)
    BY DEF HubInv
  <1>8. InOrder(c)'
    BY <1>1, <1>2, <1>6, <1>7 DEF InOrder
  <1> QED BY <1>5, <1>8

LEMMA BroadcastInv == ASSUME HubInv, NEW h \in HubIds, Broadcast(h) PROVE HubInv'
  <1> DEFINE m    == Head(chan[Hub])
             full == {c \in listed[Hub] : Full(c)}
             kept == listed[Hub] \ full
  <1>1. /\ h = Hub /\ chan[Hub] # <<>>
        /\ UNCHANGED <<trip, hubs, proc, since, took>>
        /\ chan' = [chan EXCEPT ![Hub] = Tail(chan[Hub])]
        /\ log' = [log EXCEPT ![Hub] = Append(log[Hub], m)]
        /\ listed' = [listed EXCEPT ![Hub] = listed[Hub] \ full]
        /\ open' = [c \in Conns |-> open[c] /\ c \notin full]
        /\ Deliver(Hub, m, kept)
    <2>1. h = Hub
      BY DEF Broadcast, HubInv, OthersRest
    <2> QED BY <2>1 DEF Broadcast
  <1>2. /\ chan[Hub] \in Seq(Messages) /\ log[Hub] \in Seq(Messages) /\ HubTypes
        /\ listed \in [HubIds -> SUBSET Conns] /\ Hub \in HubIds
        /\ \A c \in Conns : send[c] \in Seq(Copies) /\ Len(send[c]) \in Nat
    BY HubFacts DEF HubInv, HubTypes
  <1>3. m \in Messages /\ Tail(chan[Hub]) \in Seq(Messages)
        /\ Append(log[Hub], m) \in Seq(Messages) /\ Len(log[Hub]) \in Nat
        /\ Len(Tail(chan[Hub])) <= Len(chan[Hub]) /\ Len(chan[Hub]) \in Nat
        /\ Len(Tail(chan[Hub])) \in Nat
    BY <1>1, <1>2, TailFacts, AppendFacts
  <1>4. /\ chan'[Hub] = Tail(chan[Hub]) /\ log'[Hub] = Append(log[Hub], m)
        /\ listed'[Hub] = kept
        /\ \A k \in HubIds : k # Hub => chan'[k] = chan[k] /\ listed'[k] = listed[k]
    BY <1>1, <1>2 DEF HubTypes
  <1> HIDE DEF m
  <1>5. ASSUME NEW c \in Conns
        PROVE  /\ c \in kept => /\ send'[c] = Append(send[c], Live(m, Len(log[Hub]) + 1))
                                /\ ~Full(c)
               /\ c \notin kept => send'[c] = send[c]
               /\ send'[c] \in Seq(Copies) /\ Len(send'[c]) <= SendCap
    <2>1. /\ c \in kept => send'[c] = Append(send[c], Live(m, Len(log[Hub]) + 1))
          /\ c \notin kept => send'[c] = send[c]
      BY <1>1 DEF Deliver
    <2>2. c \in kept => ~Full(c)
      OBVIOUS
    <2>3. Live(m, Len(log[Hub]) + 1) \in Copies
      BY <1>3 DEF Live, Copies
    <2>4. Len(send[c]) <= SendCap /\ SendCap \in Nat
      BY ConstantsOK DEF HubInv, Capacities
    <2>5. /\ Append(send[c], Live(m, Len(log[Hub]) + 1)) \in Seq(Copies)
          /\ Len(Append(send[c], Live(m, Len(log[Hub]) + 1))) = Len(send[c]) + 1
      BY <1>2, <2>3, AppendFacts
    <2>6. Len(send[c]) \in Nat /\ send[c] \in Seq(Copies)
      BY <1>2
    <2> HIDE DEF kept
    <2>7. CASE c \in kept
      <3>1. ~Full(c) /\ Len(send[c]) + 1 <= SendCap
        BY <2>2, <2>4, <2>6, <2>7 DEF Full
      <3>2. send'[c] \in Seq(Copies) /\ Len(send'[c]) = Len(send[c]) + 1
        BY <2>1, <2>5, <2>7
      <3> QED BY <2>1, <2>7, <3>1, <3>2
    <2>8. CASE c \notin kept
      BY <2>1, <2>4, <2>6, <2>8
    <2> QED BY <2>7, <2>8
  <1>6. HubTypes'
    <2>1. send' \in [Conns -> Seq(Copies)]
      BY <1>1, <1>5 DEF Deliver
    <2>2. open' \in [Conns -> BOOLEAN]
      BY <1>1
    <2>3. listed' \in [HubIds -> SUBSET Conns]
      BY <1>1, <1>2
    <2>4. chan' \in [HubIds -> Seq(Messages)]
      BY <1>1, <1>2, <1>3 DEF HubTypes
    <2>5. log' \in [HubIds -> Seq(Messages)]
      BY <1>1, <1>2, <1>3 DEF HubTypes
    <2>6. UNCHANGED <<trip, hubs, proc, since, took>>
      BY <1>1
    <2> QED BY <1>2, <2>1, <2>2, <2>3, <2>4, <2>5, <2>6 DEF HubTypes
  <1>7. OthersRest' /\ Capacities'
    <2>1. OthersRest'
      BY <1>4 DEF HubInv, OthersRest
    <2>2. BroadcastCap \in Nat /\ Len(chan[Hub]) <= BroadcastCap
      BY <1>2, ConstantsOK DEF HubInv, Capacities
    <2>3. Capacities'
      <3>1. ASSUME NEW k \in HubIds PROVE Len(chan'[k]) <= BroadcastCap
        <4>1. CASE k = Hub
          <5>1. Len(chan'[k]) = Len(Tail(chan[Hub]))
            BY <1>4, <4>1
          <5> QED BY <1>3, <2>2, <5>1
        <4>2. CASE k # Hub
          BY <1>4, <4>2 DEF HubInv, Capacities
        <4> QED BY <4>1, <4>2
      <3> QED BY <1>5, <3>1 DEF Capacities
    <2> QED BY <2>1, <2>3
  <1>8. ListedIsOpen'
    <2>1. \A c \in listed'[Hub] : c \in Conns /\ open[c] /\ c \notin full
      BY <1>2, <1>4 DEF HubInv, ListedIsOpen
    <2>2. \A k \in HubIds : k # Hub => listed'[k] = {}
      BY <1>7 DEF OthersRest
    <2> QED BY <1>1, <2>1, <2>2 DEF ListedIsOpen
  <1>9. ASSUME NEW p \in Procs PROVE ProcFits(p)'
    BY <1>1 DEF HubInv, ProcFits, At
  <1>10. ASSUME NEW c \in Conns PROVE NotYet(c)' /\ Covers(c)' /\ InOrder(c)'
    <2>1. NotYet(c)'
      <3>1. NotYet(c)
        BY DEF HubInv
      <3> QED BY <1>1, <1>4, <1>5, <3>1 DEF NotYet
    <2>2. took'[c] = took[c] /\ since'[c] = since[c] /\ (c \in kept => c \in listed[Hub])
      BY <1>1
    <2> HIDE DEF kept
    <2>3. CASE c \in kept
      <3>1. send'[c] = Append(send[c], Live(m, Len(log[Hub]) + 1))
        BY <1>5, <2>3
      <3> QED BY <1>3, <1>4, <2>1, <2>2, <2>3, <3>1, DeliveredFits
    <2>4. CASE c \notin kept
      <3>1. send'[c] = send[c]
        BY <1>5, <2>4
      <3> QED BY <1>3, <1>4, <2>1, <2>2, <2>4, <3>1, PassedByFits
    <2> QED BY <2>3, <2>4
  <1>11. ASSUME NEW c \in Riders PROVE PositionFits(c)'
    <2>1. c \in Conns /\ c \in Procs
      BY HubFacts
    <2>2. \A n : HasPosition(c, n) => HasPosition(c, n)'
      <3>1. CASE c \in kept
        <4>1. Live(m, Len(log[Hub]) + 1) \in Copies
          BY <1>3 DEF Live, Copies
        <4> QED BY <1>1, <1>2, <1>5, <2>1, <3>1, <4>1, HandedCopy
      <3>2. CASE c \notin kept
        BY <1>1, <1>5, <2>1, <3>2 DEF HasPosition, Handed
      <3> QED BY <3>1, <3>2
    <2>3. Reached(c) => Reached(c)'
      <3>1. Latest("position")' = Latest("position")
        BY <1>1 DEF Latest
      <3>2. since[c] \in Nat /\ since[c] <= Len(log[Hub])
        BY <1>3, <2>1 DEF HubInv, HubTypes, Covers
      <3>3. ASSUME NEW i \in 1 .. Len(chan[Hub]), chan[Hub][i] = Latest("position")
            PROVE  Reached(c)'
        <4>1. CASE i = 1
          <5>1. /\ Len(log[Hub]) + 1 \in since'[c] + 1 .. Len(log'[Hub])
                /\ log'[Hub][Len(log[Hub]) + 1] = m
            BY <1>1, <1>2, <1>3, <1>4, <3>2, AppendFacts
          <5>2. m = chan[Hub][1]
            BY <1>1, <1>2, TailFacts DEF m
          <5> QED BY <3>1, <3>3, <4>1, <5>1, <5>2 DEF Reached
        <4>2. CASE i # 1
          <5>1. i \in 2 .. Len(chan[Hub])
            BY <1>3, <4>2
          <5>2. /\ i - 1 \in 1 .. Len(Tail(chan[Hub]))
                /\ Tail(chan[Hub])[i - 1] = chan[Hub][i]
            BY <1>1, <1>2, <5>1, TailFacts
          <5>3. i - 1 \in 1 .. Len(chan'[Hub]) /\ chan'[Hub][i - 1] = Latest("position")
            BY <1>4, <3>3, <5>2
          <5> QED BY <3>1, <5>3 DEF Reached
        <4> QED BY <4>1, <4>2
      <3>4. ASSUME NEW i \in since[c] + 1 .. Len(log[Hub]), log[Hub][i] = Latest("position")
            PROVE  Reached(c)'
        <4>1. i \in since'[c] + 1 .. Len(log'[Hub]) /\ log'[Hub][i] = log[Hub][i]
          BY <1>1, <1>2, <1>3, <1>4, <3>2, AppendFacts
        <4> QED BY <3>1, <3>4, <4>1 DEF Reached
      <3> QED BY <1>1, <3>1, <3>3, <3>4 DEF Reached, At
    <2> QED BY <1>1, <2>1, <2>2, <2>3, PositionKept
  <1> QED BY <1>6, <1>7, <1>8, <1>9, <1>10, <1>11 DEF HubInv

-----------------------------------------------------------------------------
(* What the connections' goroutines do to the channels.                    *)

(* A step that changes one client's buffer, and no more than its pc.       *)
LEMMA ClientStep ==
  ASSUME HubInv, NEW c \in Conns,
         send' \in [Conns -> Seq(Copies)], took' \in [Conns -> Seq(Copies)],
         \A d \in Conns : d # c => send'[d] = send[d] /\ took'[d] = took[d],
         Len(send'[c]) <= SendCap, proc[c].pc \notin Before,
         proc' \in [Procs -> ProcTypes], \A p \in Procs : p # c => proc'[p] = proc[p],
         ProcFits(c)', proc'[c].pc \notin Before, ~At(c, "broadcast") \/ proc'[c] = proc[c],
         Covers(c)', InOrder(c)', c \in Riders => PositionFits(c)',
         UNCHANGED <<trip, hubs, chan, listed, log, since, open>>
  PROVE  HubInv'
  <1>1. HubTypes' /\ OthersRest' /\ Capacities' /\ ListedIsOpen'
    BY DEF HubInv, HubTypes, OthersRest, Capacities, ListedIsOpen
  <1>2. ASSUME NEW p \in Procs PROVE ProcFits(p)'
    <2>1. ProcFits(p)
      BY DEF HubInv
    <2> QED BY <2>1 DEF ProcFits, At
  <1>3. ASSUME NEW d \in Conns PROVE NotYet(d)' /\ Covers(d)' /\ InOrder(d)'
    <2>1. CASE d = c
      BY <2>1 DEF NotYet
    <2>2. CASE d # c
      <3>1. d \in Procs /\ NotYet(d) /\ Covers(d) /\ InOrder(d) /\ Handed(d)' = Handed(d)
        BY <2>2, HubFacts DEF HubInv, Handed
      <3>2. proc'[d] = proc[d] /\ send'[d] = send[d] /\ took'[d] = took[d]
        BY <2>2, <3>1
      <3> QED BY <3>1, <3>2 DEF NotYet, Covers, InOrder, Numbers
    <2> QED BY <2>1, <2>2
  <1>4. ASSUME NEW d \in Riders, d # c PROVE PositionFits(d)'
    <2>1. d \in Conns /\ d \in Procs
      BY HubFacts
    <2>2. Handed(d)' = Handed(d) /\ proc'[d] = proc[d]
      BY <1>4, <2>1 DEF Handed
    <2>3. Reached(d) => Reached(d)'
      <3>1. \A p \in Procs : At(p, "broadcast") => proc'[p] = proc[p]
        OBVIOUS
      <3> QED BY <2>2, <3>1 DEF Reached, At, Latest
    <2> QED BY <1>4, <2>2, <2>3, PositionKept DEF HasPosition
  <1> QED BY <1>1, <1>2, <1>3, <1>4 DEF HubInv

LEMMA SnapshotFits ==
  ASSUME HubInv, NEW c \in Conns, NEW m \in Messages, took'[c] = took[c],
         send'[c] = Append(send[c], Snapshot(m)), UNCHANGED <<listed, log, since>>
  PROVE  Covers(c)' /\ InOrder(c)' /\ (m.kind = "position" => HasPosition(c, m.n)')
  <1> DEFINE k == Len(Handed(c))
  <1>1. /\ Snapshot(m) \in Copies /\ Snapshot(m).nth = 0 /\ Snapshot(m).msg = m /\ HubTypes
    BY DEF Snapshot, Copies, HubInv
  <1>2. /\ Len(Handed(c)') = k + 1 /\ k \in Nat
        /\ \A i \in 1 .. k : Handed(c)'[i] = Handed(c)[i]
        /\ Handed(c)'[k + 1] = Snapshot(m)
        /\ Numbers(c)' = Numbers(c)
    BY <1>1, HandedCopy
  <1>3. Covers(c)'
    BY <1>2 DEF HubInv, Covers
  <1>4. ASSUME NEW i \in 1 .. k + 1, Handed(c)'[i].nth # 0
        PROVE  /\ Handed(c)'[i].msg = log'[Hub][Handed(c)'[i].nth]
               /\ \A j \in 1 .. i - 1 : Handed(c)'[j].nth < Handed(c)'[i].nth
    <2>1. i \in 1 .. k /\ \A j \in 1 .. i - 1 : j \in 1 .. k
      BY <1>1, <1>2, <1>4
    <2>2. InOrder(c)
      BY DEF HubInv
    <2>3. /\ Handed(c)[i].msg = log[Hub][Handed(c)[i].nth]
          /\ \A j \in 1 .. i - 1 : Handed(c)[j].nth < Handed(c)[i].nth
      BY <1>2, <1>4, <2>1, <2>2 DEF InOrder
    <2> QED BY <1>2, <2>1, <2>3
  <1>5. InOrder(c)'
    BY <1>2, <1>4 DEF InOrder
  <1>6. ASSUME m.kind = "position" PROVE HasPosition(c, m.n)'
    <2>1. m = Message("position", m.n)
      BY <1>6 DEF Messages, Message
    <2>2. k + 1 \in 1 .. Len(Handed(c)')
      BY <1>2
    <2> QED BY <1>1, <1>2, <2>1, <2>2 DEF HasPosition
  <1> QED BY <1>3, <1>5, <1>6

LEMMA SendSnapshotInv == ASSUME HubInv, NEW c \in Conns, SendSnapshot(c) PROVE HubInv'
  <1>0. PICK m \in Messages : m = proc[c].msg
    BY HubFacts, ProcFacts
  <1> DEFINE pc == IF m.kind = "status" THEN "locate" ELSE "read"
  <1>1. /\ c \in Procs /\ At(c, "snapshot") /\ ~Full(c) /\ m \in Messages /\ ProcFits(c)
        /\ send' = [send EXCEPT ![c] = Append(send[c], Snapshot(m))]
        /\ UNCHANGED <<trip, hubs, chan, listed, log, since, open, took>>
        /\ Goto(c, pc)
    BY <1>0, HubFacts, ProcFacts DEF SendSnapshot, hubVars
  <1>2. /\ pc \in HubPcs /\ pc \in {"locate", "read"} /\ (pc = "locate" => m.kind = "status")
        /\ m.kind = "status" => pc = "locate"
    BY DEF HubPcs
  <1>3. /\ send \in [Conns -> Seq(Copies)] /\ took \in [Conns -> Seq(Copies)]
        /\ send[c] \in Seq(Copies) /\ Snapshot(m) \in Copies
        /\ SendCap \in Nat
    BY <1>1, ConstantsOK DEF HubInv, HubTypes, Snapshot, Copies
  <1> HIDE DEF pc
  <1>4. /\ proc' \in [Procs -> ProcTypes]
        /\ proc'[c] = [pc |-> pc, hub |-> proc[c].hub, msg |-> m]
        /\ \A p \in Procs : p # c => proc'[p] = proc[p]
    BY <1>0, <1>1, <1>2, GotoMoves DEF ProcMoves, HubInv, HubTypes
  <1>5. ProcFits(c)' /\ proc'[c].pc \notin Before /\ proc[c].pc \notin Before /\ ~At(c, "broadcast")
    BY <1>0, <1>1, <1>2, <1>4 DEF ProcFits, At, Before
  <1>6. /\ Append(send[c], Snapshot(m)) \in Seq(Copies)
        /\ Len(Append(send[c], Snapshot(m))) = Len(send[c]) + 1 /\ Len(send[c]) \in Nat
    BY <1>3, AppendFacts
  <1>7. send'[c] = Append(send[c], Snapshot(m)) /\ took'[c] = took[c]
    BY <1>1, <1>3
  <1>8. Covers(c)' /\ InOrder(c)' /\ (m.kind = "position" => HasPosition(c, m.n)')
    BY <1>1, <1>7, SnapshotFits
  <1>9. c \in Riders => PositionFits(c)'
    <2> SUFFICES ASSUME c \in Riders, m.kind = "position" PROVE PositionFits(c)'
      BY <1>4 DEF PositionFits
    <2>1. PositionFits(c) /\ m.n <= trip["position"] /\ Reached(c)
      BY <1>0, <1>1 DEF HubInv, PositionFits, At
    <2>2. Reached(c)'
      <3>1. \A p \in Procs : At(p, "broadcast") => proc'[p] = proc[p]
        BY <1>4, <1>5
      <3>2. proc'[c].msg = proc[c].msg
        BY <1>0, <1>4
      <3> QED BY <1>1, <2>1, <3>1, <3>2 DEF Reached, At, Latest
    <2> QED BY <1>1, <1>4, <1>8, <2>1, <2>2 DEF PositionFits, At
  <1>10. send' \in [Conns -> Seq(Copies)] /\ took' \in [Conns -> Seq(Copies)]
    BY <1>1, <1>3, <1>6
  <1>11. \A d \in Conns : d # c => send'[d] = send[d] /\ took'[d] = took[d]
    BY <1>1, <1>3
  <1>12. Len(send'[c]) <= SendCap
    BY <1>1, <1>3, <1>6, <1>7 DEF Full
  <1> QED BY <1>1, <1>4, <1>5, <1>8, <1>9, <1>10, <1>11, <1>12, ClientStep

LEMMA WriteMessageInv == ASSUME HubInv, NEW c \in Conns, WriteMessage(c) PROVE HubInv'
  <1>1. /\ send[c] # <<>> /\ c \in Procs
        /\ send' = [send EXCEPT ![c] = Tail(send[c])]
        /\ took' = [took EXCEPT ![c] = Append(took[c], Head(send[c]))]
        /\ UNCHANGED <<trip, hubs, chan, listed, log, since, proc, open>>
    BY HubFacts DEF WriteMessage, hubVars
  <1>2. /\ send \in [Conns -> Seq(Copies)] /\ took \in [Conns -> Seq(Copies)] /\ HubTypes
        /\ send[c] \in Seq(Copies) /\ took[c] \in Seq(Copies) /\ SendCap \in Nat
        /\ Len(send[c]) <= SendCap /\ proc \in [Procs -> ProcTypes]
    BY ConstantsOK DEF HubInv, HubTypes, Capacities
  <1>3. /\ Tail(send[c]) \in Seq(Copies) /\ Head(send[c]) \in Copies
        /\ Append(took[c], Head(send[c])) \in Seq(Copies)
        /\ Len(Tail(send[c])) <= SendCap
    BY <1>1, <1>2, TailFacts, AppendFacts
  <1>4. /\ send' \in [Conns -> Seq(Copies)] /\ took' \in [Conns -> Seq(Copies)]
        /\ send'[c] = Tail(send[c]) /\ took'[c] = Append(took[c], Head(send[c]))
        /\ \A d \in Conns : d # c => send'[d] = send[d] /\ took'[d] = took[d]
    BY <1>1, <1>2, <1>3
  <1>5. Handed(c)' = Handed(c)
    BY <1>1, <1>2, <1>4, HandedOn
  <1>6. proc[c].pc \notin Before
    BY <1>1 DEF HubInv, NotYet
  <1>7. Covers(c)' /\ InOrder(c)'
    BY <1>1, <1>5 DEF HubInv, Covers, InOrder, Numbers
  <1>8. ProcFits(c)'
    BY <1>1 DEF HubInv, ProcFits, At
  <1>9. c \in Riders => PositionFits(c)'
    BY <1>1, <1>5 DEF HubInv, PositionFits, Reached, HasPosition, At, Latest
  <1> QED BY <1>1, <1>2, <1>3, <1>4, <1>6, <1>7, <1>8, <1>9, ClientStep

(* Nothing that is said here is about the network or the write pump.       *)
LEMMA PumpStep ==
  ASSUME HubInv, UNCHANGED <<trip, hubs, chan, listed, log, since, proc, send, open, took>>
  PROVE  HubInv'
  <1>1. \A c \in Conns : Handed(c)' = Handed(c)
    BY DEF Handed
  <1>2. HubTypes' /\ OthersRest' /\ Capacities' /\ ListedIsOpen'
    BY DEF HubInv, HubTypes, OthersRest, Capacities, ListedIsOpen
  <1>3. \A p \in Procs : ProcFits(p)'
    BY DEF HubInv, ProcFits, At
  <1>4. \A c \in Conns : NotYet(c)' /\ Covers(c)' /\ InOrder(c)'
    BY <1>1 DEF HubInv, NotYet, Covers, InOrder, Numbers
  <1>5. \A c \in Riders : PositionFits(c)'
    BY <1>1, HubFacts DEF HubInv, PositionFits, Reached, HasPosition, At, Latest
  <1> QED BY <1>2, <1>3, <1>4, <1>5 DEF HubInv

LEMMA EnqueueInv == ASSUME HubInv, NEW p \in Procs, Enqueue(p) PROVE HubInv'
  <1> DEFINE m  == proc[p].msg
             pc == IF p \in Conns THEN "read" ELSE "ended"
  <1>1. /\ At(p, "broadcast") /\ proc[p].hub = Hub /\ m \in Messages /\ ProcFits(p)
        /\ p \notin Riders /\ pc \in HubPcs /\ pc \in {"read", "ended"}
    BY ProcFacts DEF Enqueue, ProcFits, At, HubPcs
  <1>2. /\ Len(chan[Hub]) < BroadcastCap
        /\ chan' = [chan EXCEPT ![Hub] = Append(chan[Hub], m)]
        /\ Goto(p, pc)
        /\ UNCHANGED <<trip, hubs, listed, log, since, send, open, took>>
    BY <1>1 DEF Enqueue, connVars
  <1>3. /\ chan \in [HubIds -> Seq(Messages)] /\ chan[Hub] \in Seq(Messages)
        /\ BroadcastCap \in Nat /\ Hub \in HubIds
    BY HubFacts, ConstantsOK DEF HubInv, HubTypes
  <1> HIDE DEF pc
  <1>4. /\ proc' \in [Procs -> ProcTypes]
        /\ proc'[p] = [pc |-> pc, hub |-> Hub, msg |-> m]
        /\ \A q \in Procs : q # p => proc'[q] = proc[q]
    BY <1>1, <1>2, GotoMoves DEF ProcMoves, HubInv, HubTypes
  <1>5. proc[p].msg = m
    OBVIOUS
  <1> HIDE DEF m
  <1>6. /\ Append(chan[Hub], m) \in Seq(Messages) /\ Len(chan[Hub]) \in Nat
        /\ Len(Append(chan[Hub], m)) = Len(chan[Hub]) + 1
        /\ \A i \in 1 .. Len(chan[Hub]) : Append(chan[Hub], m)[i] = chan[Hub][i]
        /\ Append(chan[Hub], m)[Len(chan[Hub]) + 1] = m
    BY <1>1, <1>3, AppendFacts
  <1>7. /\ chan' \in [HubIds -> Seq(Messages)] /\ chan'[Hub] = Append(chan[Hub], m)
        /\ \A h \in HubIds : h # Hub => chan'[h] = chan[h]
    BY <1>2, <1>3, <1>6
  <1>8. Len(chan'[Hub]) <= BroadcastCap
    BY <1>2, <1>3, <1>6, <1>7
  <1>9. HubTypes' /\ OthersRest' /\ Capacities' /\ ListedIsOpen'
    <2>1. HubTypes'
      BY <1>2, <1>4, <1>7 DEF HubInv, HubTypes
    <2>2. \A h \in HubIds : Len(chan'[h]) <= BroadcastCap
      BY <1>7, <1>8 DEF HubInv, Capacities
    <2>3. OthersRest' /\ Capacities' /\ ListedIsOpen'
      BY <1>2, <1>7, <2>2 DEF HubInv, OthersRest, Capacities, ListedIsOpen
    <2> QED BY <2>1, <2>3
  <1>10. ASSUME NEW q \in Procs PROVE ProcFits(q)'
    <2>1. ProcFits(q) /\ hubs' = hubs
      BY <1>2 DEF HubInv
    <2> QED BY <1>1, <1>4, <2>1 DEF ProcFits, At, Before
  <1>11. ASSUME NEW c \in Conns PROVE NotYet(c)' /\ Covers(c)' /\ InOrder(c)'
    <2>1. NotYet(c) /\ c \in Procs
      BY HubFacts DEF HubInv
    <2>2. NotYet(c)'
      BY <1>1, <1>2, <1>4, <2>1 DEF NotYet, Before
    <2> QED BY <1>2, <2>2, HandedSame
  <1>12. ASSUME NEW c \in Riders PROVE PositionFits(c)'
    <2>1. c # p /\ c \in Procs /\ c \in Conns
      BY <1>1, HubFacts
    <2>2. Handed(c)' = Handed(c) /\ proc'[c] = proc[c] /\ Latest("position")' = Latest("position")
      BY <1>2, <1>4, <2>1 DEF Handed, Latest
    <2>3. /\ \A i \in 1 .. Len(chan[Hub]) : i \in 1 .. Len(chan'[Hub]) /\ chan'[Hub][i] = chan[Hub][i]
          /\ Len(chan[Hub]) + 1 \in 1 .. Len(chan'[Hub])
          /\ chan'[Hub][Len(chan[Hub]) + 1] = m
      BY <1>6, <1>7
    <2>4. Reached(c) => Reached(c)'
      <3>1. \A q \in Procs : q = p \/ proc'[q] = proc[q]
        BY <1>4
      <3> QED BY <1>2, <1>5, <2>2, <2>3, <3>1 DEF Reached, At
    <2> QED BY <1>2, <2>2, <2>4, PositionKept DEF HasPosition
  <1> QED BY <1>9, <1>10, <1>11, <1>12 DEF HubInv

-----------------------------------------------------------------------------
LEMMA NextHubInv == HubInv /\ [Next]_vars => HubInv'
  <1> SUFFICES ASSUME HubInv, [Next]_vars PROVE HubInv'
    OBVIOUS
  <1>1. ASSUME NEW c \in Conns, Fetch(c) \/ ReadStatus(c) \/ ReadLocation(c) \/ Disconnect(c)
        PROVE  HubInv'
    <2>1. CASE ReadStatus(c) \/ ReadLocation(c)
      BY <2>1, ReadFrameInv, HubFacts DEF ReadStatus, ReadLocation
    <2>2. CASE Disconnect(c)
      BY <2>2, PumpStep DEF Disconnect, hubVars
    <2> QED BY <1>1, <2>1, <2>2, FetchInv
  <1>2. ASSUME NEW u \in Writers, UpdateStatus(u) PROVE HubInv'
    BY <1>2, UpdateStatusInv
  <1>3. ASSUME NEW p \in Procs, Handle(p) PROVE HubInv'
    BY <1>3, FindHubInv, CreateHubInv, EnqueueInv DEF Handle
  <1>4. ASSUME NEW c \in Conns, Connect(c) \/ Pump(c) PROVE HubInv'
    <2>1. CASE Connect(c)
      BY <2>1, SendSnapshotInv, GiveUpInv, LatestLocationInv DEF Connect
    <2>2. CASE StopWriting(c)
      BY <2>2, PumpStep DEF StopWriting, hubVars
    <2> QED BY <1>4, <2>1, <2>2, WriteMessageInv DEF Pump
  <1>5. ASSUME NEW h \in HubIds, HubStep(h) PROVE HubInv'
    BY <1>5, BroadcastInv, RegisterInv, UnregisterInv DEF HubStep
  <1>6. CASE UNCHANGED vars
    BY <1>6, PumpStep DEF vars
  <1> QED BY <1>1, <1>2, <1>3, <1>4, <1>5, <1>6 DEF Next

LEMMA HubInvAlways == Spec => []HubInv
  BY InitHubInv, NextHubInv, PTL DEF Spec

(* Types, and no channel holds more than its capacity.                     *)
THEOREM HubTypeCorrect == Spec => []TypeOK
  <1>1. HubInv => TypeOK
    <2> SUFFICES ASSUME HubInv PROVE TypeOK
      OBVIOUS
    <2>1. \A p \in Procs : proc[p].hub \in 0 .. hubs
      <3> SUFFICES ASSUME NEW p \in Procs PROVE proc[p].hub \in 0 .. hubs
        OBVIOUS
      <3>1. proc[p].hub \in {0, 1} /\ hubs \in {0, 1} /\ proc[p].hub <= hubs
        BY DEF HubInv, HubTypes, ProcTypes, ProcFits
      <3> QED BY <3>1
    <2>2. \A c \in Conns : Len(send[c]) <= SendCap /\ open[c] \in BOOLEAN
      BY DEF HubInv, HubTypes, Capacities
    <2>3. \A h \in HubIds : listed[h] \subseteq Conns /\ Len(chan[h]) <= BroadcastCap
      BY DEF HubInv, HubTypes, Capacities
    <2>4. trip \in [Kinds -> Nat] /\ hubs \in 0 .. MaxHubs
      BY DEF HubInv, HubTypes, MaxHubs
    <2> QED BY <2>1, <2>2, <2>3, <2>4 DEF TypeOK
  <1> QED BY <1>1, HubInvAlways, PTL

(* The hub never sends on, or closes, a channel that is closed.            *)
THEOREM ListedAreOpen == Spec => []ListedIsOpen
  BY HubInvAlways, PTL DEF HubInv

(* However first subscribers and status changes race in HubManager.get,    *)
(* there is one hub per trip.                                              *)
THEOREM HubIsOne == Spec => []OneHub
  <1>1. HubInv => OneHub
    BY DEF HubInv, HubTypes, ProcTypes, OneHub
  <1> QED BY <1>1, HubInvAlways, PTL

(* No client silently misses a broadcast in the middle.                    *)
THEOREM NobodyHasGaps == Spec => []NoGaps
  <1>1. HubInv => NoGaps
    <2> SUFFICES ASSUME HubInv, NEW c \in Conns, proc[c].hub # 0
                 PROVE  /\ \E last \in since[c] .. Len(log[proc[c].hub]) :
                             /\ Numbers(c) = since[c] + 1 .. last
                             /\ c \in listed[proc[c].hub] => last = Len(log[proc[c].hub])
                        /\ \A i \in 1 .. Len(Handed(c)) :
                             LET n == Handed(c)[i].nth
                             IN  n # 0 => /\ Handed(c)[i].msg = log[proc[c].hub][n]
                                          /\ \A j \in 1 .. i - 1 : Handed(c)[j].nth < n
      BY DEF NoGaps
    <2>1. proc[c].hub = Hub /\ Covers(c) /\ InOrder(c)
      BY HubFacts DEF HubInv, ProcFits
    <2> QED BY <2>1 DEF Covers, InOrder
  <1> QED BY <1>1, HubInvAlways, PTL

(* No position falls between a rider's snapshot and the broadcasts.        *)
THEOREM NoPositionLost == Spec => []NoPositionMissed
  <1>1. HubInv => NoPositionMissed
    <2> SUFFICES ASSUME HubInv, NEW c \in Riders, At(c, "read"), proc[c].msg.kind = "position",
                        c \in listed[proc[c].hub], chan[proc[c].hub] = <<>>, ~OnItsWay
                 PROVE  \E n \in 0 .. trip["position"] :
                          n + Lag >= trip["position"] /\ (n = 0 \/ HasPosition(c, n))
      BY DEF NoPositionMissed
    <2> DEFINE n == proc[c].msg.n
    <2>1. c \in Conns /\ c \in Procs /\ proc[c].hub = Hub
      BY HubFacts DEF HubInv, ProcFits, At
    <2>2. /\ n \in Nat /\ trip["position"] \in Nat /\ n <= trip["position"] /\ Reached(c)
          /\ n = 0 \/ HasPosition(c, n)
      BY <2>1, ProcFacts DEF HubInv, PositionFits, At
    <2>3. CASE n + Lag >= trip["position"]
      BY <2>2, <2>3
    <2>4. CASE ~(n + Lag >= trip["position"])
      <3>1. ~\E p \in Procs : At(p, "broadcast") /\ proc[p].msg = Latest("position")
        BY DEF OnItsWay, Latest, Message
      <3>2. ~\E i \in 1 .. Len(chan[Hub]) : chan[Hub][i] = Latest("position")
        BY <2>1
      <3>3. PICK k \in since[c] + 1 .. Len(log[Hub]) : log[Hub][k] = Latest("position")
        BY <2>2, <2>4, <3>1, <3>2 DEF Reached
      <3>4. k \in Numbers(c) /\ k # 0
        <4>1. Numbers(c) = since[c] + 1 .. Len(log[Hub]) /\ since[c] \in Nat
          BY <2>1 DEF HubInv, HubTypes, Covers
        <4> QED BY <4>1
      <3>5. PICK i \in 1 .. Len(Handed(c)) : Handed(c)[i].nth = k
        BY <3>4 DEF Numbers
      <3>6. Handed(c)[i].msg = Latest("position")
        BY <2>1, <3>3, <3>4, <3>5 DEF HubInv, InOrder
      <3>7. HasPosition(c, trip["position"])
        BY <3>6 DEF HasPosition, Latest
      <3>8. trip["position"] + Lag >= trip["position"] /\ trip["position"] \in 0 .. trip["position"]
        BY <2>2, ConstantsOK
      <3> QED BY <3>7, <3>8
    <2> QED BY <2>3, <2>4
  <1> QED BY <1>1, HubInvAlways, PTL
=============================================================================
