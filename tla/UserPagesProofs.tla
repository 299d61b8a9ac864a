--------------------------- MODULE UserPagesProofs --------------------------
(***************************************************************************)
(* Proofs about HomeCache, for every number of processes, requests, keys   *)
(* and writes, and every time to live, and about Notifications, for any    *)
(* numbers of users, tokens, requests and notes, and both schemas.         *)
(***************************************************************************)
EXTENDS HomeCache, Notifications, FiniteSetTheorems, SequenceTheorems, TLAPS

-----------------------------------------------------------------------------
(* The home feed.                                                          *)

(* Only the version a table has now has not been out of date for a time.   *)
NewestIsFresh ==
  \A t \in Tables : \A v \in Versions : v >= table[t] => gone[t][v] = 0

(* What a reader on its way to Redis has read: a version the table has     *)
(* had, out of date no longer than the reader has held it, and no older    *)
(* than what is settled.                                                   *)
Fits(c) ==
  At(c, "set") =>
    /\ call[c].val <= table[Table(call[c].key)]
    /\ gone[Table(call[c].key)][call[c].val] <= call[c].held
    /\ call[c].key = Promotions => call[c].val >= settled

(* A list in Redis has been out of date no longer than it has been there,  *)
(* and its reader on the way.                                              *)
EntryFits(k) ==
  Found(k) =>
    /\ cache[k].val <= table[Table(k)]
    /\ gone[Table(k)][cache[k].val] <= cache[k].age + Stall
    /\ k = Promotions => cache[k].val >= settled

FeedInv ==
  /\ TypeOK
  /\ settled <= table[Promotions]
  /\ NewestIsFresh
  /\ \A c \in Calls : Fits(c)
  /\ \A k \in Keys : EntryFits(k)

CallTypes == [pc : Pcs, proc : Procs \cup {NoProc}, key : Keys,
              val : Versions, held : 0 .. Stall]

LEMMA KeyFacts ==
  /\ Promotions \in Keys /\ Promotions \in Tables /\ 0 \in Versions
  /\ \A k \in Keys : Table(k) \in Tables /\ (k = Promotions => Table(k) = Promotions)
  /\ Idle \in CallTypes /\ NoEntry \in Entries /\ NoEntry.age = Ttl
  BY ConstantsOK DEF Keys, Tables, Versions, Table, Idle, CallTypes, Pcs, NoEntry, Entries

LEMMA FeedInitInv == Init => FeedInv
  <1> SUFFICES ASSUME Init PROVE FeedInv
    OBVIOUS
  <1>1. TypeOK
    BY KeyFacts, ConstantsOK DEF Init, TypeOK, CallTypes, Versions
  <1>2. settled <= table[Promotions] /\ NewestIsFresh
    BY KeyFacts DEF Init, NewestIsFresh
  <1>3. \A c \in Calls : Fits(c)
    BY DEF Init, Fits, At, Idle
  <1>4. \A k \in Keys : EntryFits(k)
    BY KeyFacts, ConstantsOK DEF Init, EntryFits, Found
  <1> QED BY <1>1, <1>2, <1>3, <1>4 DEF FeedInv

-----------------------------------------------------------------------------
(* A step of one request that leaves Redis and the tables alone.           *)
LEMMA CallStep ==
  ASSUME FeedInv, NEW c \in Calls, NEW q \in CallTypes, call' = [call EXCEPT ![c] = q],
         UNCHANGED <<table, cache, caching, gone, settled>>, Fits(c)'
  PROVE  FeedInv'
  <1>1. TypeOK'
    BY DEF FeedInv, TypeOK, CallTypes
  <1>2. ASSUME NEW d \in Calls, d # c PROVE Fits(d)'
    BY <1>2 DEF FeedInv, TypeOK, Fits, At
  <1>3. NewestIsFresh' /\ settled' <= table'[Promotions]
    BY DEF FeedInv, NewestIsFresh
  <1>4. \A k \in Keys : EntryFits(k)'
    BY DEF FeedInv, EntryFits, Found
  <1> QED BY <1>1, <1>2, <1>3, <1>4 DEF FeedInv

(* A table may be written: a list in Redis or on its way stays one that    *)
(* the table has had.                                                      *)
LEMMA WriteStep ==
  ASSUME FeedInv, NEW t \in Tables, Bump(t), call' \in [Calls -> CallTypes],
         \A c \in Calls : At(c, "set")' => call'[c] = call[c],
         UNCHANGED <<cache, caching, gone, settled>>
  PROVE  FeedInv'
  <1>0. /\ table \in [Tables -> Versions] /\ table[t] < MaxWrites
        /\ table' = [table EXCEPT ![t] = @ + 1]
    BY DEF FeedInv, TypeOK, Bump
  <1>1. table[t] + 1 \in Versions
    BY <1>0, ConstantsOK DEF Versions
  <1>2. /\ table' \in [Tables -> Versions]
        /\ \A u \in Tables :
             table'[u] \in Versions /\ table[u] \in Versions /\ table'[u] >= table[u]
    <2>1. ASSUME NEW u \in Tables
          PROVE  table'[u] \in Versions /\ table[u] \in Versions /\ table'[u] >= table[u]
      <3>1. /\ table[u] \in Versions /\ (u # t => table'[u] = table[u])
            /\ (u = t => table'[u] = table[u] + 1)
        BY <1>0
      <3>2. table[u] \in Nat
        BY <3>1 DEF Versions
      <3> QED BY <3>1, <3>2, <1>1
    <2> QED BY <1>0, <1>1, <2>1
  <1>4. TypeOK'
    BY <1>2 DEF FeedInv, TypeOK, CallTypes
  <1>5. NewestIsFresh' /\ settled' <= table'[Promotions]
    <2>1. ASSUME NEW u \in Tables, NEW v \in Versions, v >= table'[u] PROVE gone'[u][v] = 0
      <3>1. v >= table[u]
        BY <2>1, <1>2 DEF Versions
      <3> QED BY <3>1 DEF FeedInv, NewestIsFresh
    <2>2. settled' <= table'[Promotions]
      <3>1. settled \in Versions /\ settled <= table[Promotions]
        BY DEF FeedInv, TypeOK
      <3> QED BY <3>1, <1>2, KeyFacts DEF Versions
    <2> QED BY <2>1, <2>2 DEF NewestIsFresh
  <1>6. ASSUME NEW d \in Calls PROVE Fits(d)'
    <2>1. At(d, "set")' => call'[d] = call[d] /\ At(d, "set")
      BY DEF At
    <2>2. call[d].val \in Versions /\ Table(call[d].key) \in Tables
      BY KeyFacts DEF FeedInv, TypeOK
    <2>3. Fits(d) /\ table[Table(call[d].key)] \in Versions
      BY <2>2 DEF FeedInv, TypeOK
    <2> QED BY <2>1, <2>2, <2>3, <1>2 DEF Fits, Versions
  <1>7. ASSUME NEW k \in Keys PROVE EntryFits(k)'
    <2>1. cache[k].val \in Versions /\ Table(k) \in Tables /\ EntryFits(k)
      BY KeyFacts DEF FeedInv, TypeOK, Entries
    <2>2. table[Table(k)] \in Versions
      BY <2>1 DEF FeedInv, TypeOK
    <2> QED BY <2>1, <2>2, <1>2 DEF EntryFits, Found, Versions
  <1> QED BY <1>4, <1>5, <1>6, <1>7 DEF FeedInv

(* A key may be deleted: nothing is found under it.                        *)
LEMMA DropStep ==
  ASSUME FeedInv, NEW k \in Keys, cache' = [cache EXCEPT ![k] = NoEntry],
         UNCHANGED <<table, caching, gone>>, call' \in [Calls -> CallTypes],
         \A c \in Calls : At(c, "set")' => call'[c] = call[c],
         \/ UNCHANGED settled
         \/ k = Promotions /\ settled' = table[Promotions] /\ ~Overtaken(table[Promotions])
  PROVE  FeedInv'
  <1>1. settled' \in Versions /\ settled' <= table[Promotions]
    BY KeyFacts DEF FeedInv, TypeOK, Versions
  <1>2. TypeOK'
    BY <1>1, KeyFacts DEF FeedInv, TypeOK, CallTypes
  <1>3. NewestIsFresh' /\ settled' <= table'[Promotions]
    BY <1>1 DEF FeedInv, NewestIsFresh
  <1>4. ASSUME NEW c \in Calls PROVE Fits(c)'
    <2> SUFFICES ASSUME At(c, "set"), call'[c] = call[c], Fits(c), call[c].key = Promotions
                 PROVE  call[c].val >= settled'
      BY DEF FeedInv, Fits, At
    <2>1. call[c].val \in Nat /\ table[Promotions] \in Nat
      BY KeyFacts DEF FeedInv, TypeOK, Versions
    <2> QED BY <2>1 DEF Fits, Overtaken
  <1>5. ASSUME NEW j \in Keys PROVE EntryFits(j)'
    <2>1. CASE j = k
      BY <2>1, KeyFacts, ConstantsOK DEF EntryFits, Found, FeedInv, TypeOK
    <2>2. CASE j # k
      <3>1. cache'[j] = cache[j] /\ EntryFits(j)
        BY <2>2 DEF FeedInv, TypeOK
      <3> QED BY <3>1, <2>2 DEF EntryFits, Found
    <2> QED BY <2>1, <2>2
  <1> QED BY <1>2, <1>3, <1>4, <1>5 DEF FeedInv

(* What a reader has read may be stored.                                   *)
LEMMA StoreStep ==
  ASSUME FeedInv, NEW c \in Calls, At(c, "set"), Store(call[c].key, call[c].val),
         Answer(c), UNCHANGED <<table, caching, gone, settled>>
  PROVE  FeedInv'
  <1>1. /\ call[c].key \in Keys /\ call[c].val \in Versions /\ call[c].held \in 0 .. Stall
        /\ Table(call[c].key) \in Tables
    BY KeyFacts DEF FeedInv, TypeOK
  <1>2. [val |-> call[c].val, age |-> 0] \in Entries
    BY <1>1, ConstantsOK DEF Entries
  <1>3. TypeOK'
    BY <1>1, <1>2, KeyFacts DEF FeedInv, TypeOK, CallTypes, Answer, Store
  <1>4. NewestIsFresh' /\ settled' <= table'[Promotions]
    BY DEF FeedInv, NewestIsFresh
  <1>5. ASSUME NEW d \in Calls PROVE Fits(d)'
    BY DEF FeedInv, TypeOK, Answer, Fits, At, Idle
  <1>6. ASSUME NEW k \in Keys PROVE EntryFits(k)'
    <2>1. CASE k = call[c].key
      <3>1. cache'[k].val = call[c].val /\ cache'[k].age = 0
        BY <2>1, <1>1 DEF Store, FeedInv, TypeOK
      <3>2. gone[Table(k)][call[c].val] \in Nat /\ gone[Table(k)][call[c].val] <= call[c].held
        BY <1>1, <2>1, ConstantsOK DEF FeedInv, TypeOK, Fits
      <3> QED BY <3>1, <3>2, <1>1, <2>1, ConstantsOK DEF EntryFits, FeedInv, Fits
    <2>2. CASE k # call[c].key
      <3>1. cache'[k] = cache[k] /\ EntryFits(k)
        BY <2>2, <1>1 DEF Store, FeedInv, TypeOK
      <3> QED BY <3>1 DEF EntryFits, Found
    <2> QED BY <2>1, <2>2
  <1> QED BY <1>3, <1>4, <1>5, <1>6 DEF FeedInv

-----------------------------------------------------------------------------
(* The actions of a request.                                               *)

LEMMA FeedBeginInv ==
  ASSUME FeedInv, NEW c \in Calls, NEW p \in Procs, NEW k \in Keys,
         NEW pc \in {"get", "read", "write", "del"}, Begin(c, p, k, pc)
  PROVE  FeedInv'
  <1> DEFINE q == [pc |-> pc, proc |-> p, key |-> k, val |-> 0, held |-> 0]
  <1>1. q \in CallTypes /\ q.pc # "set"
    BY KeyFacts, ConstantsOK DEF CallTypes, Pcs
  <1>2. call' = [call EXCEPT ![c] = q] /\ UNCHANGED <<table, cache, caching, gone, settled>>
    BY DEF Begin
  <1> HIDE DEF q
  <1>3. Fits(c)'
    BY <1>1, <1>2 DEF Fits, At, FeedInv, TypeOK
  <1> QED BY <1>1, <1>2, <1>3, CallStep

LEMMA GotoInv ==
  ASSUME FeedInv, NEW c \in Calls, NEW pc \in {"read", "write", "del"}, Goto(c, pc),
         UNCHANGED <<table, cache, caching, gone, settled>>
  PROVE  FeedInv'
  <1> DEFINE q == [call[c] EXCEPT !.pc = pc]
  <1>1. q \in CallTypes /\ q.pc # "set"
    BY DEF CallTypes, Pcs, FeedInv, TypeOK
  <1>2. call' = [call EXCEPT ![c] = q]
    BY DEF Goto
  <1> HIDE DEF q
  <1>3. Fits(c)'
    BY <1>1, <1>2 DEF Fits, At, FeedInv, TypeOK
  <1> QED BY <1>1, <1>2, <1>3, CallStep

LEMMA AnswerInv ==
  ASSUME FeedInv, NEW c \in Calls, Answer(c),
         UNCHANGED <<table, cache, caching, gone, settled>>
  PROVE  FeedInv'
  <1>1. Fits(c)'
    BY DEF Answer, Fits, At, Idle, FeedInv, TypeOK
  <1> QED BY <1>1, KeyFacts, CallStep DEF Answer

(* A list that is read is the newest, and not out of date at all.          *)
LEMMA ReadInv == ASSUME FeedInv, NEW c \in Calls, Read(c) PROVE FeedInv'
  <1>1. CASE call[c].proc \in caching
    <2> DEFINE q == [call[c] EXCEPT !.pc = "set", !.val = table[Table(call[c].key)]]
    <2>1. /\ call[c] \in CallTypes /\ call[c].key \in Keys
          /\ Table(call[c].key) \in Tables /\ table[Table(call[c].key)] \in Versions
      BY KeyFacts DEF FeedInv, TypeOK, CallTypes
    <2>2. /\ q \in CallTypes /\ q.pc = "set" /\ q.key = call[c].key
          /\ q.val = table[Table(q.key)] /\ q.held \in Nat
      <3>1. q \in CallTypes
        BY <2>1 DEF CallTypes, Pcs
      <3>2. q.pc = "set" /\ q.key = call[c].key /\ q.val = table[Table(call[c].key)]
        BY <2>1 DEF CallTypes
      <3> HIDE DEF q
      <3>3. q.held \in Nat
        BY <3>1, ConstantsOK DEF CallTypes
      <3> QED BY <3>1, <3>2, <3>3
    <2>3. call' = [call EXCEPT ![c] = q] /\ UNCHANGED <<table, cache, caching, gone, settled>>
      BY <1>1 DEF Read
    <2> HIDE DEF q
    <2>4. call'[c] = q
      BY <2>3 DEF FeedInv, TypeOK
    <2>5. gone[Table(q.key)][q.val] = 0
      BY <2>1, <2>2 DEF FeedInv, NewestIsFresh, Versions
    <2>6. q.key = Promotions => settled <= q.val
      BY <2>2, KeyFacts DEF FeedInv
    <2>7. q.val <= table[Table(q.key)]
      BY <2>1, <2>2 DEF Versions
    <2>8. q.val \in Nat /\ settled \in Nat
      BY <2>1, <2>2 DEF Versions, FeedInv, TypeOK
    <2>9. Fits(c)'
      BY <2>2, <2>3, <2>4, <2>5, <2>6, <2>7, <2>8 DEF Fits
    <2> QED BY <2>2, <2>3, <2>9, CallStep
  <1>2. CASE call[c].proc \notin caching
    BY <1>2, AnswerInv DEF Read
  <1> QED BY <1>1, <1>2

LEMMA WriteInv == ASSUME FeedInv, NEW c \in Calls, Write(c) PROVE FeedInv'
  <1>1. /\ Bump(Promotions) /\ UNCHANGED <<cache, caching, gone, settled>>
        /\ \/ call' = [call EXCEPT ![c] = Idle]
           \/ call' = [call EXCEPT ![c] = [call[c] EXCEPT !.pc = "del"]]
    BY DEF Write, Done, After, Goto, Answer
  <1>2. [call[c] EXCEPT !.pc = "del"] \in CallTypes /\ call \in [Calls -> CallTypes]
    BY DEF FeedInv, TypeOK, CallTypes, Pcs
  <1>3. PICK q \in CallTypes : call' = [call EXCEPT ![c] = q] /\ q.pc # "set"
    <2>1. Idle.pc # "set" /\ [call[c] EXCEPT !.pc = "del"].pc # "set"
      BY <1>2 DEF Idle, CallTypes
    <2> QED BY <1>1, <1>2, <2>1, KeyFacts
  <1>4. /\ call' \in [Calls -> CallTypes]
        /\ \A d \in Calls : At(d, "set")' => call'[d] = call[d]
    BY <1>2, <1>3 DEF At
  <1> QED BY <1>1, <1>4, KeyFacts, WriteStep

LEMMA DelInv == ASSUME FeedInv, NEW c \in Calls, Del(c) PROVE FeedInv'
  <1>1. /\ cache' = [cache EXCEPT ![Promotions] = NoEntry] /\ UNCHANGED <<table, caching, gone>>
        /\ call' = [call EXCEPT ![c] = Idle]
        /\ \/ UNCHANGED settled
           \/ settled' = table[Promotions] /\ ~Overtaken(table[Promotions])
    BY DEF Del, Done, After, Answer
  <1>2. /\ call' \in [Calls -> CallTypes]
        /\ \A d \in Calls : At(d, "set")' => call'[d] = call[d]
    BY <1>1, KeyFacts DEF FeedInv, TypeOK, CallTypes, At, Idle
  <1> QED BY <1>1, <1>2, KeyFacts, DropStep

LEMMA FailsInv == ASSUME FeedInv, NEW c \in Calls, Fails(c) PROVE FeedInv'
  <1>1. /\ call' \in [Calls -> CallTypes]
        /\ \A d \in Calls : At(d, "set")' => call'[d] = call[d]
    BY KeyFacts DEF Fails, Answer, FeedInv, TypeOK, CallTypes, At, Idle
  <1>2. CASE UNCHANGED <<table, cache>>
    BY <1>2, AnswerInv DEF Fails
  <1>3. CASE Bump(Promotions) /\ UNCHANGED cache
    BY <1>1, <1>3, KeyFacts, WriteStep DEF Fails
  <1>4. CASE At(c, "set") /\ Store(call[c].key, call[c].val) /\ UNCHANGED table
    BY <1>4, StoreStep DEF Fails
  <1>5. CASE cache' = [cache EXCEPT ![Promotions] = NoEntry] /\ UNCHANGED table
    BY <1>1, <1>5, KeyFacts, DropStep DEF Fails
  <1> QED BY <1>2, <1>3, <1>4, <1>5 DEF Fails

-----------------------------------------------------------------------------
(* The actions around the requests.                                        *)

LEMMA OutsideWriteInv ==
  ASSUME FeedInv, NEW t \in Tables, OutsideWrite(t) PROVE FeedInv'
  BY WriteStep DEF OutsideWrite, FeedInv, TypeOK, CallTypes

LEMMA RestartInv == ASSUME FeedInv, NEW p \in Procs, Restart(p) PROVE FeedInv'
  <1>1. /\ caching' \in SUBSET Procs /\ UNCHANGED <<table, cache, gone, settled>>
        /\ call' = [c \in Calls |-> IF call[c].proc = p THEN Idle ELSE call[c]]
    BY DEF Restart, FeedInv, TypeOK
  <1>2. TypeOK'
    BY <1>1, KeyFacts DEF FeedInv, TypeOK, CallTypes
  <1>3. \A c \in Calls : Fits(c)'
    BY <1>1 DEF FeedInv, Fits, At, Idle
  <1>4. NewestIsFresh' /\ settled' <= table'[Promotions] /\ \A k \in Keys : EntryFits(k)'
    BY <1>1 DEF FeedInv, NewestIsFresh, EntryFits, Found
  <1> QED BY <1>2, <1>3, <1>4 DEF FeedInv

LEMMA ForgetInv == ASSUME FeedInv, NEW k \in Keys, Forget(k) PROVE FeedInv'
  BY DropStep DEF Forget, FeedInv, TypeOK, CallTypes

(* The ages of a list, of its reader and of the versions it may be of      *)
(* advance together.                                                       *)
LEMMA TickInv == ASSUME FeedInv, Tick PROVE FeedInv'
  <1>1. /\ UNCHANGED <<table, caching, settled>> /\ table \in [Tables -> Versions]
        /\ gone \in [Tables -> [Versions -> 0 .. Ttl + Stall + 1]]
        /\ cache \in [Keys -> Entries] /\ call \in [Calls -> CallTypes]
    BY DEF Tick, FeedInv, TypeOK, CallTypes
  <1>2. ASSUME NEW t \in Tables, NEW v \in Versions
        PROVE  /\ gone'[t][v] \in 0 .. Ttl + Stall + 1
               /\ gone'[t][v] <= gone[t][v] + 1 /\ gone[t][v] \in Nat
               /\ v >= table[t] => gone'[t][v] = 0
    <2>1. /\ gone[t][v] \in 0 .. Ttl + Stall + 1
          /\ v \in Nat /\ table[t] \in Nat
      <3>1. gone[t] \in [Versions -> 0 .. Ttl + Stall + 1] /\ table[t] \in Versions
        BY <1>1
      <3>2. gone[t][v] \in 0 .. Ttl + Stall + 1
        BY <3>1
      <3> QED BY <3>1, <3>2 DEF Versions
    <2>2. gone'[t][v] = IF v < table[t] THEN Older(gone[t][v], Ttl + Stall + 1) ELSE 0
      BY DEF Tick
    <2> QED BY <2>1, <2>2, ConstantsOK DEF Older
  <1>3. ASSUME NEW k \in Keys
        PROVE  /\ cache'[k] \in Entries
               /\ Found(k)' => /\ Found(k) /\ cache'[k].val = cache[k].val
                               /\ cache'[k].age = cache[k].age + 1
    <2>1. cache[k] \in Entries
      BY <1>1
    <2>2. cache'[k] = IF cache[k].age + 1 < Ttl THEN [cache[k] EXCEPT !.age = @ + 1] ELSE NoEntry
      BY DEF Tick
    <2>3. CASE cache[k].age + 1 < Ttl
      <3>1. cache[k].age + 1 \in 0 .. Ttl /\ cache[k].age \in Nat
        BY <2>1, <2>3, ConstantsOK DEF Entries
      <3>2. cache'[k] = [cache[k] EXCEPT !.age = @ + 1]
        BY <2>2, <2>3
      <3> QED BY <2>1, <2>3, <3>1, <3>2, ConstantsOK DEF Entries, Found
    <2>4. CASE ~(cache[k].age + 1 < Ttl)
      BY <2>2, <2>4, KeyFacts, ConstantsOK DEF Found
    <2> QED BY <2>3, <2>4
  <1>4. ASSUME NEW c \in Calls
        PROVE  /\ call'[c] \in CallTypes /\ At(c, "set")' = At(c, "set")
               /\ call'[c].val = call[c].val /\ call'[c].key = call[c].key
               /\ At(c, "set") => call'[c].held = call[c].held + 1
    <2>1. call[c] \in CallTypes
      BY <1>1
    <2>2. CASE At(c, "set")
      <3>1. call[c].held + 1 \in 0 .. Stall
        BY <2>1, <2>2, ConstantsOK DEF Tick, CallTypes
      <3>2. call'[c] = [call[c] EXCEPT !.held = @ + 1]
        BY <2>2 DEF Tick
      <3> QED BY <2>1, <2>2, <3>1, <3>2 DEF CallTypes, At
    <2>3. CASE ~At(c, "set")
      <3>1. call'[c] = call[c]
        BY <2>3 DEF Tick
      <3> QED BY <2>1, <2>3, <3>1 DEF At
    <2> QED BY <2>2, <2>3
  <1>5. TypeOK'
    <2>1. cache' \in [Keys -> Entries] /\ call' \in [Calls -> CallTypes]
      BY <1>3, <1>4 DEF Tick
    <2>2. gone' \in [Tables -> [Versions -> 0 .. Ttl + Stall + 1]]
      <3>1. ASSUME NEW t \in Tables PROVE gone'[t] \in [Versions -> 0 .. Ttl + Stall + 1]
        BY <1>2 DEF Tick
      <3> QED BY <3>1 DEF Tick
    <2> QED BY <1>1, <2>1, <2>2 DEF FeedInv, TypeOK, CallTypes
  <1>6. NewestIsFresh' /\ settled' <= table'[Promotions]
    BY <1>1, <1>2 DEF NewestIsFresh, FeedInv
  <1>7. ASSUME NEW c \in Calls PROVE Fits(c)'
    <2>1. call[c].key \in Keys /\ call[c].val \in Versions /\ call[c].held \in Nat
      BY <1>1, ConstantsOK DEF CallTypes
    <2>2. Table(call[c].key) \in Tables /\ Fits(c)
      BY <2>1, KeyFacts DEF FeedInv
    <2>3. /\ gone'[Table(call[c].key)][call[c].val] <= gone[Table(call[c].key)][call[c].val] + 1
          /\ gone[Table(call[c].key)][call[c].val] \in Nat
          /\ gone'[Table(call[c].key)][call[c].val] \in Nat
      BY <2>1, <2>2, <1>2, ConstantsOK
    <2> QED BY <1>1, <1>4, <2>1, <2>2, <2>3 DEF Fits
  <1>8. ASSUME NEW k \in Keys PROVE EntryFits(k)'
    <2>1. cache[k].val \in Versions /\ cache[k].age \in Nat /\ Table(k) \in Tables /\ EntryFits(k)
      BY <1>1, KeyFacts, ConstantsOK DEF Entries, FeedInv
    <2>2. /\ gone'[Table(k)][cache[k].val] <= gone[Table(k)][cache[k].val] + 1
          /\ gone[Table(k)][cache[k].val] \in Nat /\ gone'[Table(k)][cache[k].val] \in Nat
      BY <2>1, <1>2, ConstantsOK
    <2> QED BY <1>1, <1>3, <2>1, <2>2, ConstantsOK DEF EntryFits
  <1> QED BY <1>5, <1>6, <1>7, <1>8 DEF FeedInv

LEMMA FeedNextInv == FeedInv /\ [Next]_vars => FeedInv'
  <1> SUFFICES ASSUME FeedInv, [Next]_vars PROVE FeedInv'
    OBVIOUS
  <1>1. CASE UNCHANGED vars
    BY <1>1 DEF vars, FeedInv, TypeOK, NewestIsFresh, Fits, At, EntryFits, Found
  <1>2. ASSUME NEW c \in Calls, Serve(c) PROVE FeedInv'
    <2>1. ASSUME NEW p \in Procs, Change(c, p) PROVE FeedInv'
      BY <2>1, FeedBeginInv, KeyFacts DEF Change, After
    <2>2. ASSUME NEW p \in Procs, NEW k \in Keys, List(c, p, k) PROVE FeedInv'
      BY <2>2, FeedBeginInv DEF List
    <2>3. ASSUME Get(c) \/ GetFails(c) PROVE FeedInv'
      BY <2>3, AnswerInv, GotoInv DEF Get, GetFails
    <2>4. ASSUME Set(c) PROVE FeedInv'
      BY <2>4, StoreStep DEF Set
    <2> QED BY <1>2, <2>1, <2>2, <2>3, <2>4, ReadInv, WriteInv, DelInv, FailsInv DEF Serve
  <1> QED BY <1>1, <1>2, OutsideWriteInv, RestartInv, ForgetInv, TickInv DEF Next

LEMMA FeedInvAlways == Spec => []FeedInv
  BY FeedInitInv, FeedNextInv, PTL DEF Spec

-----------------------------------------------------------------------------
(* A change that has settled is seen by every list found in Redis.         *)
THEOREM SettledAlwaysSeen == Spec => []SettledIsSeen
  <1>1. FeedInv => SettledIsSeen
    BY KeyFacts DEF FeedInv, EntryFits, SettledIsSeen
  <1> QED BY <1>1, FeedInvAlways, PTL

(* No list is found that has been out of date for longer than the time to  *)
(* live and its reader's way to Redis.                                     *)
THEOREM StaleListsExpire == Spec => []StaleOnlyForTtl
  <1>1. FeedInv => StaleOnlyForTtl
    <2> SUFFICES ASSUME FeedInv, NEW k \in Keys, Found(k)
                 PROVE  gone[Table(k)][cache[k].val] < Ttl + Stall
      BY DEF StaleOnlyForTtl
    <2>1. /\ cache[k].val \in Versions /\ cache[k].age \in Nat /\ cache[k].age < Ttl
          /\ Table(k) \in Tables
      BY KeyFacts, ConstantsOK DEF FeedInv, TypeOK, Entries, Found
    <2>2. /\ gone[Table(k)][cache[k].val] \in Nat
          /\ gone[Table(k)][cache[k].val] <= cache[k].age + Stall
      BY <2>1, ConstantsOK DEF FeedInv, TypeOK, EntryFits
    <2> QED BY <2>1, <2>2, ConstantsOK
  <1> QED BY <1>1, FeedInvAlways, PTL

-----------------------------------------------------------------------------
(* Notifications.                                                          *)

Pairs    == Users \X Tokens
JobTypes == [pc : JobPcs, user : Users \cup {NoUser}, token : Tokens \cup {NoToken},
             alone : BOOLEAN, aim : SUBSET Pairs, gone : SUBSET Pairs, new : SUBSET Pairs,
             note : 0 .. MaxNotes, left : SUBSET Tokens, sent : SUBSET Tokens,
             ever : SUBSET Tokens, always : SUBSET Tokens]

Notes  == [user : Users, read : BOOLEAN]
Regs   == {"delete", "lock", "insert", "commit"}
Row(j) == <<job[j].user, job[j].token>>

(* What a registration has established.  One that met no other of its      *)
(* token has found all the rows of it; one about to commit has found no    *)
(* row left that its own would clash with.                                 *)
RegFits(j) ==
  LET t == job[j]
  IN  /\ t.pc \in Regs => /\ t.user \in Users /\ t.token \in Tokens
                          /\ \A row \in t.aim \cup t.gone : row[2] = t.token
      /\ t.pc # "commit" => t.new = {}
      /\ t.pc \notin {"insert", "commit"} => t.gone = {}
      /\ t.pc = "commit" => /\ t.new = {Row(j)}
                            /\ \A other \in rows \ t.gone : ~Clash(Row(j), other)
      /\ t.alone /\ t.pc = "lock" => RowsOf(t.token) \subseteq t.aim
      /\ t.alone /\ t.pc \in {"insert", "commit"} => RowsOf(t.token) \subseteq t.gone

(* Two registrations of one token know of each other, and two that are     *)
(* about to commit do not clash.                                           *)
Apart(j, d) ==
  /\ job[j].pc \in Regs /\ job[d].pc \in Regs /\ job[j].token = job[d].token
       => ~job[j].alone /\ ~job[d].alone
  /\ Doing(j, "commit") /\ Doing(d, "commit") => ~Clash(Row(j), Row(d))

(* What a push has established: which devices it has still to reach, and   *)
(* that its note is in its user's inbox.                                   *)
PushFits(j) ==
  LET t == job[j]
  IN  /\ t.pc \in {"store", "list", "push", "pushed"} => t.user \in Users
      /\ t.pc \in {"list", "push", "pushed"}
           => t.note \in 1 .. Len(inbox) /\ inbox[t.note].user = t.user
      /\ t.pc \in {"store", "list"} => t.sent = {}
      /\ t.pc = "list"   => t.always \subseteq Devices(t.user) /\ Devices(t.user) \subseteq t.ever
      /\ t.pc = "push"   => t.always \subseteq t.sent \cup t.left /\ t.sent \cup t.left \subseteq t.ever
      /\ t.pc = "pushed" => t.always \subseteq t.sent /\ t.sent \subseteq t.ever

OwnersHold   == \A k \in Tokens : owner[k] # NoUser => RowsOf(k) = {<<owner[k], k>>}
TokensUnique == unique = "token" => \A r, s \in rows : r[2] = s[2] => r = s

InboxInv ==
  /\ InboxTypeOK /\ OwnersHold /\ TokensUnique
  /\ \A j \in Jobs : RegFits(j) /\ PushFits(j)
  /\ \A j, d \in Jobs : j # d => Apart(j, d)

LEMMA Types ==
  InboxTypeOK <=> /\ unique \in Schemas /\ rows \subseteq Pairs
                  /\ inbox \in Seq(Notes) /\ Len(inbox) <= MaxNotes
                  /\ job \in [Jobs -> JobTypes]
                  /\ owner \in [Tokens -> Users \cup {NoUser}]
  BY DEF InboxTypeOK, Pairs, JobTypes, Notes

LEMMA NoJobType == NoJob \in JobTypes
  BY NotificationsOK DEF NoJob, JobTypes, JobPcs, Pairs

LEMMA ApartSym == \A j, d \in Jobs : Apart(j, d) => Apart(d, j)
  BY DEF Apart, Clash

LEMMA InboxInitInv == InboxInit => InboxInv
  <1> SUFFICES ASSUME InboxInit PROVE InboxInv
    OBVIOUS
  <1>1. InboxTypeOK
    <2>1. inbox \in Seq(Notes) /\ Len(inbox) = 0
      BY EmptySeq DEF InboxInit
    <2> QED BY <2>1, Types, NoJobType, NotificationsOK DEF InboxInit
  <1>2. OwnersHold /\ TokensUnique
    BY DEF InboxInit, OwnersHold, TokensUnique
  <1>3. \A j \in Jobs : job[j].pc = "idle" /\ job[j].new = {} /\ job[j].gone = {}
    BY DEF InboxInit, NoJob
  <1>4. \A j \in Jobs : RegFits(j) /\ PushFits(j)
    BY <1>3 DEF RegFits, PushFits, Regs
  <1>5. \A j, d \in Jobs : Apart(j, d)
    BY <1>3 DEF Apart, Regs, Doing
  <1> QED BY <1>1, <1>2, <1>4, <1>5 DEF InboxInv

-----------------------------------------------------------------------------
(* A step of one request that leaves the devices alone and the notes at    *)
(* their places.                                                           *)
LEMMA JobStep ==
  ASSUME InboxInv, NEW j \in Jobs, NEW q \in JobTypes, job' = [job EXCEPT ![j] = q],
         UNCHANGED <<unique, rows, owner>>,
         inbox' \in Seq(Notes), Len(inbox') <= MaxNotes, Len(inbox) <= Len(inbox'),
         \A n \in 1 .. Len(inbox) : inbox'[n].user = inbox[n].user,
         RegFits(j)', PushFits(j)', \A d \in Jobs \ {j} : Apart(j, d)'
  PROVE  InboxInv'
  <1>1. InboxTypeOK'
    <2>1. job \in [Jobs -> JobTypes]
      BY Types DEF InboxInv
    <2>2. job' \in [Jobs -> JobTypes]
      BY <2>1
    <2> QED BY <2>2, Types DEF InboxTypeOK, InboxInv, Pairs, JobTypes, Notes
  <1>2. OwnersHold' /\ TokensUnique'
    BY DEF InboxInv, OwnersHold, TokensUnique, RowsOf
  <1>3. \A d \in Jobs \ {j} : job'[d] = job[d]
    BY Types DEF InboxInv
  <1>4. ASSUME NEW d \in Jobs \ {j} PROVE RegFits(d)' /\ PushFits(d)'
    <2>1. RegFits(d)'
      BY <1>3 DEF InboxInv, RegFits, Row, RowsOf, Clash
    <2>2. Len(inbox) \in Nat /\ Len(inbox') \in Nat
      BY Types, LenProperties DEF InboxInv
    <2>3. PushFits(d)'
      BY <1>3, <2>2 DEF InboxInv, PushFits, Devices
    <2> QED BY <2>1, <2>3
  <1>5. ASSUME NEW d \in Jobs, NEW e \in Jobs, d # e PROVE Apart(d, e)'
    <2>1. CASE d = j
      BY <2>1, <1>5
    <2>2. CASE e = j
      BY <2>2, <1>5 DEF Apart, Clash
    <2>3. CASE d # j /\ e # j
      BY <2>3, <1>3, <1>5 DEF InboxInv, Apart, Doing, Row, Clash
    <2> QED BY <2>1, <2>2, <2>3
  <1> QED BY <1>1, <1>2, <1>4, <1>5 DEF InboxInv

(* A step that leaves the inbox alone, too.                                *)
LEMMA QuietStep ==
  ASSUME InboxInv, NEW j \in Jobs, NEW q \in JobTypes, job' = [job EXCEPT ![j] = q],
         UNCHANGED <<unique, rows, inbox, owner>>,
         RegFits(j)', PushFits(j)', \A d \in Jobs \ {j} : Apart(j, d)'
  PROVE  InboxInv'
  <1>1. inbox' \in Seq(Notes) /\ Len(inbox') <= MaxNotes /\ Len(inbox) <= Len(inbox')
    BY Types, LenProperties DEF InboxInv
  <1> QED BY <1>1, JobStep

LEMMA EndStep ==
  ASSUME InboxInv, NEW j \in Jobs, EndJob(j), UNCHANGED <<unique, rows, owner>>,
         inbox' \in Seq(Notes), Len(inbox') <= MaxNotes, Len(inbox) <= Len(inbox'),
         \A n \in 1 .. Len(inbox) : inbox'[n].user = inbox[n].user
  PROVE  InboxInv'
  <1>1. job' = [job EXCEPT ![j] = NoJob] /\ job'[j] = NoJob
    BY Types DEF EndJob, InboxInv
  <1>2. RegFits(j)' /\ PushFits(j)'
    BY <1>1 DEF RegFits, PushFits, NoJob, Regs
  <1>3. \A d \in Jobs \ {j} : Apart(j, d)'
    BY <1>1 DEF Apart, NoJob, Regs, Doing
  <1> QED BY <1>1, <1>2, <1>3, NoJobType, JobStep

LEMMA QuietEnd ==
  ASSUME InboxInv, NEW j \in Jobs, EndJob(j), UNCHANGED <<unique, rows, inbox, owner>>
  PROVE  InboxInv'
  <1>1. inbox' \in Seq(Notes) /\ Len(inbox') <= MaxNotes /\ Len(inbox) <= Len(inbox')
    BY Types, LenProperties DEF InboxInv
  <1> QED BY <1>1, EndStep

-----------------------------------------------------------------------------
(* Registrations.                                                          *)

LEMMA InboxBeginInv ==
  ASSUME InboxInv, NEW j \in Jobs, NEW u \in Users, NEW k \in Tokens, RegisterDevice(j, u, k)
  PROVE  InboxInv'
  <1> DEFINE others == {d \in Jobs : Registering(d, k)}
             q == [NoJob EXCEPT !.pc = "delete", !.user = u, !.token = k, !.alone = others = {}]
  <1>1. /\ job \in [Jobs -> JobTypes] /\ UNCHANGED <<unique, rows, inbox, owner>>
        /\ job[j].pc = "idle"
    BY Types DEF InboxInv, RegisterDevice, Doing
  <1>2. q \in JobTypes
    BY NoJobType DEF JobTypes, JobPcs
  <1>3. /\ q.pc = "delete" /\ q.user = u /\ q.token = k /\ q.alone = (others = {})
        /\ q.aim = {} /\ q.gone = {} /\ q.new = {}
    BY DEF NoJob
  <1>4. /\ job'[j] = q
        /\ \A d \in Jobs \ {j} : job'[d] = IF d \in others THEN [job[d] EXCEPT !.alone = FALSE]
                                           ELSE job[d]
        /\ job' = [d \in Jobs |-> job'[d]]
    BY DEF RegisterDevice
  <1> HIDE DEF q
  <1>5. ASSUME NEW d \in Jobs \ {j}
        PROVE  /\ job'[d] \in JobTypes
               /\ job'[d].pc = job[d].pc /\ job'[d].user = job[d].user /\ job'[d].token = job[d].token
               /\ job'[d].alone => job[d].alone /\ d \notin others
               /\ d \notin others => job'[d] = job[d]
               /\ job'[d].aim = job[d].aim /\ job'[d].gone = job[d].gone /\ job'[d].new = job[d].new
               /\ job'[d].note = job[d].note /\ job'[d].left = job[d].left
               /\ job'[d].sent = job[d].sent /\ job'[d].ever = job[d].ever
               /\ job'[d].always = job[d].always
    <2>1. job[d] \in JobTypes
      BY <1>1
    <2>2. CASE d \in others
      <3>1. job'[d] = [job[d] EXCEPT !.alone = FALSE]
        BY <1>4, <2>2
      <3> QED BY <2>1, <2>2, <3>1 DEF JobTypes
    <2>3. CASE d \notin others
      BY <1>4, <2>1, <2>3
    <2> QED BY <2>2, <2>3
  <1>6. InboxTypeOK'
    <2>1. job' \in [Jobs -> JobTypes]
      BY <1>2, <1>4, <1>5
    <2> QED BY <1>1, <2>1, Types DEF InboxTypeOK, InboxInv, Pairs, JobTypes, Notes
  <1>7. OwnersHold' /\ TokensUnique'
    BY <1>1 DEF InboxInv, OwnersHold, TokensUnique, RowsOf
  <1>8. ASSUME NEW d \in Jobs PROVE RegFits(d)' /\ PushFits(d)'
    <2>1. CASE d = j
      BY <2>1, <1>3, <1>4 DEF RegFits, PushFits, Regs
    <2>2. CASE d # j
      <3>1. RegFits(d) /\ PushFits(d)
        BY DEF InboxInv
      <3>2. RegFits(d)'
        BY <2>2, <3>1, <1>1, <1>5 DEF RegFits, Row, RowsOf, Clash
      <3>3. PushFits(d)'
        BY <2>2, <3>1, <1>1, <1>5 DEF PushFits, Devices
      <3> QED BY <3>2, <3>3
    <2> QED BY <2>1, <2>2
  <1>9. ASSUME NEW d \in Jobs, NEW e \in Jobs, d # e PROVE Apart(d, e)'
    <2>1. \A f \in Jobs \ {j} : job[f].pc \in Regs /\ job[f].token = k <=> f \in others
      BY DEF Registering, Regs
    <2>a. ASSUME NEW f \in Jobs \ {j} PROVE Apart(j, f)' /\ Apart(f, j)'
      <3>1. f \in others => ~q.alone /\ ~job'[f].alone
        BY <1>3, <1>5
      <3>2. /\ job'[j].pc = "delete" /\ job'[j].token = k /\ job'[j].alone = q.alone
            /\ job'[f].pc = job[f].pc /\ job'[f].token = job[f].token
        BY <1>3, <1>4, <1>5
      <3> HIDE DEF others
      <3> QED BY <2>1, <3>1, <3>2 DEF Apart, Doing
    <2>2. CASE d = j
      BY <2>2, <2>a, <1>9
    <2>3. CASE e = j
      BY <2>3, <2>a, <1>9
    <2>4. CASE d # j /\ e # j
      <3>1. Apart(d, e)
        BY <1>9 DEF InboxInv
      <3> QED BY <2>4, <3>1, <1>1, <1>5 DEF Apart, Doing, Row, Clash
    <2> QED BY <2>2, <2>3, <2>4
  <1> QED BY <1>6, <1>7, <1>8, <1>9 DEF InboxInv

LEMMA DeleteInv == ASSUME InboxInv, NEW j \in Jobs, Delete(j) PROVE InboxInv'
  <1> DEFINE q == [job[j] EXCEPT !.pc = "lock", !.aim = RowsOf(job[j].token)]
  <1>1. /\ job[j] \in JobTypes /\ job[j].pc = "delete" /\ RowsOf(job[j].token) \subseteq Pairs
        /\ UNCHANGED <<unique, rows, inbox, owner>> /\ job \in [Jobs -> JobTypes]
    BY Types DEF InboxInv, Delete, Doing, RowsOf
  <1>2. q \in JobTypes
    BY <1>1 DEF JobTypes, JobPcs
  <1>3. /\ q.pc = "lock" /\ q.aim = RowsOf(job[j].token) /\ q.user = job[j].user
        /\ q.token = job[j].token /\ q.alone = job[j].alone
        /\ q.gone = job[j].gone /\ q.new = job[j].new
    BY <1>1 DEF JobTypes
  <1>4. job' = [job EXCEPT ![j] = q]
    BY <1>1 DEF Delete
  <1> HIDE DEF q
  <1>5. job'[j] = q /\ \A d \in Jobs \ {j} : job'[d] = job[d]
    BY <1>1, <1>4
  <1>6. RegFits(j)' /\ PushFits(j)'
    <2>1. RegFits(j)
      BY DEF InboxInv
    <2> QED BY <2>1, <1>1, <1>3, <1>5 DEF RegFits, PushFits, Regs, RowsOf
  <1>7. ASSUME NEW d \in Jobs \ {j} PROVE Apart(j, d)'
    <2>1. Apart(j, d)
      BY DEF InboxInv
    <2> QED BY <2>1, <1>1, <1>3, <1>5 DEF Apart, Regs, Doing
  <1> QED BY <1>1, <1>2, <1>4, <1>6, <1>7, QuietStep

LEMMA LockInv == ASSUME InboxInv, NEW j \in Jobs, Lock(j) PROVE InboxInv'
  <1> DEFINE q == [job[j] EXCEPT !.pc = "insert", !.gone = job[j].aim \cap rows]
  <1>1. /\ job[j] \in JobTypes /\ job[j].pc = "lock"
        /\ UNCHANGED <<unique, rows, inbox, owner>> /\ job \in [Jobs -> JobTypes]
    BY Types DEF InboxInv, Lock, Doing
  <1>2. q \in JobTypes
    BY <1>1 DEF JobTypes, JobPcs
  <1>3. /\ q.pc = "insert" /\ q.gone = job[j].aim \cap rows /\ q.user = job[j].user
        /\ q.token = job[j].token /\ q.alone = job[j].alone
        /\ q.aim = job[j].aim /\ q.new = job[j].new
    BY <1>1 DEF JobTypes
  <1>4. job' = [job EXCEPT ![j] = q]
    BY <1>1 DEF Lock
  <1> HIDE DEF q
  <1>5. job'[j] = q /\ \A d \in Jobs \ {j} : job'[d] = job[d]
    BY <1>1, <1>4
  <1>6. RegFits(j)' /\ PushFits(j)'
    <2>1. RegFits(j)
      BY DEF InboxInv
    <2> QED BY <2>1, <1>1, <1>3, <1>5 DEF RegFits, PushFits, Regs, RowsOf
  <1>7. ASSUME NEW d \in Jobs \ {j} PROVE Apart(j, d)'
    <2>1. Apart(j, d)
      BY DEF InboxInv
    <2> QED BY <2>1, <1>1, <1>3, <1>5 DEF Apart, Regs, Doing
  <1> QED BY <1>1, <1>2, <1>4, <1>6, <1>7, QuietStep

(* The INSERT goes ahead when no row it would clash with is left, and no   *)
(* other transaction decides on one.                                       *)
LEMMA InsertInv == ASSUME InboxInv, NEW j \in Jobs, Insert(j) PROVE InboxInv'
  <1> DEFINE row == <<job[j].user, job[j].token>>
             q == [job[j] EXCEPT !.pc = "commit", !.new = {row}]
  <1>1. /\ job[j] \in JobTypes /\ job[j].pc = "insert" /\ RegFits(j) /\ ~Undecided(j, row)
        /\ UNCHANGED <<unique, rows, inbox, owner>> /\ job \in [Jobs -> JobTypes]
    BY Types DEF InboxInv, Insert, Doing
  <1>2. CASE EndJob(j)
    BY <1>1, <1>2, QuietEnd
  <1>3. CASE /\ \A other \in rows \ job[j].gone : ~Clash(row, other)
             /\ job' = [job EXCEPT ![j].pc = "commit", ![j].new = {row}]
    <2>1. job[j].user \in Users /\ job[j].token \in Tokens /\ row \in Pairs
      BY <1>1 DEF RegFits, Regs, Pairs
    <2>2. q \in JobTypes
      BY <1>1, <2>1 DEF JobTypes, JobPcs
    <2>3. /\ q.pc = "commit" /\ q.new = {row} /\ q.user = job[j].user
          /\ q.token = job[j].token /\ q.alone = job[j].alone
          /\ q.aim = job[j].aim /\ q.gone = job[j].gone
      BY <1>1 DEF JobTypes
    <2>4. job' = [job EXCEPT ![j] = q]
      BY <1>1, <1>3
    <2> HIDE DEF q
    <2>5. job'[j] = q /\ \A d \in Jobs \ {j} : job'[d] = job[d]
      BY <1>1, <2>4
    <2>6. RegFits(j)' /\ PushFits(j)'
      <3>1. Row(j)' = row
        BY <2>3, <2>5 DEF Row
      <3> QED BY <3>1, <1>1, <1>3, <2>1, <2>3, <2>5 DEF RegFits, PushFits, Regs, RowsOf, Clash
    <2>7. ASSUME NEW d \in Jobs \ {j} PROVE Apart(j, d)'
      <3>1. Apart(j, d) /\ RegFits(d)
        BY DEF InboxInv
      <3>2. Doing(d, "commit") => ~Clash(row, Row(d))
        BY <1>1, <3>1 DEF Undecided, RegFits, Doing
      <3> QED BY <3>1, <3>2, <1>1, <2>3, <2>5 DEF Apart, Regs, Doing, Row, Clash
    <2> QED BY <1>1, <2>2, <2>4, <2>6, <2>7, QuietStep
  <1> QED BY <1>2, <1>3 DEF Insert

(* What a COMMIT leaves of the other requests.                             *)
LEMMA FollowFacts ==
  ASSUME InboxInv, NEW j \in Jobs, NEW d \in Jobs, Follow(j, d) = job'[d], rows' \subseteq Pairs
  PROVE  /\ job'[d] \in JobTypes
         /\ job'[d].pc = job[d].pc /\ job'[d].user = job[d].user /\ job'[d].token = job[d].token
         /\ job'[d].alone = job[d].alone /\ job'[d].gone = job[d].gone /\ job'[d].new = job[d].new
         /\ job'[d].note = job[d].note /\ job'[d].left = job[d].left /\ job'[d].sent = job[d].sent
         /\ job[d].pc \in {"list", "push", "pushed"}
              => /\ job'[d].ever = job[d].ever \cup Devices(job[d].user)'
                 /\ job'[d].always = job[d].always \cap Devices(job[d].user)'
         /\ job[d].pc \notin {"list", "push", "pushed"} => job'[d].aim = job[d].aim \ job[j].gone
  <1> DEFINE now == {k \in Tokens : <<job[d].user, k>> \in rows'}
  <1>1. job[d] \in JobTypes
    BY Types DEF InboxInv
  <1>2. CASE job[d].pc \in {"list", "push", "pushed"}
    <2>1. job'[d] = [job[d] EXCEPT !.ever = @ \cup now, !.always = @ \cap now]
      BY <1>2 DEF Follow
    <2>2. job'[d].user = job[d].user /\ job'[d].ever = job[d].ever \cup now
          /\ job'[d].always = job[d].always \cap now
      BY <2>1, <1>1 DEF JobTypes
    <2>3. Devices(job[d].user)' = now
      BY <2>2 DEF Devices
    <2> QED BY <1>1, <1>2, <2>1, <2>2, <2>3 DEF JobTypes
  <1>3. CASE job[d].pc \notin {"list", "push", "pushed"}
    <2>1. job'[d] = [job[d] EXCEPT !.aim = @ \ job[j].gone]
      BY <1>3 DEF Follow
    <2> QED BY <1>1, <1>3, <2>1 DEF JobTypes
  <1> QED BY <1>2, <1>3

LEMMA CommitStep ==
  ASSUME InboxInv, NEW j \in Jobs, Doing(j, "commit"), CommitRows(j), UNCHANGED <<unique, inbox>>,
         NEW o \in Users \cup {NoUser}, owner' = [owner EXCEPT ![job[j].token] = o],
         o # NoUser => job[j].alone /\ o = job[j].user
  PROVE  InboxInv'
  <1>1. PICK u \in Users, k \in Tokens :
          /\ job[j].user = u /\ job[j].token = k /\ job[j].new = {<<u, k>>}
          /\ \A other \in rows \ job[j].gone : ~Clash(<<u, k>>, other)
          /\ \A row \in job[j].gone : row[2] = k
          /\ job[j].alone => RowsOf(k) \subseteq job[j].gone
    BY DEF InboxInv, RegFits, Doing, Regs, Row
  <1>2. /\ job \in [Jobs -> JobTypes] /\ rows \subseteq Pairs
        /\ owner \in [Tokens -> Users \cup {NoUser}]
        /\ rows' = (rows \ job[j].gone) \cup {<<u, k>>} /\ rows' \subseteq Pairs
        /\ job' = [d \in Jobs |-> IF d = j THEN NoJob ELSE Follow(j, d)]
        /\ owner' = [owner EXCEPT ![k] = o]
    BY <1>1, Types DEF InboxInv, CommitRows, Pairs
  <1>3. job'[j] = NoJob
    BY <1>2
  <1>4. ASSUME NEW d \in Jobs \ {j}
        PROVE  /\ Follow(j, d) = job'[d] /\ job'[d] \in JobTypes
               /\ job'[d].pc = job[d].pc /\ job'[d].user = job[d].user
               /\ job'[d].token = job[d].token /\ job'[d].alone = job[d].alone
               /\ job'[d].gone = job[d].gone /\ job'[d].new = job[d].new
    <2>1. Follow(j, d) = job'[d]
      BY <1>2
    <2> QED BY <1>2, <2>1, FollowFacts
  <1>5. InboxTypeOK'
    <2>1. job' \in [Jobs -> JobTypes]
      BY <1>2, <1>3, <1>4, NoJobType
    <2>2. owner' \in [Tokens -> Users \cup {NoUser}]
      BY <1>2
    <2> QED BY <1>2, <2>1, <2>2, Types DEF InboxTypeOK, InboxInv, Pairs, JobTypes, Notes
  <1>6. /\ \A l \in Tokens \ {k} : RowsOf(l)' = RowsOf(l)
        /\ job[j].alone => RowsOf(k)' = {<<u, k>>}
    BY <1>1, <1>2 DEF RowsOf
  <1>7. OwnersHold'
    <2> SUFFICES ASSUME NEW l \in Tokens, owner'[l] # NoUser
                 PROVE  RowsOf(l)' = {<<owner'[l], l>>}
      BY DEF OwnersHold
    <2>1. CASE l = k
      <3>1. owner'[l] = o
        BY <1>2, <2>1
      <3> QED BY <2>1, <3>1, <1>1, <1>6
    <2>2. CASE l # k
      <3>1. owner'[l] = owner[l]
        BY <1>2, <2>2
      <3> QED BY <2>2, <3>1, <1>6 DEF InboxInv, OwnersHold
    <2> QED BY <2>1, <2>2
  <1>8. TokensUnique'
    <2> SUFFICES ASSUME unique = "token", NEW r \in rows', NEW s \in rows', r[2] = s[2]
                 PROVE  r = s
      BY DEF TokensUnique
    <2>1. \A other \in rows \ job[j].gone : other[2] # k
      BY <1>1 DEF Clash
    <2> QED BY <1>2, <2>1 DEF InboxInv, TokensUnique
  <1>9. ASSUME NEW d \in Jobs PROVE RegFits(d)'
    <2>1. CASE d = j
      BY <1>3, <2>1 DEF RegFits, NoJob, Regs
    <2>2. CASE d # j
      <3>1. RegFits(d) /\ Apart(j, d)
        BY <2>2 DEF InboxInv
      <3>2. job[d].pc \in Regs => job'[d].aim = job[d].aim \ job[j].gone
        BY <1>2, <1>4, <2>2, FollowFacts DEF Regs
      <3>3. job[d].pc = "commit" => /\ Row(d)' = Row(d) /\ ~Clash(Row(d), <<u, k>>)
                                    /\ \A other \in rows' \ job[d].gone : ~Clash(Row(d), other)
        BY <1>1, <1>2, <1>4, <2>2, <3>1 DEF Row, Apart, Doing, RegFits, Clash
      <3>4. job[d].alone /\ job[d].pc \in Regs => job[d].token # k
        BY <1>1, <3>1 DEF Apart, Doing, Regs
      <3>5. job[d].alone /\ job[d].pc \in Regs
              => RowsOf(job[d].token)' \subseteq RowsOf(job[d].token) \ job[j].gone
        BY <1>1, <1>2, <1>4, <2>2, <3>4 DEF RowsOf
      <3>6. job'[d].pc \in Regs => /\ job'[d].user \in Users /\ job'[d].token \in Tokens
                                   /\ \A row \in job'[d].aim \cup job'[d].gone : row[2] = job'[d].token
        BY <1>4, <2>2, <3>1, <3>2 DEF RegFits
      <3>7. job'[d].pc = "commit" => /\ job'[d].new = {Row(d)'}
                                     /\ \A other \in rows' \ job'[d].gone : ~Clash(Row(d), other)'
        BY <1>4, <2>2, <3>1, <3>3 DEF RegFits, Clash
      <3>8. /\ job'[d].alone /\ job'[d].pc = "lock" => RowsOf(job[d].token)' \subseteq job'[d].aim
            /\ job'[d].alone /\ job'[d].pc \in {"insert", "commit"}
                 => RowsOf(job[d].token)' \subseteq job'[d].gone
        BY <1>4, <2>2, <3>1, <3>2, <3>5 DEF RegFits, Regs
      <3> QED BY <1>4, <2>2, <3>1, <3>6, <3>7, <3>8 DEF RegFits
    <2> QED BY <2>1, <2>2
  <1>10. ASSUME NEW d \in Jobs PROVE PushFits(d)'
    <2>1. CASE d = j
      BY <1>3, <2>1 DEF PushFits, NoJob
    <2>2. CASE d # j
      <3>1. PushFits(d)
        BY DEF InboxInv
      <3>2. /\ job'[d].note = job[d].note /\ job'[d].left = job[d].left /\ job'[d].sent = job[d].sent
            /\ job[d].pc \in {"list", "push", "pushed"}
                 => /\ job'[d].ever = job[d].ever \cup Devices(job[d].user)'
                    /\ job'[d].always = job[d].always \cap Devices(job[d].user)'
        BY <1>2, <1>4, <2>2, FollowFacts
      <3> QED BY <1>4, <2>2, <3>1, <3>2 DEF PushFits
    <2> QED BY <2>1, <2>2
  <1>11. ASSUME NEW d \in Jobs, NEW e \in Jobs, d # e PROVE Apart(d, e)'
    <2>1. CASE d = j \/ e = j
      BY <1>3, <2>1 DEF Apart, NoJob, Regs, Doing
    <2>2. CASE d # j /\ e # j
      <3>1. Apart(d, e)
        BY <1>11 DEF InboxInv
      <3> QED BY <1>4, <2>2, <3>1 DEF Apart, Doing, Row, Clash
    <2> QED BY <2>1, <2>2
  <1> QED BY <1>5, <1>7, <1>8, <1>9, <1>10, <1>11 DEF InboxInv

LEMMA CommitInv == ASSUME InboxInv, NEW j \in Jobs, Commit(j) PROVE InboxInv'
  <1> DEFINE o == IF job[j].alone THEN job[j].user ELSE NoUser
  <1>1. o \in Users \cup {NoUser}
    BY Types DEF InboxInv, JobTypes
  <1>2. owner' = [owner EXCEPT ![job[j].token] = o] /\ (o # NoUser => job[j].alone /\ o = job[j].user)
    BY DEF Commit
  <1> HIDE DEF o
  <1> QED BY <1>1, <1>2, CommitStep DEF Commit

LEMMA RegisterFailsInv == ASSUME InboxInv, NEW j \in Jobs, RegisterFails(j) PROVE InboxInv'
  <1>1. CASE EndJob(j) /\ UNCHANGED <<rows, owner>>
    BY <1>1, QuietEnd DEF RegisterFails
  <1>2. CASE /\ Doing(j, "commit") /\ CommitRows(j)
             /\ owner' = [owner EXCEPT ![job[j].token] = NoUser]
    BY <1>2, CommitStep DEF RegisterFails
  <1> QED BY <1>1, <1>2 DEF RegisterFails

-----------------------------------------------------------------------------
(* Notes and pushes.                                                       *)

LEMMA AppendKeeps ==
  ASSUME InboxTypeOK, NEW note \in Notes, Len(inbox) < MaxNotes
  PROVE  /\ Append(inbox, note) \in Seq(Notes)
         /\ Len(Append(inbox, note)) = Len(inbox) + 1 /\ Len(inbox) + 1 <= MaxNotes
         /\ Len(inbox) + 1 \in 1 .. MaxNotes
         /\ \A n \in 1 .. Len(inbox) : Append(inbox, note)[n] = inbox[n]
         /\ Append(inbox, note)[Len(inbox) + 1] = note
  <1>1. inbox \in Seq(Notes) /\ Len(inbox) \in Nat
    BY Types, LenProperties
  <1> QED BY <1>1, AppendProperties, NotificationsOK

LEMMA NotifyInv == ASSUME InboxInv, NEW j \in Jobs, NEW u \in Users, Notify(j, u) PROVE InboxInv'
  <1> DEFINE q == [NoJob EXCEPT !.pc = "store", !.user = u]
  <1>1. job \in [Jobs -> JobTypes] /\ UNCHANGED <<unique, rows, inbox, owner>>
    BY Types DEF InboxInv, Notify
  <1>2. q \in JobTypes
    BY NoJobType DEF JobTypes, JobPcs
  <1>3. q.pc = "store" /\ q.user = u /\ q.new = {} /\ q.gone = {} /\ q.sent = {}
    BY DEF NoJob
  <1>4. job' = [job EXCEPT ![j] = q]
    BY DEF Notify
  <1> HIDE DEF q
  <1>5. job'[j] = q
    BY <1>1, <1>4
  <1>6. RegFits(j)' /\ PushFits(j)' /\ \A d \in Jobs \ {j} : Apart(j, d)'
    BY <1>3, <1>5 DEF RegFits, PushFits, Apart, Regs, Doing
  <1> QED BY <1>1, <1>2, <1>4, <1>6, QuietStep

LEMMA StoreNoteInv == ASSUME InboxInv, NEW j \in Jobs, StoreNote(j) PROVE InboxInv'
  <1> DEFINE u == job[j].user
             q == [job[j] EXCEPT !.pc = "list", !.note = Len(inbox) + 1,
                                 !.ever = Devices(u), !.always = Devices(u)]
  <1>1. /\ job \in [Jobs -> JobTypes] /\ job[j] \in JobTypes /\ UNCHANGED <<unique, rows, owner>>
        /\ job[j].pc = "store" /\ Len(inbox) < MaxNotes /\ inbox' = Append(inbox, Unread(u))
        /\ RegFits(j) /\ PushFits(j) /\ Devices(u) \subseteq Tokens
    BY Types DEF InboxInv, StoreNote, Doing, Devices
  <1>2. u \in Users /\ Unread(u) \in Notes /\ Unread(u).user = u
    BY <1>1 DEF PushFits, Unread, Notes
  <1>3. /\ inbox' \in Seq(Notes) /\ Len(inbox') = Len(inbox) + 1 /\ Len(inbox') <= MaxNotes
        /\ Len(inbox) + 1 \in 1 .. MaxNotes /\ Len(inbox) \in Nat
        /\ \A n \in 1 .. Len(inbox) : inbox'[n].user = inbox[n].user
        /\ inbox'[Len(inbox) + 1].user = u
    BY <1>1, <1>2, AppendKeeps, Types, LenProperties DEF InboxInv
  <1>4. q \in JobTypes
    <2>1. Len(inbox) + 1 \in 0 .. MaxNotes /\ Devices(u) \in SUBSET Tokens
      BY <1>1, <1>3, NotificationsOK
    <2> QED BY <2>1, <1>1 DEF JobTypes, JobPcs
  <1>5. /\ q.pc = "list" /\ q.user = u /\ q.note = Len(inbox) + 1 /\ q.ever = Devices(u)
        /\ q.always = Devices(u) /\ q.sent = job[j].sent /\ q.new = job[j].new /\ q.gone = job[j].gone
    BY <1>1 DEF JobTypes
  <1>6. job' = [job EXCEPT ![j] = q]
    BY <1>1, <1>3 DEF StoreNote
  <1> HIDE DEF q
  <1>7. job'[j] = q
    BY <1>1, <1>6
  <1>8. RegFits(j)' /\ \A d \in Jobs \ {j} : Apart(j, d)'
    BY <1>1, <1>5, <1>7 DEF RegFits, Apart, Regs, Doing
  <1>9. PushFits(j)'
    BY <1>1, <1>2, <1>3, <1>5, <1>7 DEF PushFits, Devices
  <1>10. Len(inbox) <= Len(inbox')
    BY <1>3
  <1> QED BY <1>1, <1>3, <1>4, <1>6, <1>8, <1>9, <1>10, JobStep

LEMMA ListDevicesInv == ASSUME InboxInv, NEW j \in Jobs, ListDevices(j) PROVE InboxInv'
  <1> DEFINE q == [job[j] EXCEPT !.pc = "push", !.left = Devices(job[j].user)]
  <1>1. /\ job \in [Jobs -> JobTypes] /\ job[j] \in JobTypes
        /\ UNCHANGED <<unique, rows, inbox, owner>> /\ job[j].pc = "list"
        /\ RegFits(j) /\ PushFits(j) /\ Devices(job[j].user) \subseteq Tokens
    BY Types DEF InboxInv, ListDevices, Doing, Devices
  <1>2. CASE EndJob(j)
    BY <1>1, <1>2, QuietEnd
  <1>3. CASE job' = [job EXCEPT ![j].pc = "push", ![j].left = Devices(job[j].user)]
    <2>1. q \in JobTypes
      BY <1>1 DEF JobTypes, JobPcs
    <2>2. /\ q.pc = "push" /\ q.left = Devices(job[j].user) /\ q.user = job[j].user
          /\ q.note = job[j].note /\ q.sent = job[j].sent /\ q.ever = job[j].ever
          /\ q.always = job[j].always /\ q.new = job[j].new /\ q.gone = job[j].gone
      BY <1>1 DEF JobTypes
    <2>3. job' = [job EXCEPT ![j] = q]
      BY <1>1, <1>3
    <2> HIDE DEF q
    <2>4. job'[j] = q
      BY <1>1, <2>3
    <2>5. RegFits(j)' /\ \A d \in Jobs \ {j} : Apart(j, d)'
      BY <1>1, <2>2, <2>4 DEF RegFits, Apart, Regs, Doing
    <2>6. PushFits(j)'
      BY <1>1, <2>2, <2>4 DEF PushFits, Devices
    <2> QED BY <1>1, <2>1, <2>3, <2>5, <2>6, QuietStep
  <1> QED BY <1>2, <1>3 DEF ListDevices

LEMMA PushInv == ASSUME InboxInv, NEW j \in Jobs, Push(j) PROVE InboxInv'
  <1>1. /\ job \in [Jobs -> JobTypes] /\ job[j] \in JobTypes
        /\ UNCHANGED <<unique, rows, inbox, owner>> /\ job[j].pc = "push"
        /\ RegFits(j) /\ PushFits(j)
    BY Types DEF InboxInv, Push, Doing
  <1>2. PICK chunk \in SUBSET job[j].left :
          job' = [job EXCEPT ![j].sent = @ \cup chunk, ![j].left = @ \ chunk,
                             ![j].pc = IF chunk = job[j].left THEN "pushed" ELSE "push"]
    BY DEF Push
  <1> DEFINE q == [job[j] EXCEPT !.sent = @ \cup chunk, !.left = @ \ chunk,
                                 !.pc = IF chunk = job[j].left THEN "pushed" ELSE "push"]
  <1>3. q \in JobTypes
    BY <1>1 DEF JobTypes, JobPcs
  <1>4. /\ q.pc = IF chunk = job[j].left THEN "pushed" ELSE "push"
        /\ q.left = job[j].left \ chunk /\ q.sent = job[j].sent \cup chunk /\ q.user = job[j].user
        /\ q.note = job[j].note /\ q.ever = job[j].ever
        /\ q.always = job[j].always /\ q.new = job[j].new /\ q.gone = job[j].gone
    BY <1>1 DEF JobTypes
  <1>5. job' = [job EXCEPT ![j] = q]
    BY <1>1, <1>2
  <1> HIDE DEF q
  <1>6. job'[j] = q
    BY <1>1, <1>5
  <1>7. RegFits(j)' /\ \A d \in Jobs \ {j} : Apart(j, d)'
    BY <1>1, <1>4, <1>6 DEF RegFits, Apart, Regs, Doing
  <1>8. PushFits(j)'
    BY <1>1, <1>4, <1>6 DEF PushFits
  <1> QED BY <1>1, <1>3, <1>5, <1>7, <1>8, QuietStep

LEMMA NotifyFailsInv == ASSUME InboxInv, NEW j \in Jobs, NotifyFails(j) PROVE InboxInv'
  <1>1. CASE UNCHANGED inbox
    BY <1>1, QuietEnd DEF NotifyFails
  <1>2. CASE /\ Doing(j, "store") /\ Len(inbox) < MaxNotes
             /\ inbox' = Append(inbox, Unread(job[j].user))
    <2>1. Unread(job[j].user) \in Notes
      BY <1>2 DEF InboxInv, PushFits, Doing, Unread, Notes
    <2>2. /\ inbox' \in Seq(Notes) /\ Len(inbox') <= MaxNotes /\ Len(inbox) <= Len(inbox')
          /\ \A n \in 1 .. Len(inbox) : inbox'[n].user = inbox[n].user
      BY <1>2, <2>1, AppendKeeps, Types, LenProperties DEF InboxInv
    <2> QED BY <2>2, EndStep DEF NotifyFails
  <1> QED BY <1>1, <1>2 DEF NotifyFails

(* A step of the inbox alone.                                              *)
LEMMA InboxStep ==
  ASSUME InboxInv, UNCHANGED <<unique, rows, job, owner>>,
         inbox' \in Seq(Notes), Len(inbox') <= MaxNotes, Len(inbox) <= Len(inbox'),
         \A n \in 1 .. Len(inbox) : inbox'[n].user = inbox[n].user
  PROVE  InboxInv'
  <1>1. InboxTypeOK'
    BY Types DEF InboxTypeOK, InboxInv, Pairs, JobTypes, Notes
  <1>2. OwnersHold' /\ TokensUnique'
    BY DEF InboxInv, OwnersHold, TokensUnique, RowsOf
  <1>3. Len(inbox) \in Nat /\ Len(inbox') \in Nat
    BY Types, LenProperties DEF InboxInv
  <1>4. \A j \in Jobs : RegFits(j)' /\ PushFits(j)'
    BY <1>3 DEF InboxInv, RegFits, PushFits, Row, RowsOf, Devices, Clash
  <1>5. \A j, d \in Jobs : j # d => Apart(j, d)'
    BY DEF InboxInv, Apart, Doing, Row, Clash
  <1> QED BY <1>1, <1>2, <1>4, <1>5 DEF InboxInv

LEMMA WelcomeInv == ASSUME InboxInv, NEW u \in Users, Welcome(u) PROVE InboxInv'
  <1> DEFINE two == <<Unread(u), Unread(u)>>
  <1>1. two \in Seq(Notes) /\ Len(two) = 2 /\ inbox \in Seq(Notes) /\ Len(inbox) \in Nat
    BY Types, LenProperties DEF InboxInv, Unread, Notes
  <1>2. inbox' = inbox \o two /\ Len(inbox) + 2 <= MaxNotes
    BY DEF Welcome
  <1> HIDE DEF two
  <1>3. /\ inbox' \in Seq(Notes) /\ Len(inbox') = Len(inbox) + 2
        /\ \A n \in 1 .. Len(inbox) : inbox'[n] = inbox[n]
    <2>1. /\ inbox \o two \in Seq(Notes) /\ Len(inbox \o two) = Len(inbox) + Len(two)
          /\ \A n \in 1 .. Len(inbox) + Len(two) :
               (inbox \o two)[n] = IF n <= Len(inbox) THEN inbox[n] ELSE two[n - Len(inbox)]
      BY <1>1, ConcatProperties
    <2> QED BY <1>1, <1>2, <2>1
  <1> QED BY <1>1, <1>2, <1>3, InboxStep DEF Welcome

LEMMA MarkAsReadInv ==
  ASSUME InboxInv, NEW u \in Users, NEW n \in DOMAIN inbox, MarkAsRead(u, n) PROVE InboxInv'
  <1>1. inbox \in Seq(Notes) /\ n \in 1 .. Len(inbox) /\ Len(inbox) \in Nat /\ inbox[n] \in Notes
    BY Types, LenProperties, ElementOfSeq DEF InboxInv
  <1>2. [inbox[n] EXCEPT !.read = TRUE] \in Notes /\ [inbox[n] EXCEPT !.read = TRUE].user = inbox[n].user
    BY <1>1 DEF Notes
  <1>3. inbox' = [inbox EXCEPT ![n] = [inbox[n] EXCEPT !.read = TRUE]]
    BY DEF MarkAsRead
  <1>4. inbox' \in Seq(Notes) /\ Len(inbox') = Len(inbox)
    BY <1>1, <1>2, <1>3, ExceptSeq
  <1>5. \A m \in 1 .. Len(inbox) : inbox'[m].user = inbox[m].user
    BY <1>1, <1>2, <1>3, ExceptSeq
  <1>6. Len(inbox') <= MaxNotes /\ Len(inbox) <= Len(inbox')
    BY <1>1, <1>4, Types DEF InboxInv
  <1> QED BY <1>4, <1>5, <1>6, InboxStep DEF MarkAsRead

LEMMA InboxNextInv == InboxInv /\ [InboxNext]_inboxVars => InboxInv'
  <1> SUFFICES ASSUME InboxInv, [InboxNext]_inboxVars PROVE InboxInv'
    OBVIOUS
  <1>1. CASE UNCHANGED inboxVars
    <2>1. inbox' = inbox /\ Len(inbox) \in Nat /\ inbox \in Seq(Notes) /\ Len(inbox) <= MaxNotes
      BY <1>1, Types, LenProperties DEF inboxVars, InboxInv
    <2> QED BY <1>1, <2>1, InboxStep DEF inboxVars
  <1>2. ASSUME NEW j \in Jobs, Register(j) PROVE InboxInv'
    BY <1>2, InboxBeginInv, DeleteInv, LockInv, InsertInv, CommitInv, RegisterFailsInv DEF Register
  <1>3. ASSUME NEW j \in Jobs, Send(j) PROVE InboxInv'
    BY <1>3, NotifyInv, StoreNoteInv, ListDevicesInv, PushInv, QuietEnd, NotifyFailsInv
       DEF Send, EndPush
  <1> QED BY <1>1, <1>2, <1>3, WelcomeInv, MarkAsReadInv DEF InboxNext

LEMMA InboxInvAlways == InboxSpec => []InboxInv
  BY InboxInitInv, InboxNextInv, PTL DEF InboxSpec

-----------------------------------------------------------------------------
(* A device belongs to whoever registered it last, and where the token is  *)
(* unique to nobody else.                                                  *)
THEOREM DevicesHaveOwners == InboxSpec => []DeviceHasItsOwner
  <1>1. InboxInv => DeviceHasItsOwner
    <2> SUFFICES ASSUME InboxInv, NEW k \in Tokens, unique = "token"
                 PROVE  Cardinality(RowsOf(k)) <= 1
      BY DEF DeviceHasItsOwner, InboxInv, OwnersHold
    <2>1. CASE RowsOf(k) = {}
      BY <2>1, FS_EmptySet
    <2>2. CASE RowsOf(k) # {}
      <3>1. PICK row \in RowsOf(k) : TRUE
        BY <2>2
      <3>2. RowsOf(k) = {row}
        BY <3>1 DEF InboxInv, TokensUnique, RowsOf
      <3> QED BY <3>2, FS_Singleton
    <2> QED BY <2>1, <2>2
  <1> QED BY <1>1, InboxInvAlways, PTL

(* A push goes to every device its user has had all along, and to none he  *)
(* has not had at all.                                                     *)
THEOREM PushesGoToOwners == InboxSpec => []PushesReachOwners
  <1>1. InboxInv => PushesReachOwners
    BY DEF InboxInv, PushFits, PushesReachOwners, Doing
  <1> QED BY <1>1, InboxInvAlways, PTL
=============================================================================
