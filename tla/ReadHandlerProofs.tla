----------------------------- MODULE ReadHandlerProofs -----------------------------
(***************************************************************************)
(* Proofs that the read handler loses, repeats and takes back nothing, for *)
(* any number of clients, addresses and pushes below half the modulus.     *)
(***************************************************************************)
EXTENDS ReadHandler, CacheIndexProofs

(***************************************************************************)
(* The read handler.  The inductive invariant ReadInv follows every value  *)
(* from the cache to the client: CoverInv says of each index, the one the  *)
(* client has and the one the handler is about to send, that the values it *)
(* covers are shown, written to the response, or excused by a race, by the *)
(* age limit, by a failed lock or by a torn entry; ValueInv orders what is *)
(* shown, written and cached, and IndexInv says which indices are of the   *)
(* present life of the server.                                             *)
(***************************************************************************)

\* The pushes of the earlier lives of the server.
Earlier == pushes - position

\* The stamp of an entry is the index of the push that its value counts, unless a
\* death has torn it.
CacheInv ==
  /\ pushes \in 0..MaxPush /\ position \in 0..pushes
  /\ \A a \in DOMAIN entries :
       /\ entries[a].value \in 0..pushes
       /\ a \notin torn => /\ entries[a].value \in (Earlier + 1)..pushes
                          /\ entries[a].pushed_at = entries[a].value - Earlier

\* The handler has not yet taken an index from the cache.
Before == {"client", "initial", "position"}

\* What client c will show of a once the response written so far reaches it.
Shown(c, a) == IF a \in Written(c) THEN out[c][a] ELSE held[c][a]

\* The age limit, a failed lock, a race or a torn entry may have kept the last value of
\* a from client c.
Excused(c, a) == a \in raced[c] \cup dropped[c] \cup torn

TypeInv(c) ==
  /\ idx[c] \in 0..MaxPush /\ lastpos[c] \in 0..MaxPush
  /\ held[c] \in [Subscribed -> 0..MaxPush] /\ todo[c] \subseteq Subscribed
  /\ Written(c) \subseteq Subscribed /\ \A a \in Written(c) : out[c][a] \in 0..MaxPush

\* The index the client has and the one the handler will send.
IndexInv(c) ==
  /\ IF old[c] THEN idx[c] # 0 ELSE idx[c] <= position
  /\ pc[c] \in Before => ~renewed[c]
  /\ pc[c] \notin Before =>
       IF renewed[c]
       THEN /\ lastpos[c] <= position
            /\ old[c] \/ idx[c] <= lastpos[c] \/ (lastpos[c] = 0 /\ ~CanLock)
       ELSE lastpos[c] = idx[c] /\ idx[c] # 0 /\ Written(c) = {}
  /\ pc[c] \in {"initial", "position", "busread"} => idx[c] = 0 \/ mode[c] \in {"bus", "cache"}
  /\ pc[c] = "busread" => renewed[c]
  /\ pc[c] = "position" => todo[c] = {}
  /\ pc[c] \in {"waiting", "delta"} => Written(c) = {}

\* The values the client shows and those in the response.
ValueInv(c, a) ==
  /\ held[c][a] <= pushes
  /\ a \in Written(c) => out[c][a] <= pushes
  /\ a \notin torn =>
       /\ a \in DOMAIN entries => held[c][a] <= entries[a].value
       /\ a \in Written(c) =>
            /\ a \in DOMAIN entries /\ out[c][a] <= entries[a].value
            /\ out[c][a] > Earlier /\ held[c][a] <= out[c][a]
            /\ pc[c] \notin Before => out[c][a] - Earlier <= lastpos[c]
            /\ (pc[c] \notin Before /\ mode[c] \in {"poll", "aged"} /\ idx[c] # 0 /\ ~old[c])
                  => out[c][a] - Earlier > idx[c]

\* The client has every value its index covers, and its next index will cover only
\* values that it has or that the response holds.
CoverInv(c, a) ==
  (a \in DOMAIN entries /\ ~Excused(c, a)) =>
    /\ (idx[c] # 0 /\ (old[c] \/ entries[a].pushed_at <= idx[c]))
          => held[c][a] = entries[a].value
    /\ (pc[c] \in {"initial", "position"} /\ a \notin todo[c])
          => a \in Written(c) /\ out[c][a] = entries[a].value
    /\ (pc[c] \notin Before /\ ((old[c] /\ ~renewed[c]) \/ entries[a].pushed_at <= lastpos[c]))
          => Shown(c, a) = entries[a].value

ClientInv(c) ==
  /\ TypeInv(c) /\ IndexInv(c)
  /\ \A a \in Subscribed : ValueInv(c, a) /\ CoverInv(c, a)

Domains ==
  /\ DOMAIN idx = Client /\ DOMAIN held = Client /\ DOMAIN pc = Client
  /\ DOMAIN mode = Client /\ DOMAIN lastpos = Client /\ DOMAIN todo = Client
  /\ DOMAIN out = Client /\ DOMAIN old = Client /\ DOMAIN renewed = Client
  /\ DOMAIN raced = Client /\ DOMAIN dropped = Client

ReadInv == CacheInv /\ Domains /\ \A c \in Client : ClientInv(c)

-----------------------------------------------------------------------------
(* Lemmas about the operators *)

\* Without a wrap the index counts the pushes.
LEMMA NoTurn ==
  ASSUME NEW p \in 0..MaxPush
  PROVE  Wrapped(p) = p /\ (p < MaxPush => FetchAdd(p) = p + 1)
<1> USE IndexAssumption, ReadAssumption
<1>1. p \in 0..(M - 1) /\ p + 1 \in 0..(W - 1)
  OBVIOUS
<1>2. M \in Nat \ {0} /\ W \in Nat \ {0}
  OBVIOUS
<1> QED
  BY <1>1, <1>2, ModSmall, Zenon DEF Wrapped, FetchAdd, UInt

\* get_delta hands out an entry to a client without an index, to one whose index
\* the cache has not reached, and otherwise if it was pushed after the index.
LEMMA DeltaMeaning ==
  ASSUME NEW pos \in 0..MaxPush, NEW p \in 1..pos, NEW s \in 0..MaxPush
  PROVE  InDelta(p, s, pos) <=> (s = 0 \/ s > pos \/ p > s)
<1> USE IndexAssumption, ReadAssumption
<1>1. p \in 0..(M - 1) /\ s \in 0..(M - 1) /\ pos \in 0..(M - 1)
  OBVIOUS
<1>2. /\ Distance(p, s) = IF p >= s THEN p - s ELSE p - s + M
      /\ Distance(pos, s) = IF pos >= s THEN pos - s ELSE pos - s + M
  BY <1>1, DistanceOfIndices, Zenon
<1> QED
  BY <1>1, <1>2 DEF InDelta, EpochMismatch

\* Without an age limit no entry is too old.
LEMMA NoAgeKeeps == \A t : ~TooOld(t, NoAge)
BY DEF TooOld, NoAge

\* get() returns nothing or the value of the entry, and the latter without age limit.
LEMMA GetValue ==
  ASSUME NEW a, NEW m
  PROVE  /\ a \notin DOMAIN entries => Get(a, m) = {}
         /\ a \in DOMAIN entries => Get(a, NoAge) # {}
         /\ Get(a, m) # {} => a \in DOMAIN entries
BY NoAgeKeeps, Zenon DEF Get

\* What follows from CacheInv, in plain numbers.
LEMMA CacheFacts ==
  ASSUME CacheInv
  PROVE  /\ position \in Nat /\ pushes \in Nat /\ Earlier \in Nat
         /\ position \in 0..MaxPush /\ pushes \in 0..MaxPush /\ pushes = position + Earlier
         /\ \A a \in DOMAIN entries : entries[a].value \in 0..MaxPush
         /\ \A a \in DOMAIN entries \ torn :
              /\ entries[a].value \in 1..MaxPush /\ entries[a].value \in Nat
              /\ entries[a].pushed_at \in 1..position /\ entries[a].pushed_at \in Nat
              /\ entries[a].value = entries[a].pushed_at + Earlier
              /\ entries[a].value <= pushes
<1>1. MaxPush \in Nat
  BY ReadAssumption, Zenon
<1>2. position \in Nat /\ pushes \in Nat /\ position <= pushes /\ pushes <= MaxPush
  BY <1>1 DEF CacheInv
<1>3. Earlier \in Nat /\ pushes = position + Earlier
  BY <1>2 DEF Earlier
<1>4. ASSUME NEW a \in DOMAIN entries \ torn
      PROVE  /\ entries[a].value \in 1..MaxPush /\ entries[a].value \in Nat
             /\ entries[a].pushed_at \in 1..position /\ entries[a].pushed_at \in Nat
             /\ entries[a].value = entries[a].pushed_at + Earlier
             /\ entries[a].value <= pushes
  <2>1. /\ entries[a].value \in (Earlier + 1)..pushes
        /\ entries[a].pushed_at = entries[a].value - Earlier
    BY <1>4, Zenon DEF CacheInv
  <2> QED
    BY <1>1, <1>2, <1>3, <2>1
<1>5. \A a \in DOMAIN entries : entries[a].value \in 0..MaxPush
  BY <1>1, <1>2 DEF CacheInv
<1> QED
  BY <1>1, <1>2, <1>3, <1>4, <1>5

\* The addresses of a delta without age limit.
LEMMA DeltaAll ==
  ASSUME CacheInv, NEW s \in 0..MaxPush, NEW a \in Subscribed \ torn
  PROVE  a \in DeltaAddresses(s, Subscribed, NoAge) <=>
           a \in DOMAIN entries /\ (s = 0 \/ s > position \/ entries[a].pushed_at > s)
<1>1. position \in 0..MaxPush /\ Wrapped(position) = position
  BY CacheFacts, NoTurn, Zenon
<1>2. a \in DOMAIN entries => entries[a].pushed_at \in 1..position
  BY CacheFacts, Zenon
<1>3. a \in DOMAIN entries =>
        (InDelta(entries[a].pushed_at, s, position)
           <=> (s = 0 \/ s > position \/ entries[a].pushed_at > s))
  BY <1>1, <1>2, DeltaMeaning, Zenon
<1> QED
  BY <1>1, <1>3, NoAgeKeeps, Zenon DEF DeltaAddresses

\* A delta holds only addresses that are present, and with an age limit no others
\* than without.
LEMMA DeltaAged ==
  ASSUME NEW s, NEW m
  PROVE  DeltaAddresses(s, Subscribed, m) \subseteq DeltaAddresses(s, Subscribed, NoAge)
BY NoAgeKeeps, Zenon DEF DeltaAddresses

-----------------------------------------------------------------------------
(* The invariant is inductive *)

\* What client c's part of the invariant is about.
Mine(c) == <<idx[c], held[c], pc[c], mode[c], lastpos[c], todo[c], out[c], old[c], renewed[c],
             raced[c], dropped[c]>>

\* The variables of the cache that the invariant is about.
Cached == <<entries, position, pushes, torn>>

\* A mutex beyond repair stays so until the server is restarted.
StaysLost == ~CanLock => ~CanLock'

\* What the client has while its request is served.
Kept(c) == <<idx[c], held[c], old[c], raced[c], dropped[c]>>

\* No lock, and no wake-up with it, brings back a mutex beyond repair.
LEMMA LockStays ==
  /\ Lock => StaysLost
  /\ Relock => StaysLost
  /\ UNCHANGED mutex => StaysLost
BY DEF StaysLost, CanLock, Lock, Relock

\* A step that touches neither the cache nor client c keeps its part.
LEMMA Untouched ==
  ASSUME NEW c \in Client, ClientInv(c), UNCHANGED Cached, StaysLost, UNCHANGED Mine(c)
  PROVE  ClientInv(c)'
<1> USE DEF Mine, Cached
<1>1. Written(c)' = Written(c) /\ Earlier' = Earlier
  BY Zenon DEF Written, Earlier
<1>2. TypeInv(c)' /\ IndexInv(c)'
  BY <1>1, Zenon DEF ClientInv, TypeInv, IndexInv, StaysLost
<1>3. ASSUME NEW a \in Subscribed
      PROVE  ValueInv(c, a)' /\ CoverInv(c, a)'
  <2>1. ValueInv(c, a)'
    BY <1>1, <1>3, Zenon DEF ClientInv, ValueInv
  <2>2. Shown(c, a)' = Shown(c, a) /\ Excused(c, a)' = Excused(c, a)
    BY <1>1, Zenon DEF Shown, Excused
  <2>3. CoverInv(c, a)'
    BY <1>1, <1>3, <2>2, Zenon DEF ClientInv, CoverInv
  <2> QED
    BY <2>1, <2>3, Zenon
<1> QED
  BY <1>2, <1>3, Zenon DEF ClientInv

\* A step of one client's request that leaves the cache alone.
LEMMA OneClient ==
  ASSUME ReadInv, NEW c \in Client, UNCHANGED Cached, StaysLost, Domains',
         ClientInv(c)', \A d \in Client \ {c} : UNCHANGED Mine(d)
  PROVE  ReadInv'
<1>1. CacheInv'
  BY Zenon DEF ReadInv, CacheInv, Earlier, Cached
<1>2. ASSUME NEW d \in Client
      PROVE  ClientInv(d)'
  <2>1. CASE d = c
    BY <2>1, Zenon
  <2>2. CASE d # c
    <3>1. ClientInv(d) /\ UNCHANGED Mine(d)
      BY <2>2, Zenon DEF ReadInv
    <3> QED
      BY <3>1, Untouched, Zenon
  <2> QED
    BY <2>1, <2>2, Zenon
<1> QED
  BY <1>1, <1>2, Zenon DEF ReadInv

\* A step within the poll loop that touches neither the response nor the index.
LEMMA WithinLoop ==
  ASSUME NEW c \in Client, ClientInv(c), UNCHANGED Cached, StaysLost, UNCHANGED Kept(c),
         UNCHANGED <<mode[c], lastpos[c], todo[c], out[c], renewed[c]>>,
         pc[c] \notin Before, pc'[c] \notin Before, pc'[c] # "busread",
         pc'[c] \in {"waiting", "delta"} => Written(c) = {}
  PROVE  ClientInv(c)'
<1> USE DEF Kept, Cached
<1>1. Written(c)' = Written(c) /\ Earlier' = Earlier
  BY Zenon DEF Written, Earlier
<1>2. TypeInv(c)'
  BY <1>1, Zenon DEF ClientInv, TypeInv
<1>3. IndexInv(c)'
  BY <1>1, Zenon DEF ClientInv, IndexInv, Before, StaysLost
<1>4. ASSUME NEW a \in Subscribed
      PROVE  ValueInv(c, a)' /\ CoverInv(c, a)'
  <2>1. ValueInv(c, a)'
    BY <1>1, <1>4, Zenon DEF ClientInv, ValueInv
  <2>2. Shown(c, a)' = Shown(c, a) /\ Excused(c, a)' = Excused(c, a)
    BY <1>1, Zenon DEF Shown, Excused
  <2>3. CoverInv(c, a)'
    BY <1>1, <1>4, <2>2, Zenon DEF ClientInv, CoverInv, Before
  <2> QED
    BY <2>1, <2>3, Zenon
<1> QED
  BY <1>2, <1>3, <1>4, Zenon DEF ClientInv

\* A step after which the response is empty: a request begins, with or without an
\* initial read, or is gone.
LEMMA EmptyResponse ==
  ASSUME NEW c \in Client, ClientInv(c), UNCHANGED Cached, UNCHANGED Kept(c),
         out'[c] = Nothing, ~renewed'[c], todo'[c] \subseteq Subscribed,
         \/ pc'[c] = "client" /\ lastpos'[c] = 0
         \/ /\ pc'[c] = "initial" /\ lastpos'[c] = 0 /\ todo'[c] = Subscribed
            /\ idx[c] = 0 \/ mode'[c] \in {"bus", "cache"}
         \/ pc'[c] = "loop" /\ lastpos'[c] = idx[c] /\ idx[c] # 0
  PROVE  ClientInv(c)'
<1> USE DEF Kept, Cached
<1>1. Written(c)' = {} /\ Earlier' = Earlier
  BY Zenon DEF Written, Earlier, Nothing
<1>2. 0 \in 0..MaxPush
  BY ReadAssumption
<1>3. TypeInv(c)'
  BY <1>1, <1>2, Zenon DEF ClientInv, TypeInv
<1>4. IndexInv(c)'
  BY <1>1, Zenon DEF ClientInv, IndexInv, Before
<1>5. ASSUME NEW a \in Subscribed
      PROVE  ValueInv(c, a)' /\ CoverInv(c, a)'
  <2>1. ValueInv(c, a) /\ CoverInv(c, a) /\ a \notin Written(c)'
    BY <1>1, <1>5, Zenon DEF ClientInv
  <2>2. ValueInv(c, a)'
    BY <1>1, <2>1, Zenon DEF ValueInv
  <2>3. Shown(c, a)' = held[c][a] /\ Excused(c, a)' = Excused(c, a)
    BY <2>1, Zenon DEF Shown, Excused
  <2>4. CoverInv(c, a)'
    BY <1>5, <2>1, <2>3, Zenon DEF CoverInv, Before
  <2> QED
    BY <2>2, <2>4, Zenon
<1> QED
  BY <1>3, <1>4, <1>5, Zenon DEF ClientInv

\* A request keeps the invariant.
LEMMA RequestStep ==
  ASSUME ReadInv, NEW c \in Client, NEW m \in Modes, Request(c, m)
  PROVE  ReadInv'
<1> USE DEF Request, cacheVars, ghostVars
<1>1. UNCHANGED Cached /\ StaysLost /\ Domains'
  BY LockStays, Zenon DEF ReadInv, Domains, Cached
<1>2. \A d \in Client \ {c} : UNCHANGED Mine(d)
  BY Zenon DEF ReadInv, Domains, Mine
<1>3. UNCHANGED Kept(c) /\ UNCHANGED renewed[c] /\ pc[c] = "client" /\ out'[c] = Nothing
  BY Zenon DEF ReadInv, Domains, Kept
<1>4. \/ /\ pc'[c] = "initial" /\ lastpos'[c] = 0 /\ todo'[c] = Subscribed
         /\ idx[c] = 0 \/ mode'[c] \in {"bus", "cache"}
      \/ pc'[c] = "loop" /\ lastpos'[c] = idx[c] /\ idx[c] # 0
  BY Zenon DEF ReadInv, Domains
<1>5. ClientInv(c) /\ ~renewed[c] /\ todo'[c] \subseteq Subscribed
  BY <1>3, <1>4, Zenon DEF ReadInv, ClientInv, TypeInv, IndexInv, Before, Domains
<1>6. ClientInv(c)'
  BY <1>1, <1>3, <1>4, <1>5, EmptyResponse, Zenon
<1> QED
  BY <1>1, <1>2, <1>6, OneClient, Zenon

\* A lost request keeps it: the client has what it had.
LEMMA LostStep ==
  ASSUME ReadInv, NEW c \in Client, Lost(c)
  PROVE  ReadInv'
<1> USE DEF Lost, Forget, cacheVars
<1>1. UNCHANGED Cached /\ StaysLost /\ Domains'
  BY Zenon DEF ReadInv, Domains, Cached, StaysLost, CanLock
<1>2. \A d \in Client \ {c} : UNCHANGED Mine(d)
  BY Zenon DEF ReadInv, Domains, Mine
<1>3. /\ UNCHANGED Kept(c) /\ ~renewed'[c] /\ pc'[c] = "client" /\ out'[c] = Nothing
      /\ lastpos'[c] = 0 /\ todo'[c] \subseteq Subscribed
  BY Zenon DEF ReadInv, Domains, Kept
<1>4. ClientInv(c)'
  BY <1>1, <1>3, EmptyResponse, Zenon DEF ReadInv
<1> QED
  BY <1>1, <1>2, <1>4, OneClient, Zenon

\* The reads on the bus keep it.
LEMMA BusReadStep ==
  ASSUME ReadInv, NEW c \in Client, BusRead(c)
  PROVE  ReadInv'
<1> USE DEF BusRead, cacheVars, ghostVars
<1>1. UNCHANGED Cached /\ StaysLost /\ Domains'
  BY LockStays, Zenon DEF ReadInv, Domains, Cached
<1>2. \A d \in Client \ {c} : UNCHANGED Mine(d)
  BY Zenon DEF ReadInv, Domains, Mine
<1>3. /\ UNCHANGED Kept(c) /\ UNCHANGED <<mode[c], lastpos[c], todo[c], out[c], renewed[c]>>
      /\ pc[c] \notin Before /\ pc'[c] \notin Before /\ pc'[c] # "busread"
  BY Zenon DEF ReadInv, Domains, Kept, Before
<1>4. pc'[c] \in {"waiting", "delta"} => Written(c) = {}
  BY Zenon DEF ReadInv, Domains
<1>5. ClientInv(c)'
  BY <1>1, <1>3, <1>4, WithinLoop, Zenon DEF ReadInv
<1> QED
  BY <1>1, <1>2, <1>5, OneClient, Zenon

\* Leaving the poll loop keeps it.
LEMMA LoopLeaveStep ==
  ASSUME ReadInv, NEW c \in Client, LoopLeave(c)
  PROVE  ReadInv'
<1> USE DEF LoopLeave, cacheVars, ghostVars
<1>1. UNCHANGED Cached /\ StaysLost /\ Domains'
  BY LockStays, Zenon DEF ReadInv, Domains, Cached
<1>2. \A d \in Client \ {c} : UNCHANGED Mine(d)
  BY Zenon DEF ReadInv, Domains, Mine
<1>3. /\ UNCHANGED Kept(c) /\ UNCHANGED <<mode[c], lastpos[c], todo[c], out[c], renewed[c]>>
      /\ pc[c] \notin Before /\ pc'[c] \notin Before /\ pc'[c] # "busread"
  BY Zenon DEF ReadInv, Domains, Kept, Before
<1>4. pc'[c] \in {"waiting", "delta"} => Written(c) = {}
  BY Zenon DEF ReadInv, Domains
<1>5. ClientInv(c)'
  BY <1>1, <1>3, <1>4, WithinLoop, Zenon DEF ReadInv
<1> QED
  BY <1>1, <1>2, <1>5, OneClient, Zenon

\* Going to sleep keeps it.
LEMMA LoopWaitStep ==
  ASSUME ReadInv, NEW c \in Client, LoopWait(c)
  PROVE  ReadInv'
<1> USE DEF LoopWait, cacheVars, ghostVars
<1>1. UNCHANGED Cached /\ StaysLost /\ Domains'
  BY LockStays, Zenon DEF ReadInv, Domains, Cached
<1>2. \A d \in Client \ {c} : UNCHANGED Mine(d)
  BY Zenon DEF ReadInv, Domains, Mine
<1>3. /\ UNCHANGED Kept(c) /\ UNCHANGED <<mode[c], lastpos[c], todo[c], out[c], renewed[c]>>
      /\ pc[c] \notin Before /\ pc'[c] \notin Before /\ pc'[c] # "busread"
  BY Zenon DEF ReadInv, Domains, Kept, Before
<1>4. pc'[c] \in {"waiting", "delta"} => Written(c) = {}
  BY Zenon DEF ReadInv, Domains
<1>5. ClientInv(c)'
  BY <1>1, <1>3, <1>4, WithinLoop, Zenon DEF ReadInv
<1> QED
  BY <1>1, <1>2, <1>5, OneClient, Zenon

\* Waking up keeps it.
LEMMA WaitEndStep ==
  ASSUME ReadInv, NEW c \in Client, WaitEnd(c)
  PROVE  ReadInv'
<1> USE DEF WaitEnd, cacheVars, ghostVars
<1>1. UNCHANGED Cached /\ StaysLost /\ Domains'
  BY LockStays, Zenon DEF ReadInv, Domains, Cached
<1>2. \A d \in Client \ {c} : UNCHANGED Mine(d)
  BY Zenon DEF ReadInv, Domains, Mine
<1>3. /\ UNCHANGED Kept(c) /\ UNCHANGED <<mode[c], lastpos[c], todo[c], out[c], renewed[c]>>
      /\ pc[c] \notin Before /\ pc'[c] \notin Before /\ pc'[c] # "busread"
  BY Zenon DEF ReadInv, Domains, Kept, Before
<1>4. pc'[c] \in {"waiting", "delta"} => Written(c) = {}
  BY Zenon DEF ReadInv, Domains, ClientInv, IndexInv
<1>5. ClientInv(c)'
  BY <1>1, <1>3, <1>4, WithinLoop, Zenon DEF ReadInv
<1> QED
  BY <1>1, <1>2, <1>5, OneClient, Zenon

\* The initial read of one address: it has the last value, or the age limit
\* excuses it.
LEMMA InitialGetStep ==
  ASSUME ReadInv, NEW c \in Client, InitialGet(c)
  PROVE  ReadInv'
<1>1. UNCHANGED Cached /\ StaysLost /\ Domains'
  BY LockStays, Zenon DEF ReadInv, Domains, InitialGet, cacheVars, ghostVars, Cached
<1>2. \A d \in Client \ {c} : UNCHANGED Mine(d)
  BY DEF ReadInv, Domains, Mine, InitialGet, ghostVars
<1>3. ClientInv(c) /\ CacheInv /\ Domains
  BY Zenon DEF ReadInv
<1> DEFINE got(b) == CanLock /\ Get(b, MaxAge(c)) # {}
<1>4. PICK b \in todo[c] :
        /\ out' = [out EXCEPT ![c] = With(@, IF got(b) THEN {b} ELSE {})]
        /\ dropped' = [dropped EXCEPT ![c] =
                         IF ~got(b) /\ b \in DOMAIN entries THEN @ \cup {b} ELSE @]
        /\ todo' = [todo EXCEPT ![c] = @ \ {b}]
        /\ pc' = [pc EXCEPT ![c] = IF todo[c] = {b} THEN "position" ELSE "initial"]
  BY Zenon DEF InitialGet
<1>5. /\ pc[c] = "initial"
      /\ UNCHANGED <<idx[c], held[c], mode[c], lastpos[c], old[c], renewed[c], raced[c]>>
  BY Zenon DEF InitialGet, ghostVars
<1>6. /\ todo'[c] = todo[c] \ {b} /\ b \in Subscribed
      /\ (pc'[c] = "position" /\ todo'[c] = {}) \/ pc'[c] = "initial"
  BY <1>3, <1>4, Zenon DEF Domains, ClientInv, TypeInv
<1>7. got(b) => b \in DOMAIN entries
  BY GetValue, Zenon
<1>8. /\ dropped[c] \subseteq dropped'[c]
      /\ (b \in DOMAIN entries /\ ~got(b)) => b \in dropped'[c]
  BY <1>3, <1>4, Zenon DEF Domains
<1> HIDE DEF got
<1>9. /\ Written(c)' = Written(c) \cup (IF got(b) THEN {b} ELSE {})
      /\ \A a \in Written(c)' :
           out'[c][a] = IF a = b /\ got(b) THEN entries[b].value ELSE out[c][a]
  BY <1>3, <1>4, Zenon DEF Domains, With, Written
<1>10. TypeInv(c)' /\ IndexInv(c)'
  <2>1. got(b) => entries[b].value \in 0..MaxPush
    BY <1>3, <1>7, CacheFacts, Zenon
  <2>2. TypeInv(c)'
    BY <1>3, <1>5, <1>6, <1>9, <2>1, Zenon DEF ClientInv, TypeInv
  <2>3. IndexInv(c)'
    BY <1>1, <1>3, <1>5, <1>6, Zenon DEF ClientInv, IndexInv, Before, Cached
  <2> QED
    BY <2>2, <2>3, Zenon
<1>11. ASSUME NEW a \in Subscribed
       PROVE  ValueInv(c, a)' /\ CoverInv(c, a)'
  <2>1. /\ ValueInv(c, a) /\ CoverInv(c, a) /\ held[c][a] \in 0..MaxPush
        /\ Earlier' = Earlier /\ UNCHANGED <<entries, pushes, torn>>
    BY <1>1, <1>3, <1>11, Zenon DEF ClientInv, TypeInv, Cached, Earlier
  <2>2. /\ a \in DOMAIN entries => entries[a].value <= pushes
        /\ a \in DOMAIN entries \ torn => entries[a].value > Earlier /\ entries[a].value <= entries[a].value
    BY <1>3, CacheFacts DEF CacheInv
  <2>3. ValueInv(c, a)'
    BY <1>5, <1>6, <1>7, <1>9, <2>1, <2>2, Zenon DEF ValueInv, Before
  <2>4. /\ Excused(c, a) => Excused(c, a)'
        /\ (a = b /\ a \in DOMAIN entries /\ ~got(b)) => Excused(c, a)'
    BY <1>5, <1>8, <2>1, Zenon DEF Excused
  <2>5. (a \notin todo'[c] /\ a # b) => a \notin todo[c]
    BY <1>6, Zenon
  <2>6. CoverInv(c, a)'
    BY <1>5, <1>6, <1>9, <1>11, <2>1, <2>4, <2>5, Zenon DEF CoverInv, Before
  <2> QED
    BY <2>3, <2>6, Zenon
<1>12. ClientInv(c)'
  BY <1>10, <1>11, Zenon DEF ClientInv
<1> QED
  BY <1>1, <1>2, <1>12, OneClient, Zenon

\* The index taken after the initial read covers what the read has found.
LEMMA InitialPositionStep ==
  ASSUME ReadInv, NEW c \in Client, InitialPosition(c)
  PROVE  ReadInv'
<1>1. UNCHANGED Cached /\ StaysLost /\ Domains'
  BY LockStays, Zenon DEF ReadInv, Domains, InitialPosition, cacheVars, Cached
<1>2. \A d \in Client \ {c} : UNCHANGED Mine(d)
  BY Zenon DEF ReadInv, Domains, Mine, InitialPosition
<1>3. ClientInv(c) /\ CacheInv /\ Domains
  BY Zenon DEF ReadInv
<1>4. position \in 0..MaxPush /\ Wrapped(position) = position
  BY <1>3, NoTurn, CacheFacts, Zenon
<1>5. /\ pc[c] = "position" /\ pc'[c] \in {"busread", "loop"} /\ renewed'[c]
      /\ lastpos'[c] = position
      /\ UNCHANGED <<idx[c], held[c], mode[c], todo[c], out[c], old[c], raced[c], dropped[c]>>
  BY <1>3, <1>4, Zenon DEF Domains, InitialPosition
<1>6. /\ IndexInv(c) /\ TypeInv(c) /\ todo[c] = {}
      /\ idx[c] = 0 \/ mode[c] \in {"bus", "cache"}
  BY <1>3, <1>5, Zenon DEF ClientInv, IndexInv
<1>7. Written(c)' = Written(c) /\ Earlier' = Earlier /\ UNCHANGED <<entries, position, pushes, torn>>
  BY <1>1, <1>5, Zenon DEF Written, Cached, Earlier
<1>8. TypeInv(c)' /\ IndexInv(c)'
  BY <1>4, <1>5, <1>6, <1>7 DEF TypeInv, IndexInv, Before
<1>9. ASSUME NEW a \in Subscribed
      PROVE  ValueInv(c, a)' /\ CoverInv(c, a)'
  <2>1. ValueInv(c, a) /\ CoverInv(c, a) /\ a \notin todo[c]
    BY <1>3, <1>6, <1>9, Zenon DEF ClientInv
  <2>2. a \in Written(c) => out[c][a] \in 0..MaxPush
    BY <1>6, <1>9, Zenon DEF TypeInv
  <2>3. a \in DOMAIN entries \ torn => entries[a].value <= position + Earlier
    BY <1>3, CacheFacts
  <2>4. a \in Written(c) /\ a \notin torn => out[c][a] - Earlier <= position
    BY <1>3, <2>1, <2>2, <2>3, CacheFacts DEF ValueInv
  <2>5. ValueInv(c, a)'
    BY <1>5, <1>6, <1>7, <2>1, <2>4, Zenon DEF ValueInv, Before
  <2>6. Shown(c, a)' = Shown(c, a) /\ Excused(c, a)' = Excused(c, a)
    BY <1>5, <1>7, Zenon DEF Shown, Excused
  <2>7. CoverInv(c, a)'
    BY <1>5, <1>7, <2>1, <2>6, Zenon DEF CoverInv, Before, Shown
  <2> QED
    BY <2>5, <2>7, Zenon
<1>10. ClientInv(c)'
  BY <1>8, <1>9, Zenon DEF ClientInv
<1> QED
  BY <1>1, <1>2, <1>10, OneClient, Zenon

\* The new index of a delta covers what the delta hands out, what the age limit
\* keeps back, and what the old index covered.
LEMMA QueryDeltaStep ==
  ASSUME ReadInv, NEW c \in Client, QueryDelta(c)
  PROVE  ReadInv'
<1> DEFINE all == DeltaAddresses(lastpos[c], Subscribed, NoAge)
           new == DeltaAddresses(lastpos[c], Subscribed, MaxAge(c)) \ Written(c)
<1>1. UNCHANGED Cached /\ StaysLost /\ Domains'
  BY LockStays, Zenon DEF ReadInv, Domains, QueryDelta, cacheVars, Cached
<1>2. \A d \in Client \ {c} : UNCHANGED Mine(d)
  BY Zenon DEF ReadInv, Domains, Mine, QueryDelta
<1>3. ClientInv(c) /\ CacheInv /\ Domains
  BY Zenon DEF ReadInv
<1>4. position \in 0..MaxPush /\ Wrapped(position) = position
  BY <1>3, NoTurn, CacheFacts, Zenon
<1>5. /\ pc[c] = "delta" /\ pc'[c] = "loop" /\ renewed'[c] /\ lastpos'[c] = position
      /\ dropped'[c] = dropped[c] \cup (all \ new)
      /\ UNCHANGED <<idx[c], held[c], mode[c], todo[c], old[c], raced[c]>>
      /\ out'[c] = With(out[c], new) /\ CanLock
  BY <1>3, <1>4, Zenon DEF Domains, QueryDelta
<1>6. new \subseteq all /\ all \subseteq Subscribed \cap DOMAIN entries
  BY DeltaAged, Zenon DEF DeltaAddresses
<1>7. /\ lastpos[c] \in 0..MaxPush /\ idx[c] \in 0..MaxPush /\ Written(c) = {}
      /\ held[c] \in [Subscribed -> 0..MaxPush]
  BY <1>3, <1>5, Zenon DEF ClientInv, TypeInv, IndexInv
<1>8. \A a \in Subscribed \ torn :
        a \in all <=> a \in DOMAIN entries
                        /\ (lastpos[c] = 0 \/ lastpos[c] > position \/ entries[a].pushed_at > lastpos[c])
  BY <1>3, <1>7, DeltaAll, Zenon
<1>9. \A a \in DOMAIN entries \ torn : entries[a].pushed_at \in 1..position
  BY <1>3, CacheFacts, Zenon
<1> HIDE DEF all, new
<1>10. Written(c)' = new /\ \A a \in new : out'[c][a] = entries[a].value /\ out'[c][a] \in 0..MaxPush
  <2>1. Written(c)' = new /\ \A a \in new : out'[c][a] = entries[a].value
    BY <1>5, <1>7, Zenon DEF Written, With
  <2>2. \A a \in DOMAIN entries : entries[a].value \in 0..MaxPush
    BY <1>3, CacheFacts, Zenon
  <2> QED
    BY <1>6, <2>1, <2>2, Zenon
<1>11. IndexInv(c) /\ (~old[c] => idx[c] <= lastpos[c] /\ lastpos[c] <= position)
  BY <1>3, <1>5, <1>7 DEF ClientInv, IndexInv, Before
<1>12. TypeInv(c)' /\ IndexInv(c)'
  <2>1. TypeInv(c)'
    BY <1>3, <1>4, <1>5, <1>6, <1>10, Zenon DEF ClientInv, TypeInv
  <2>2. IndexInv(c)'
    BY <1>1, <1>4, <1>5, <1>7, <1>11 DEF IndexInv, Before, Cached
  <2> QED
    BY <2>1, <2>2, Zenon
<1>13. ASSUME NEW a \in Subscribed
       PROVE  ValueInv(c, a)' /\ CoverInv(c, a)'
  <2>1. /\ ValueInv(c, a) /\ CoverInv(c, a) /\ held[c][a] \in 0..MaxPush
        /\ a \in Written(c)' <=> a \in new
        /\ a \in new => out'[c][a] = entries[a].value
    BY <1>3, <1>7, <1>10, <1>13, Zenon DEF ClientInv
  <2>2. a \in new =>
          /\ a \in DOMAIN entries
          /\ (a \notin torn /\ idx[c] # 0 /\ ~old[c]) => entries[a].pushed_at > idx[c]
    BY <1>4, <1>6, <1>7, <1>8, <1>9, <1>11
  <2>3. /\ a \in DOMAIN entries => entries[a].value <= pushes
        /\ a \in DOMAIN entries \ torn =>
             /\ entries[a].value \in Nat /\ entries[a].value > Earlier
             /\ entries[a].value - Earlier = entries[a].pushed_at
             /\ entries[a].pushed_at <= position
    BY <1>3, CacheFacts DEF CacheInv
  <2>4. ValueInv(c, a)'
    <3>1. Earlier' = Earlier /\ UNCHANGED <<entries, position, pushes, torn>>
      BY <1>1, Zenon DEF Cached, Earlier
    <3> QED
      BY <1>5, <2>1, <2>2, <2>3, <3>1 DEF ValueInv, Before
  <2>5. ASSUME a \in DOMAIN entries, ~Excused(c, a)'
        PROVE  Shown(c, a)' = entries[a].value
    <3>1. ~Excused(c, a) /\ a \notin torn /\ (a \in all => a \in new)
      BY <1>1, <1>5, <2>5, Zenon DEF Excused, Cached
    <3>2. CASE a \in new
      BY <2>1, <3>2, Zenon DEF Shown
    <3>3. CASE a \notin new
      <4>1. entries[a].pushed_at <= lastpos[c]
        BY <1>4, <1>7, <1>8, <1>9, <2>5, <3>1, <3>3
      <4>2. held[c][a] = entries[a].value
        BY <1>5, <1>7, <2>1, <2>5, <3>1, <4>1, Zenon DEF CoverInv, Before, Shown
      <4> QED
        BY <1>5, <2>1, <3>3, <4>2, Zenon DEF Shown
    <3> QED
      BY <3>2, <3>3, Zenon
  <2>6. CoverInv(c, a)'
    <3>1. Excused(c, a) => Excused(c, a)'
      BY <1>1, <1>5, Zenon DEF Excused, Cached
    <3> QED
      BY <1>1, <1>5, <2>1, <2>5, <3>1, Zenon DEF CoverInv, Before, Cached
  <2> QED
    BY <2>4, <2>6, Zenon
<1>14. ClientInv(c)'
  BY <1>12, <1>13, Zenon DEF ClientInv
<1> QED
  BY <1>1, <1>2, <1>14, OneClient, Zenon

\* A delta that cannot lock the cache leaves the client without an index.
LEMMA QueryDeltaFailsStep ==
  ASSUME ReadInv, NEW c \in Client, QueryDeltaFails(c)
  PROVE  ReadInv'
<1>1. UNCHANGED Cached /\ StaysLost /\ Domains'
  BY LockStays, Zenon DEF ReadInv, Domains, QueryDeltaFails, cacheVars, Cached
<1>2. \A d \in Client \ {c} : UNCHANGED Mine(d)
  BY Zenon DEF ReadInv, Domains, Mine, QueryDeltaFails
<1>3. ClientInv(c) /\ CacheInv /\ Domains
  BY Zenon DEF ReadInv
<1>4. /\ pc[c] = "delta" /\ pc'[c] = "loop" /\ renewed'[c] /\ lastpos'[c] = 0 /\ ~CanLock'
      /\ UNCHANGED <<idx[c], held[c], mode[c], todo[c], out[c], old[c], raced[c], dropped[c]>>
  BY <1>3, Zenon DEF Domains, QueryDeltaFails, CanLock
<1>5. Written(c) = {} /\ Written(c)' = {} /\ Earlier' = Earlier
  BY <1>1, <1>3, <1>4, Zenon DEF ClientInv, IndexInv, Written, Cached, Earlier
<1>6. 0 \in 0..MaxPush /\ 0 <= position
  BY <1>3, CacheFacts, ReadAssumption
<1>7. TypeInv(c)' /\ IndexInv(c)'
  BY <1>1, <1>3, <1>4, <1>5, <1>6, Zenon DEF ClientInv, TypeInv, IndexInv, Before, Cached
<1>8. ASSUME NEW a \in Subscribed
      PROVE  ValueInv(c, a)' /\ CoverInv(c, a)'
  <2>1. ValueInv(c, a) /\ CoverInv(c, a) /\ UNCHANGED <<entries, pushes, torn>>
    BY <1>1, <1>3, <1>8, Zenon DEF ClientInv, Cached
  <2>2. ValueInv(c, a)'
    BY <1>4, <1>5, <2>1, Zenon DEF ValueInv
  <2>3. a \in DOMAIN entries /\ ~Excused(c, a) => ~(entries[a].pushed_at <= 0)
    BY <1>3, CacheFacts DEF Excused
  <2>4. Excused(c, a)' = Excused(c, a)
    BY <1>4, <2>1, Zenon DEF Excused
  <2>5. CoverInv(c, a)'
    BY <1>4, <2>1, <2>3, <2>4, Zenon DEF CoverInv, Before
  <2> QED
    BY <2>2, <2>5, Zenon
<1>9. ClientInv(c)'
  BY <1>7, <1>8, Zenon DEF ClientInv
<1> QED
  BY <1>1, <1>2, <1>9, OneClient, Zenon

\* The client takes over the values and the index of the response.
LEMMA RespondStep ==
  ASSUME ReadInv, NEW c \in Client, Respond(c)
  PROVE  ReadInv'
<1>1. UNCHANGED Cached /\ StaysLost /\ Domains'
  BY LockStays, Zenon DEF ReadInv, Domains, Respond, Forget, cacheVars, Cached
<1>2. \A d \in Client \ {c} : UNCHANGED Mine(d)
  BY Zenon DEF ReadInv, Domains, Mine, Respond, Forget
<1>3. ClientInv(c) /\ CacheInv /\ Domains
  BY Zenon DEF ReadInv
<1>4. /\ pc[c] = "respond" /\ pc'[c] = "client" /\ ~renewed'[c] /\ lastpos'[c] = 0
      /\ idx'[c] = lastpos[c] /\ (old'[c] <=> old[c] /\ ~renewed[c])
      /\ out'[c] = Nothing /\ UNCHANGED todo[c]
      /\ held'[c] = [a \in Subscribed |-> IF a \in Written(c) THEN out[c][a] ELSE held[c][a]]
      /\ raced'[c] = Behind(c, raced[c]) /\ dropped'[c] = Behind(c, dropped[c])
  BY <1>3, Zenon DEF Domains, Respond, Forget
<1>5. TypeInv(c) /\ IndexInv(c)
  BY <1>3, Zenon DEF ClientInv
<1>6. Written(c)' = {} /\ \A a \in Subscribed : held'[c][a] = Shown(c, a)
  BY <1>4, Zenon DEF Written, Shown, Nothing
<1>7. TypeInv(c)'
  <2>1. 0 \in 0..MaxPush
    BY ReadAssumption
  <2> QED
    BY <1>4, <1>5, <1>6, <2>1, Zenon DEF TypeInv
<1>8. IndexInv(c)'
  BY <1>1, <1>4, <1>5, <1>6, Zenon DEF IndexInv, Before, Cached
<1>9. ASSUME NEW a \in Subscribed
      PROVE  ValueInv(c, a)' /\ CoverInv(c, a)'
  <2>1. ValueInv(c, a) /\ CoverInv(c, a)
    BY <1>3, Zenon DEF ClientInv
  <2>3. /\ Shown(c, a) <= pushes
        /\ a \in DOMAIN entries \ torn => Shown(c, a) <= entries[a].value
    BY <2>1, Zenon DEF ValueInv, Shown
  <2>7. ValueInv(c, a)'
    BY <1>1, <1>6, <1>9, <2>3, Zenon DEF ValueInv, Cached
  <2>4. ASSUME a \in DOMAIN entries, ~Excused(c, a)', Shown(c, a) # entries[a].value
        PROVE  ~Excused(c, a)
    BY <1>1, <1>4, <1>6, <2>4, Zenon DEF Excused, Behind, Cached
  <2>5. ASSUME a \in DOMAIN entries, ~Excused(c, a)',
               (old[c] /\ ~renewed[c]) \/ entries[a].pushed_at <= lastpos[c]
        PROVE  Shown(c, a) = entries[a].value
    BY <1>4, <2>1, <2>4, <2>5, Zenon DEF CoverInv, Before
  <2>6. CoverInv(c, a)'
    BY <1>1, <1>4, <1>6, <1>9, <2>5, Zenon DEF CoverInv, Before, Cached
  <2> QED
    BY <2>6, <2>7, Zenon
<1>10. ClientInv(c)'
  BY <1>7, <1>8, <1>9, Zenon DEF ClientInv
<1> QED
  BY <1>1, <1>2, <1>10, OneClient, Zenon

\* A step that touches neither the cache's counters and map nor any client.
LEMMA ReadIdle ==
  ASSUME ReadInv,
         StaysLost, UNCHANGED <<entries, position, pushes, torn, raced, dropped>>,
         UNCHANGED <<idx, held, pc, mode, lastpos, todo, out, old, renewed>>
  PROVE  ReadInv'
<1>1. CacheInv' /\ Domains'
  BY Zenon DEF ReadInv, CacheInv, Domains, Earlier
<1>2. UNCHANGED Cached /\ \A c \in Client : ClientInv(c) /\ UNCHANGED Mine(c)
  BY Zenon DEF ReadInv, Mine, Cached
<1> QED
  BY <1>1, <1>2, Untouched, Zenon DEF ReadInv

\* What a push, whole or cut short, leaves in the table for a.
Left(a) ==
  /\ DOMAIN entries' = DOMAIN entries \cup {a}
  /\ \A b \in DOMAIN entries \ {a} : entries'[b] = entries[b]
  /\ entries'[a].value \in 0..(pushes + 1)

\* The push counter advances: the entry of b is stored, torn or not reached.  No index
\* covers the new stamp yet, and a client the entry races with is noted.
LEMMA CounterStep ==
  ASSUME ReadInv, NEW b \in Address, pushes < MaxPush, StaysLost,
         position' = FetchAdd(position), pushes' = pushes + 1,
         UNCHANGED <<idx, held, pc, mode, lastpos, todo, out, old, renewed, dropped>>,
         \/ UNCHANGED <<entries, torn, raced>>
         \/ Left(b) /\ torn' = torn \cup {b} /\ UNCHANGED raced
         \/ entries' = PushEntry(b, pushes + 1) /\ Race(b) /\ UNCHANGED torn
  PROVE  ReadInv'
<1>1. CacheInv /\ Domains
  BY Zenon DEF ReadInv
<1>2. /\ position \in 0..MaxPush /\ position < MaxPush /\ pushes \in 0..MaxPush
      /\ MaxPush \in Nat /\ position + 1 \in 0..MaxPush
  BY <1>1, CacheFacts, ReadAssumption
<1>3. FetchAdd(position) = position + 1 /\ Wrapped(position + 1) = position + 1
  BY <1>2, NoTurn, Zenon
<1>4. position' = position + 1 /\ Earlier' = Earlier
  BY <1>2, <1>3 DEF Earlier
<1> DEFINE Stored == /\ b \in DOMAIN entries' /\ entries'[b].value = pushes + 1
                     /\ entries'[b].pushed_at = position + 1
                     /\ Race(b)
           Same(a) == /\ a \in DOMAIN entries' <=> a \in DOMAIN entries
                      /\ a \in DOMAIN entries => entries'[a] = entries[a]
<1>5. \A a : a \notin torn' => a \notin torn /\ (Same(a) \/ (a = b /\ Stored))
  <2>1. CASE UNCHANGED <<entries, torn, raced>>
    BY <2>1, Zenon
  <2>2. CASE Left(b) /\ torn' = torn \cup {b}
    <3>1. ASSUME NEW a, a \notin torn'
          PROVE  a \notin torn /\ Same(a)
      <4>1. a # b /\ a \notin torn
        BY <2>2, <3>1, Zenon
      <4> QED
        BY <2>2, <4>1, Zenon DEF Left
    <3> QED
      BY <3>1, Zenon
  <2>3. CASE entries' = PushEntry(b, pushes + 1) /\ Race(b) /\ UNCHANGED torn
    BY <1>3, <2>3 DEF PushEntry
  <2> QED
    BY <2>1, <2>2, <2>3, Zenon
<1>6. \A a \in DOMAIN entries' : entries'[a].value \in 0..(pushes + 1)
  <2>1. \A a \in DOMAIN entries : entries[a].value \in 0..pushes
    BY <1>1, Zenon DEF CacheInv
  <2>2. CASE UNCHANGED entries
    BY <1>2, <2>1, <2>2
  <2>3. CASE Left(b)
    BY <1>2, <2>1, <2>3 DEF Left
  <2>4. CASE entries' = PushEntry(b, pushes + 1)
    BY <1>2, <2>1, <2>4 DEF PushEntry
  <2> QED
    BY <2>2, <2>3, <2>4, Zenon
<1> HIDE DEF Stored, Same
<1>7. CacheInv'
  <2>1. Earlier \in Nat /\ pushes = position + Earlier
    BY <1>1, CacheFacts, Zenon
  <2>2. ASSUME NEW a \in DOMAIN entries', a \notin torn'
        PROVE  /\ entries'[a].value \in (Earlier + 1)..(pushes + 1)
               /\ entries'[a].pushed_at = entries'[a].value - Earlier
    <3>1. CASE a = b /\ Stored
      BY <1>2, <2>1, <3>1 DEF Stored
    <3>2. CASE Same(a)
      <4>1. a \in DOMAIN entries \ torn /\ entries'[a] = entries[a]
        BY <1>5, <2>2, <3>2, Zenon DEF Same
      <4> QED
        BY <1>1, <1>2, <2>1, <4>1 DEF CacheInv
    <3> QED
      BY <1>5, <2>2, <3>1, <3>2, Zenon
  <2>3. pushes + 1 \in 0..MaxPush /\ position + 1 \in 0..(pushes + 1)
    BY <1>1, <1>2 DEF CacheInv
  <2> QED
    BY <1>4, <1>6, <2>2, <2>3, Zenon DEF CacheInv
<1>8. Domains'
  BY <1>1, Zenon DEF Domains, Race
<1>9. ASSUME NEW c \in Client
      PROVE  ClientInv(c)'
  <2>1. ClientInv(c) /\ TypeInv(c) /\ IndexInv(c)
    BY Zenon DEF ReadInv, ClientInv
  <2>2. /\ UNCHANGED <<idx[c], held[c], pc[c], mode[c], lastpos[c], todo[c], out[c], old[c],
                       renewed[c], dropped[c]>>
        /\ Written(c)' = Written(c)
    BY Zenon DEF Written
  <2>3. /\ raced[c] \subseteq raced'[c]
        /\ (Stored /\ b \in Subscribed
              /\ (old[c] \/ (pc[c] \in {"initial", "position"} /\ b \notin todo[c])))
              => b \in raced'[c]
    BY Zenon DEF Race, Stored
  <2>4. TypeInv(c)' /\ IndexInv(c)'
    <3>1. TypeInv(c)'
      BY <2>1, <2>2, Zenon DEF TypeInv
    <3>2. /\ idx[c] \in 0..MaxPush /\ lastpos[c] \in 0..MaxPush
          /\ idx[c] <= position => idx[c] <= position'
          /\ lastpos[c] <= position => lastpos[c] <= position'
      BY <1>2, <1>4, <2>1 DEF TypeInv
    <3>3. IndexInv(c)'
      BY <2>1, <2>2, <3>2, Zenon DEF IndexInv, StaysLost
    <3> QED
      BY <3>1, <3>3, Zenon
  <2>5. ASSUME NEW a \in Subscribed
        PROVE  ValueInv(c, a)' /\ CoverInv(c, a)'
    <3>1. /\ ValueInv(c, a) /\ CoverInv(c, a) /\ held[c][a] \in 0..MaxPush
          /\ a \in Written(c) => out[c][a] \in 0..MaxPush
      BY <2>1, <2>5, Zenon DEF ClientInv, TypeInv
    <3>2. /\ held[c][a] <= pushes' /\ held[c][a] <= pushes + 1
          /\ a \in Written(c) => out[c][a] <= pushes' /\ out[c][a] <= pushes + 1
      BY <1>2, <3>1 DEF ValueInv
    <3>3. CASE a \in torn'
      BY <2>2, <3>2, <3>3, Zenon DEF ValueInv, CoverInv, Excused
    <3>4. CASE a \notin torn' /\ Same(a)
      <4>1. a \notin torn
        BY <1>5, <3>4, Zenon
      <4>2. ValueInv(c, a)'
        BY <1>4, <2>2, <3>1, <3>2, <3>4, <4>1, Zenon DEF ValueInv, Same
      <4>3. Shown(c, a)' = Shown(c, a) /\ (Excused(c, a) => Excused(c, a)')
        BY <2>2, <2>3, <4>1, Zenon DEF Shown, Excused
      <4>4. CoverInv(c, a)'
        BY <2>2, <3>1, <3>4, <4>3, Zenon DEF CoverInv, Same
      <4> QED
        BY <4>2, <4>4, Zenon
    <3>5. CASE a \notin torn' /\ a = b /\ Stored
      <4>1. a \notin torn
        BY <1>5, <3>5, Zenon
      <4>2. ValueInv(c, a)'
        BY <1>4, <2>2, <3>1, <3>2, <3>5, <4>1, Zenon DEF ValueInv, Stored
      <4>3. /\ ~(old[c] /\ ~renewed[c]) /\ pc[c] \notin Before => lastpos[c] <= position
            /\ ~old[c] => idx[c] <= position
        BY <2>1, Zenon DEF IndexInv, Before
      <4>4. /\ lastpos[c] <= position => ~(position + 1 <= lastpos[c])
            /\ idx[c] <= position => ~(position + 1 <= idx[c])
        BY <1>2, <2>1 DEF TypeInv
      <4>5. ASSUME ~Excused(c, a)'
            PROVE  ~old[c] /\ ~(pc[c] \in {"initial", "position"} /\ a \notin todo[c])
        BY <2>3, <2>5, <3>5, <4>5, Zenon DEF Excused
      <4>6. CoverInv(c, a)'
        BY <2>2, <3>5, <4>3, <4>4, <4>5, Zenon DEF CoverInv, Stored
      <4> QED
        BY <4>2, <4>6, Zenon
    <3> QED
      BY <1>5, <3>3, <3>4, <3>5, Zenon
  <2> QED
    BY <2>4, <2>5, Zenon DEF ClientInv
<1> QED
  BY <1>7, <1>8, <1>9, Zenon DEF ReadInv

\* A push keeps the invariant.
LEMMA BusPushStep ==
  ASSUME ReadInv, NEW b \in Address, BusPush(b)
  PROVE  ReadInv'
<1>1. StaysLost
  BY LockStays, Zenon DEF BusPush
<1>2. /\ pushes < MaxPush /\ position' = FetchAdd(position) /\ pushes' = pushes + 1
      /\ entries' = PushEntry(b, pushes + 1) /\ Race(b) /\ UNCHANGED torn
      /\ UNCHANGED <<idx, held, pc, mode, lastpos, todo, out, old, renewed, dropped>>
  BY Zenon DEF BusPush, Push
<1> QED
  BY <1>1, <1>2, CounterStep, Zenon

\* So does one that the death of the cache reader cuts short.
LEMMA PushCutStep ==
  ASSUME ReadInv, NEW b \in Address, PushCut(b)
  PROVE  ReadInv'
<1>1. /\ pushes < MaxPush /\ CanLock /\ StaysLost
      /\ UNCHANGED <<idx, held, pc, mode, lastpos, todo, out, old, renewed, dropped>>
  BY Zenon DEF PushCut, StaysLost
<1>2. CASE UNCHANGED <<entries, position, pushes, raced, torn>>
  BY <1>1, <1>2, ReadIdle, Zenon
<1>3. ASSUME position' = FetchAdd(position), pushes' = pushes + 1,
             UNCHANGED <<entries, raced, torn>>
      PROVE  ReadInv'
  BY <1>1, <1>3, CounterStep, Zenon
<1>4. ASSUME position' = FetchAdd(position), pushes' = pushes + 1,
             NEW e \in HalfCopied(b), torn' = torn \cup {b}, UNCHANGED raced,
             entries' = [a \in DOMAIN entries \cup {b} |-> IF a = b THEN e ELSE entries[a]]
      PROVE  ReadInv'
  <2>1. pushes \in Nat /\ \A a \in DOMAIN entries : entries[a].value \in 0..pushes
    BY CacheFacts, Zenon DEF ReadInv, CacheInv
  <2>2. PushEntry(b, pushes + 1)[b].value = pushes + 1
    BY DEF PushEntry
  <2>3. e.value \in 0..(pushes + 1)
    BY <1>4, <2>1, <2>2 DEF HalfCopied
  <2>4. Left(b)
    BY <1>4, <2>3, Zenon DEF Left
  <2> QED
    BY <1>1, <1>4, <2>4, CounterStep, Zenon
<1>5. ASSUME position' = FetchAdd(position), pushes' = pushes + 1,
             entries' = PushEntry(b, pushes + 1), Race(b), UNCHANGED torn
      PROVE  ReadInv'
  BY <1>1, <1>5, CounterStep, Zenon
<1> QED
  BY <1>2, <1>3, <1>4, <1>5, Zenon DEF PushCut

\* A restart: every value a client shows and every index it has is an old one.
LEMMA RestartStep ==
  ASSUME ReadInv, Restart
  PROVE  ReadInv'
<1>1. position' = 0 /\ pushes' = pushes /\ DOMAIN entries' = {}
  BY Zenon DEF Restart, Clear
<1>2. CacheInv' /\ Domains'
  <2>1. pushes \in 0..MaxPush /\ pushes \in Nat
    BY CacheFacts, Zenon DEF ReadInv
  <2>2. CacheInv'
    BY <1>1, <2>1 DEF CacheInv
  <2>3. Domains'
    BY Zenon DEF Restart, ReadInv, Domains
  <2> QED
    BY <2>2, <2>3, Zenon
<1>3. ASSUME NEW c \in Client
      PROVE  ClientInv(c)'
  <2>1. ClientInv(c)
    BY Zenon DEF ReadInv
  <2>2. /\ UNCHANGED <<idx[c], held[c]>>
        /\ pc'[c] = "client" /\ lastpos'[c] = 0 /\ out'[c] = Nothing /\ ~renewed'[c]
        /\ todo'[c] = {}
        /\ old'[c] <=> idx[c] # 0
    BY Zenon DEF Restart
  <2>3. TypeInv(c)' /\ IndexInv(c)'
    <3>1. 0 \in 0..MaxPush
      BY ReadAssumption
    <3>2. Written(c)' = {}
      BY <2>2, Zenon DEF Written, Nothing
    <3> QED
      BY <1>1, <2>1, <2>2, <3>1, <3>2 DEF ClientInv, TypeInv, IndexInv, Before
  <2>4. ASSUME NEW a \in Subscribed
        PROVE  ValueInv(c, a)' /\ CoverInv(c, a)'
    BY <1>1, <2>1, <2>2, <2>4, Zenon DEF ClientInv, ValueInv, CoverInv, Nothing, Written
  <2> QED
    BY <2>3, <2>4, Zenon DEF ClientInv
<1> QED
  BY <1>2, <1>3, Zenon DEF ReadInv

\* The cache starts empty and no client has an index.
LEMMA ReadInitInv ==
  ASSUME Init
  PROVE  ReadInv
<1> USE DEF Init, CacheInit
<1>1. CacheInv /\ Domains
  BY ReadAssumption DEF CacheInv, Domains, Earlier
<1>2. ASSUME NEW c \in Client
      PROVE  ClientInv(c)
  <2>1. TypeInv(c) /\ IndexInv(c)
    <3>1. 0 \in 0..MaxPush
      BY ReadAssumption
    <3> QED
      BY <3>1 DEF TypeInv, IndexInv, Nothing, Before, Written
  <2>2. \A a \in Subscribed : ValueInv(c, a) /\ CoverInv(c, a)
    BY DEF ValueInv, CoverInv, Nothing, Written
  <2> QED
    BY <2>1, <2>2, Zenon DEF ClientInv
<1> QED
  BY <1>1, <1>2, Zenon DEF ReadInv

\* Every step of the read handlers keeps the invariant.
LEMMA ReadNextInv == ReadInv /\ [Next]_vars => ReadInv'
<1> SUFFICES ASSUME ReadInv, [Next]_vars
             PROVE  ReadInv'
  BY Zenon
<1>1. ASSUME NEW a \in Address, BusPush(a) \/ PushCut(a)
      PROVE  ReadInv'
  BY <1>1, BusPushStep, PushCutStep, Zenon
<1>2. CASE ClockTick
  BY <1>2, ReadIdle, LockStays, Zenon DEF ClockTick, Tick, requestVars, ghostVars
<1>3. CASE Restart
  BY <1>3, RestartStep, Zenon
<1>4. ASSUME NEW c \in Client, NextRequest(c)
      PROVE  ReadInv'
  BY <1>4, RequestStep, Zenon DEF NextRequest
<1>5. ASSUME NEW c \in Client, HandlerStep(c)
      PROVE  ReadInv'
  BY <1>5, InitialGetStep, InitialPositionStep, BusReadStep, LoopLeaveStep, LoopWaitStep,
     WaitEndStep, QueryDeltaStep, QueryDeltaFailsStep, RespondStep, Zenon DEF HandlerStep
<1>6. ASSUME NEW c \in Client, Lost(c)
      PROVE  ReadInv'
  BY <1>6, LostStep, Zenon
<1>7. CASE UNCHANGED vars
  BY <1>7, ReadIdle, LockStays, Zenon DEF vars, cacheVars, requestVars, ghostVars
<1> QED
  BY <1>1, <1>2, <1>3, <1>4, <1>5, <1>6, <1>7, Zenon DEF Next

\* The invariant of the read handlers holds in every state.
LEMMA ReadInvariant == Spec => []ReadInv
BY ReadInitInv, ReadNextInv, PTL DEF Spec

-----------------------------------------------------------------------------

\* A client whose index says that it has the last value of an address has it, unless
\* the push raced with its initial read or came after a restart that its index does
\* not know of, or the age limit of a request or a failed lock kept it back, or a
\* death tore the entry: for any number of clients, addresses and pushes below half
\* the modulus, any mix of requests, any restarts and any deaths inside the calls of
\* the cache.
THEOREM DeltasLoseNothing == Spec => []MissedOnlyIfRaced
<1>1. ReadInv => MissedOnlyIfRaced
  <2> SUFFICES ASSUME ReadInv, NEW c \in Client, NEW a \in Subscribed \ torn, Missed(c, a)
               PROVE  a \in raced[c] \cup dropped[c]
    BY Zenon DEF MissedOnlyIfRaced
  <2>1. CacheInv /\ ClientInv(c)
    BY Zenon DEF ReadInv
  <2>2. idx[c] \in 0..MaxPush /\ idx[c] # 0 /\ a \in DOMAIN entries
    BY <2>1, Zenon DEF ClientInv, TypeInv, Missed
  <2>3. entries[a].pushed_at \in 1..position
    BY <2>1, <2>2, CacheFacts, Zenon
  <2>4. entries[a].pushed_at <= idx[c]
    <3>1. a \notin DeltaAddresses(idx[c], Subscribed, NoAge)
      BY Zenon DEF Missed
    <3> QED
      BY <2>1, <2>2, <2>3, <3>1, DeltaAll
  <2> QED
    BY <2>1, <2>2, <2>4, Zenon DEF ClientInv, CoverInv, Missed, Excused
<1> QED
  BY <1>1, ReadInvariant, PTL

\* No response is ahead of its index, and a request with an index of this server is
\* answered with later values only.
THEOREM NothingTwice == Spec => []NoDuplicates
<1>1. ReadInv => NoDuplicates
  <2> SUFFICES ASSUME ReadInv, NEW c \in Client, pc[c] = "respond", NEW a \in Written(c) \ torn
               PROVE  /\ Stamp(out[c][a]) <= lastpos[c]
                      /\ (mode[c] \in {"poll", "aged"} /\ idx[c] # 0 /\ ~old[c])
                            => Stamp(out[c][a]) > idx[c]
    BY Zenon DEF NoDuplicates
  <2>1. a \in Subscribed /\ pc[c] \notin Before
    BY Zenon DEF ReadInv, ClientInv, TypeInv, Before
  <2>2. ValueInv(c, a)
    BY <2>1, Zenon DEF ReadInv, ClientInv
  <2> QED
    BY <2>1, <2>2, Zenon DEF ValueInv, Stamp, Earlier
<1> QED
  BY <1>1, ReadInvariant, PTL

\* What a client shows never becomes older, unless a death tore the entry, and its
\* index goes back only if it is one from before a restart, or to 0 when a delta could
\* not lock the cache.
THEOREM ClientsGoForward == Spec => NeverBackwards
<1> DEFINE Forward(c) == /\ idx'[c] >= idx[c] \/ old[c] \/ (idx'[c] = 0 /\ ~CanLock)
                         /\ \A a \in Subscribed \ torn : held'[c][a] >= held[c][a]
<1>1. ReadInv /\ [Next]_vars => [\A c \in Client : Forward(c)]_vars
  <2> SUFFICES ASSUME ReadInv, Next, NEW c \in Client
               PROVE  Forward(c)
    BY Zenon
  <2>1. Domains /\ TypeInv(c) /\ IndexInv(c) /\ \A a \in Subscribed : ValueInv(c, a)
    BY Zenon DEF ReadInv, ClientInv
  <2>2. CASE idx'[c] = idx[c] /\ held'[c] = held[c]
    BY <2>1, <2>2 DEF TypeInv
  <2>3. ASSUME Respond(c)
        PROVE  Forward(c)
    <3>1. /\ pc[c] = "respond" /\ idx'[c] = lastpos[c]
          /\ held'[c] = [a \in Subscribed |-> IF a \in Written(c) THEN out[c][a] ELSE held[c][a]]
      BY <2>1, <2>3, Zenon DEF Domains, Respond
    <3>2. idx'[c] >= idx[c] \/ old[c] \/ (idx'[c] = 0 /\ ~CanLock)
      BY <2>1, <3>1 DEF IndexInv, TypeInv, Before
    <3>3. ASSUME NEW a \in Subscribed \ torn
          PROVE  held'[c][a] >= held[c][a]
      BY <2>1, <3>1, <3>3 DEF ValueInv, TypeInv
    <3> QED
      BY <3>2, <3>3, Zenon
  <2>4. ASSUME NEW d \in Client, d # c, Respond(d)
        PROVE  idx'[c] = idx[c] /\ held'[c] = held[c]
    BY <2>1, <2>4, Zenon DEF Domains, Respond
  <2>5. \/ UNCHANGED <<idx, held>>
        \/ \E d \in Client : Respond(d)
    BY DEF Next, BusPush, PushCut, ClockTick, Restart, NextRequest, Request, HandlerStep, InitialGet,
       InitialPosition, BusRead, LoopLeave, LoopWait, WaitEnd, QueryDelta,
       QueryDeltaFails, Lost
  <2> QED
    BY <2>2, <2>3, <2>4, <2>5, Zenon
<1> QED
  BY <1>1, ReadInvariant, PTL DEF Spec, NeverBackwards
=============================================================================
