----------------------------- MODULE GroupCache -----------------------------
(***************************************************************************)
(* GroupCache: a map from group address to the last value pushed for it.   *)
(* Every public method runs under one mutex, so each is one step.  The     *)
(* class is also the reference for SharedGroupCache, which offers the same *)
(* operations on a fixed-size hash table in shared memory.                 *)
(***************************************************************************)
EXTENDS CacheIndex, FiniteSets

CONSTANTS Address,    \* group addresses (uint16_t)
          Value,      \* what a telegram carries
          MaxTime     \* bound on the clock

VARIABLES entries,    \* entries_: a function on the addresses present
          position,   \* position_: the raw uint32_t push counter
          now         \* std::time(nullptr)

cacheVars == <<entries, position, now>>

ASSUME TimeAssumption == MaxTime \in Nat /\ MaxTime < W

Entry == [value : Value, timestamp : 0..MaxTime, pushed_at : 0..(M - 1)]

CacheTypeOK ==
  /\ DOMAIN entries \subseteq Address
  /\ \A a \in DOMAIN entries : entries[a] \in Entry
  /\ position \in 0..(W - 1)
  /\ now \in 0..MaxTime

CacheInit ==
  /\ entries = [a \in {} |-> {}]
  /\ position = 0
  /\ now = 0

-----------------------------------------------------------------------------
(* Queries *)

\* max_age_sec < 0 switches the age filter off.
NoAge == -1

\* The age filter both queries apply to an entry they have found.
TooOld(timestamp, max_age_sec) ==
  /\ max_age_sec >= 0
  /\ UInt(now - timestamp) >= max_age_sec

\* get(addr, max_age_sec): the set holding the value returned, or {}.
Get(a, max_age_sec) ==
  { entries[b].value : b \in {c \in DOMAIN entries \cap {a} :
                                 ~TooOld(entries[c].timestamp, max_age_sec)} }

\* The addresses in the values of get_delta(since_pos, subscribed, max_age_sec).
\* The values are those of entries; its position is Wrapped(position).
DeltaAddresses(since, subscribed, max_age_sec) ==
  { a \in subscribed \cap DOMAIN entries :
      /\ ~TooOld(entries[a].timestamp, max_age_sec)
      /\ InDelta(entries[a].pushed_at, since, Wrapped(position)) }

-----------------------------------------------------------------------------
(* Steps *)

\* Mutant: the stamp is taken before the counter advances.
PushEntryStampedEarly(a, v) ==
  [b \in DOMAIN entries \cup {a} |->
     IF b = a THEN [value |-> v, timestamp |-> now, pushed_at |-> Wrapped(position)]
              ELSE entries[b]]

\* The map after push(addr, value): the stamp is the index after the push.
PushEntry(a, v) ==
  [b \in DOMAIN entries \cup {a} |->
     IF b = a THEN [value |-> v, timestamp |-> now,
                    pushed_at |-> Wrapped(FetchAdd(position))]
              ELSE entries[b]]

Push(a, v) ==
  /\ position' = FetchAdd(position)
  /\ entries' = PushEntry(a, v)
  /\ UNCHANGED now

Clear ==
  /\ entries' = [a \in {} |-> {}]
  /\ position' = 0
  /\ UNCHANGED now

\* The wall clock moves on by a second.
Tick ==
  /\ now < MaxTime
  /\ now' = now + 1
  /\ UNCHANGED <<entries, position>>

CacheNext ==
  \/ \E a \in Address, v \in Value : Push(a, v)
  \/ Clear
  \/ Tick

CacheSpec == CacheInit /\ [][CacheNext]_cacheVars
=============================================================================
