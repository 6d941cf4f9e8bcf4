-------------------------- MODULE SharedGroupCache --------------------------
(***************************************************************************)
(* SharedGroupCache: the group cache in a shared memory region.  Entries   *)
(* live in an open-addressing hash table of fixed size; a slot whose addr  *)
(* is 0 is empty, although 0 is also the number of group address 0/0/0.    *)
(* Every method runs under the process-shared mutex, so each is one step   *)
(* here; CacheSync opens the critical sections up.                         *)
(***************************************************************************)
EXTENDS CacheIndex, FiniteSets, Sequences

CONSTANTS Address,          \* group addresses: a set of naturals
          Payload,          \* payloads of the telegrams: a set of byte sequences
          Capacity,         \* kSharedCacheCapacity, 2048 in the code
          MaxValueBytes,    \* kMaxSharedValueBytes, 14 in the code
          MaxTime           \* bound on the clock

VARIABLES slots,          \* entries[]: the hash table
          position,       \* raw push counter
          generation,     \* bumped by every push, for wait_for_new_data
          num_entries,    \* number of slots taken, as the code counts it
          now             \* std::time(nullptr)

vars == <<slots, position, generation, num_entries, now>>

ASSUME TableAssumption ==
  /\ Capacity \in Nat \ {0}
  /\ Address \subseteq Nat
  /\ MaxValueBytes \in Nat
  /\ MaxTime \in Nat /\ MaxTime < W

SlotIndex == 0..(Capacity - 1)

\* What the zero-initialised region holds in every slot.
EmptyEntry == [addr |-> 0, value |-> <<>>, timestamp |-> 0, pushed_at |-> 0]

\* value_len = min(value.size(), kMaxSharedValueBytes), and as many bytes copied.
Stored(payload) ==
  IF Len(payload) <= MaxValueBytes THEN payload ELSE SubSeq(payload, 1, MaxValueBytes)

TypeOK ==
  /\ slots \in [SlotIndex -> [addr : Address \cup {0},
                              value : {Stored(p) : p \in Payload} \cup {<<>>},
                              timestamp : 0..MaxTime, pushed_at : 0..(M - 1)]]
  /\ position \in 0..(W - 1)
  /\ generation \in 0..(W - 1)
  /\ num_entries \in 0..(W - 1)
  /\ now \in 0..MaxTime

Init ==
  /\ slots = [s \in SlotIndex |-> EmptyEntry]
  /\ position = 0
  /\ generation = 0
  /\ num_entries = 0
  /\ now = 0

-----------------------------------------------------------------------------
(* Probing *)

\* The i-th slot looked at for address a.
Probe(a, i) == ((a % Capacity) + i) % Capacity

\* Mutant: the probe looks for an empty slot only.
ProbeHitsEmptyOnly(a) == {i \in SlotIndex : slots[Probe(a, i)].addr = 0}

\* The probes at which find_slot may stop.
ProbeHits(a) == {i \in SlotIndex : slots[Probe(a, i)].addr \in {a, 0}}

\* find_slot: the first slot that holds a or is empty; Capacity if there is none.
FindSlot(a) ==
  IF ProbeHits(a) = {} THEN Capacity
  ELSE Probe(a, CHOOSE i \in ProbeHits(a) : \A j \in ProbeHits(a) : i <= j)

\* Mutant: the slot's address is not compared.
FoundAnySlot(a) == FindSlot(a) < Capacity

\* Whether the lookup the queries make finds an entry for a.
Found(a) == FindSlot(a) < Capacity /\ slots[FindSlot(a)].addr = a

-----------------------------------------------------------------------------
(* Queries *)

TooOld(timestamp, max_age_sec) ==
  /\ max_age_sec >= 0
  /\ UInt(now - timestamp) >= max_age_sec

\* get(addr, max_age_sec): the set holding the value returned, or {}.
Get(a, max_age_sec) ==
  IF Found(a) /\ ~TooOld(slots[FindSlot(a)].timestamp, max_age_sec)
  THEN {slots[FindSlot(a)].value} ELSE {}

\* The addresses in the values of get_delta(since_pos, subscribed, max_age_sec).
DeltaAddresses(since, subscribed, max_age_sec) ==
  { a \in subscribed :
      /\ Found(a)
      /\ ~TooOld(slots[FindSlot(a)].timestamp, max_age_sec)
      /\ InDelta(slots[FindSlot(a)].pushed_at, since, Wrapped(position)) }

-----------------------------------------------------------------------------
(* Steps *)

\* Mutant: a full table gives up the entry in the home slot.
InsertLockedEvicting(a, entry) ==
  LET s == IF FindSlot(a) >= Capacity THEN Probe(a, 0) ELSE FindSlot(a)
  IN  /\ slots' = [slots EXCEPT ![s] = entry]
      /\ num_entries' = IF slots[s].addr = 0 THEN FetchAdd(num_entries) ELSE num_entries

\* insert_locked: a full table drops the entry; an empty slot makes it new.
InsertLocked(a, entry) ==
  IF FindSlot(a) >= Capacity
  THEN UNCHANGED <<slots, num_entries>>
  ELSE /\ slots' = [slots EXCEPT ![FindSlot(a)] = entry]
       /\ num_entries' = IF slots[FindSlot(a)].addr = 0 THEN FetchAdd(num_entries)
                                                        ELSE num_entries

Push(a, payload) ==
  /\ position' = FetchAdd(position)
  /\ InsertLocked(a, [addr |-> a, value |-> Stored(payload), timestamp |-> now,
                      pushed_at |-> Wrapped(FetchAdd(position))])
  /\ generation' = FetchAdd(generation)
  /\ UNCHANGED now

Tick ==
  /\ now < MaxTime
  /\ now' = now + 1
  /\ UNCHANGED <<slots, position, generation, num_entries>>

Next ==
  \/ \E a \in Address, p \in Payload : Push(a, p)
  \/ Tick

Spec == Init /\ [][Next]_vars

-----------------------------------------------------------------------------
(* Properties *)

Taken == {s \in SlotIndex : slots[s].addr # 0}

\* shared_group_cache.h:80 of num_entries: "current count (<= kSharedCacheCapacity)".
CountWithinCapacity == num_entries <= Capacity

\* An address once in the table stays, and each later push of it is stored: also
\* a full table, which drops new addresses, loses no update of an old one.
PresentAddressesKept ==
  [][\A a \in Address \ {0} :
       Found(a) => /\ Found(a)'
                   /\ \A p \in Payload :
                        Push(a, p) => /\ Get(a, -1)' = {Stored(p)}
                                      /\ (slots[FindSlot(a)].pushed_at)' = Wrapped(position')]_vars

-----------------------------------------------------------------------------
(* The table as an implementation of GroupCache *)

AbstractEntries ==
  [a \in {slots[s].addr : s \in Taken} |->
     LET e == slots[CHOOSE s \in Taken : slots[s].addr = a]
     IN  [value |-> e.value, timestamp |-> e.timestamp, pushed_at |-> e.pushed_at]]

GC == INSTANCE GroupCache WITH entries <- AbstractEntries,
                               Address <- Address \ {0},
                               Value <- {Stored(p) : p \in Payload}

\* A push of an address that finds the table full: the position moves, no entry
\* does.
Refused ==
  /\ Cardinality(DOMAIN AbstractEntries) = Capacity
  /\ position' = FetchAdd(position)
  /\ UNCHANGED <<AbstractEntries, now>>

\* A push of 0/0/0: the slot it is written to stays an empty one.
Unmarked ==
  /\ \E p \in Payload : 0 \in Address /\ Push(0, p)
  /\ UNCHANGED AbstractEntries

\* For every address but 0/0/0 the shared cache behaves as the map of group_cache.cpp
\* does, with values cut to the size of an entry, except that it refuses pushes
\* when it is full.  Telegrams of 0/0/0 move the position and disturb no entry.
ImplementsGroupCache ==
  GC!CacheInit /\ [][GC!CacheNext \/ Refused \/ Unmarked]_<<AbstractEntries, position, now>>

\* For these addresses its queries give the answers the map would give, for every
\* since_pos and every age limit, whatever was pushed for 0/0/0.
QueriesAgree ==
  /\ \A a \in Address \ {0}, m \in -1..MaxTime : Get(a, m) = GC!Get(a, m)
  /\ \A since \in 0..(M - 1), m \in -1..MaxTime :
       DeltaAddresses(since, Address \ {0}, m) = GC!DeltaAddresses(since, Address \ {0}, m)
=============================================================================
