----------------------- MODULE SharedGroupCacheProofs -----------------------
(***************************************************************************)
(* The hash table in shared memory implements the map of group_cache.cpp,  *)
(* for every capacity, set of addresses and set of payloads.  The          *)
(* inductive invariant is Reachable: linear probing for the address in a   *)
(* slot ends at that slot.  No address is then in two slots, and inserting *)
(* keeps it because an entry is only ever written to the slot where the    *)
(* probing for its own address ends.                                       *)
(***************************************************************************)
EXTENDS SharedGroupCache, CacheIndexProofs, FiniteSetTheorems, FunctionTheorems

\* The definitions of the table for any contents t of it.
Hits(t, a) == {i \in SlotIndex : t[Probe(a, i)].addr \in {a, 0}}

First(t, a) ==
  IF Hits(t, a) = {} THEN Capacity
  ELSE Probe(a, CHOOSE i \in Hits(t, a) : \A j \in Hits(t, a) : i <= j)

TakenOf(t) == {s \in SlotIndex : t[s].addr # 0}

Reachable(t) == \A s \in TakenOf(t) : First(t, t[s].addr) = s

Bare(e) == [value |-> e.value, timestamp |-> e.timestamp, pushed_at |-> e.pushed_at]

Entries(t) ==
  [a \in {t[s].addr : s \in TakenOf(t)} |-> Bare(t[CHOOSE s \in TakenOf(t) : t[s].addr = a])]

\* The map m after a has got the entry e.
Added(m, a, e) == [b \in DOMAIN m \cup {a} |-> IF b = a THEN e ELSE m[b]]

IInv == TypeOK /\ Reachable(slots)

\* A set of naturals that is not empty has a least element.
LEMMA Least ==
  ASSUME NEW S \in SUBSET Nat, S # {}
  PROVE  \E i \in S : \A j \in S : i <= j
<1> DEFINE T == {0..i : i \in S}
<1>1. \A i \in S : IsFiniteSet(0..i) /\ 0..i \in SUBSET Nat
  BY FS_Interval
<1>2. T \subseteq FiniteSubsetsOf(Nat) /\ T # {}
  BY <1>1, Zenon DEF FiniteSubsetsOf
<1> HIDE DEF T
<1>3. PICK t \in T : \A u \in T : ~(<<u, t>> \in StrictSubsetOrdering(Nat))
  BY <1>2, FS_StrictSubsetOrderingWellFounded, WFMin
<1>4. PICK i \in S : t = 0..i
  BY <1>3 DEF T
<1>5. ASSUME NEW j \in S, j < i PROVE FALSE
  <2>1. 0..j \in T /\ 0..j \in SUBSET Nat /\ t \in SUBSET Nat
    BY <1>1, <1>4 DEF T
  <2>2. 0..j \subseteq 0..i /\ i \in 0..i /\ i \notin 0..j
    BY <1>5
  <2>3. <<0..j, t>> \in StrictSubsetOrdering(Nat)
    BY <2>1, <2>2, <1>4 DEF StrictSubsetOrdering
  <2> QED
    BY <2>1, <2>3, <1>3
<1> QED
  BY <1>5

-----------------------------------------------------------------------------
(* Probing *)

\* Probing stays in the table.
LEMMA ProbeInTable ==
  ASSUME NEW a \in Nat, NEW i \in Nat
  PROVE  Probe(a, i) \in SlotIndex
<1>1. a % Capacity \in 0..(Capacity - 1)
  BY TableAssumption, ModRange
<1> QED
  BY <1>1, TableAssumption, ModRange DEF Probe, SlotIndex

\* Probing visits every slot.
LEMMA ProbeVisitsAll ==
  ASSUME NEW a \in Nat, NEW s \in SlotIndex
  PROVE  \E i \in SlotIndex : Probe(a, i) = s
<1> DEFINE home == a % Capacity
<1>1. home \in 0..(Capacity - 1) /\ s \in 0..(Capacity - 1) /\ Capacity \in Nat \ {0}
  BY TableAssumption, ModRange DEF SlotIndex
<1>2. Probe(a, IF s >= home THEN s - home ELSE s - home + Capacity) = s
  <2> HIDE DEF home
  <2>1. CASE s >= home
    <3>1. home + (s - home) = s
      BY <1>1
    <3>2. s % Capacity = s
      BY <1>1, ModSmall
    <3> QED
      BY <2>1, <3>1, <3>2 DEF Probe, home
  <2>2. CASE ~(s >= home)
    <3>1. home + (s - home + Capacity) = s + Capacity
      BY <1>1
    <3>2. \A m \in Nat \ {0}, x \in Int : (x + m) % m = x % m
      BY ModTurn, Zenon
    <3>3. s \in Int /\ Capacity \in Nat \ {0}
      BY <1>1
    <3>4. (s + Capacity) % Capacity = s % Capacity
      BY ONLY <3>2, <3>3, Zenon
    <3>5. s % Capacity = s
      BY <1>1, ModSmall
    <3> QED
      BY <2>2, <3>1, <3>4, <3>5 DEF Probe, home
  <2> QED
    BY <2>1, <2>2
<1>3. (IF s >= home THEN s - home ELSE s - home + Capacity) \in SlotIndex
  BY <1>1 DEF SlotIndex
<1> QED
  BY <1>2, <1>3

\* Without a hit find_slot ends outside the table.
LEMMA NoHitFirst ==
  ASSUME NEW t, NEW a, Hits(t, a) = {}
  PROVE  First(t, a) = Capacity /\ First(t, a) \notin SlotIndex
<1>1. First(t, a) = Capacity
  BY DEF First
<1> QED
  BY <1>1, TableAssumption DEF SlotIndex

\* find_slot stops at the first probe that may stop it.
LEMMA FirstHit ==
  ASSUME NEW t, NEW a \in Nat, Hits(t, a) # {}
  PROVE  /\ First(t, a) \in SlotIndex
         /\ t[First(t, a)].addr \in {a, 0}
         /\ \E i \in Hits(t, a) : /\ First(t, a) = Probe(a, i)
                                  /\ \A j \in Hits(t, a) : i <= j
<1>1. Hits(t, a) \in SUBSET Nat
  BY TableAssumption DEF Hits, SlotIndex
<1>2. \E i \in Hits(t, a) : \A j \in Hits(t, a) : i <= j
  BY <1>1, Least
<1>3. PICK i \in Hits(t, a) : First(t, a) = Probe(a, i) /\ \A j \in Hits(t, a) : i <= j
  BY <1>2, Zenon DEF First
<1>4. t[Probe(a, i)].addr \in {a, 0} /\ i \in Nat
  BY <1>1 DEF Hits
<1> QED
  BY <1>3, <1>4, ProbeInTable

\* And that determines where it stops.
LEMMA FirstUnique ==
  ASSUME NEW t, NEW a \in Nat, NEW i \in Hits(t, a), \A j \in Hits(t, a) : i <= j
  PROVE  First(t, a) = Probe(a, i)
<1>1. Hits(t, a) \in SUBSET Nat
  BY TableAssumption DEF Hits, SlotIndex
<1>2. PICK k \in Hits(t, a) : First(t, a) = Probe(a, k) /\ \A j \in Hits(t, a) : k <= j
  BY FirstHit
<1>3. i = k
  BY <1>1, <1>2
<1> QED
  BY <1>2, <1>3

\* Without a hit the table has neither the address nor an empty slot.
LEMMA NoHit ==
  ASSUME NEW t, NEW a \in Nat, First(t, a) >= Capacity
  PROVE  \A s \in SlotIndex : t[s].addr \notin {a, 0}
<1>1. Hits(t, a) = {}
  BY FirstHit, TableAssumption DEF SlotIndex
<1> QED
  BY <1>1, ProbeVisitsAll DEF Hits

\* An entry written where the probing for its address ends: every entry can still be
\* found, this one there.  A probe for another address passes over the slot, or ends
\* before it.
LEMMA InsertReachable ==
  ASSUME NEW t, NEW u, NEW a \in Nat, NEW s0 \in SlotIndex,
         \A s \in SlotIndex : t[s].addr \in Nat,
         Reachable(t), s0 = First(t, a), t[s0].addr \in {a, 0},
         u[s0].addr = a, \A s \in SlotIndex : s # s0 => u[s] = t[s]
  PROVE  Reachable(u)
<1>1. ASSUME NEW b \in Nat, NEW i \in SlotIndex PROVE Probe(b, i) \in SlotIndex
  <2>1. i \in Nat
    BY TableAssumption DEF SlotIndex
  <2> QED
    BY <2>1, ProbeInTable
<1>2. \A b, s : First(t, b) = s /\ s \in SlotIndex => Hits(t, b) # {}
  <2> SUFFICES ASSUME NEW b, NEW s, First(t, b) = s, s \in SlotIndex, Hits(t, b) = {}
               PROVE  FALSE
    OBVIOUS
  <2> QED
    BY NoHitFirst
<1>3. CASE t[s0].addr = a
  <2>1. \A s \in SlotIndex : u[s].addr = t[s].addr
    BY <1>3
  <2>2. \A b \in Nat : Hits(u, b) = Hits(t, b)
    BY <1>1, <2>1 DEF Hits
  <2>3. ASSUME NEW b \in Nat PROVE First(u, b) = First(t, b)
    <3>1. Hits(u, b) = Hits(t, b)
      BY <2>2
    <3> QED
      BY <3>1 DEF First
  <2> QED
    BY <2>1, <2>3 DEF Reachable, TakenOf
<1>4. CASE t[s0].addr = 0 /\ a # 0
  <2>1. Hits(u, a) = Hits(t, a)
    BY <1>1, <1>4 DEF Hits
  <2>2. First(u, a) = s0
    BY <2>1 DEF First
  <2>3. ASSUME NEW s \in SlotIndex, s # s0, t[s].addr # 0
        PROVE  First(u, t[s].addr) = s
    <3> DEFINE b == t[s].addr
    <3>1. b \in Nat /\ First(t, b) = s /\ b # a
      BY <1>4, <2>3 DEF Reachable, TakenOf
    <3>2. Hits(t, b) # {}
      BY <3>1, <2>3, <1>2, SMTT(30)
    <3> HIDE DEF b
    <3>3. PICK i \in Hits(t, b) : s = Probe(b, i) /\ \A j \in Hits(t, b) : i <= j
      BY <3>1, <3>2, FirstHit
    <3>4. Hits(u, b) \subseteq Hits(t, b)
      BY <1>1, <1>4, <3>1 DEF Hits
    <3>5. i \in Hits(u, b)
      BY <2>3, <3>3 DEF Hits
    <3>6. First(u, b) = Probe(b, i)
      BY <3>1, <3>3, <3>4, <3>5, FirstUnique, SMTT(30)
    <3> QED
      BY <3>3, <3>6 DEF b
  <2> QED
    BY <2>2, <2>3 DEF Reachable, TakenOf
<1> QED
  BY <1>3, <1>4

\* In a table that can be searched, no address has two entries.
LEMMA EntriesOf ==
  ASSUME NEW t, Reachable(t)
  PROVE  /\ DOMAIN Entries(t) = {t[s].addr : s \in TakenOf(t)}
         /\ \A s \in TakenOf(t) : Entries(t)[t[s].addr] = Bare(t[s])
<1>1. ASSUME NEW s \in TakenOf(t)
      PROVE  Entries(t)[t[s].addr] = Bare(t[s])
  <2> DEFINE r == CHOOSE x \in TakenOf(t) : t[x].addr = t[s].addr
  <2>1. r \in TakenOf(t) /\ t[r].addr = t[s].addr
    OBVIOUS
  <2> HIDE DEF r
  <2>2. r = s
    BY <2>1 DEF Reachable
  <2> QED
    BY <2>2, Zenon DEF Entries, r
<1> QED
  BY <1>1, Zenon DEF Entries

-----------------------------------------------------------------------------
(* The invariant *)

\* FindSlot, Taken and AbstractEntries are the definitions above for the table.
LEMMA Table ==
  /\ \A a : FindSlot(a) = First(slots, a)
  /\ Taken = TakenOf(slots)
  /\ AbstractEntries = Entries(slots)
<1>1. \A a : ProbeHits(a) = Hits(slots, a)
  BY DEF ProbeHits, Hits
<1>2. ASSUME NEW a PROVE FindSlot(a) = First(slots, a)
  <2>1. ProbeHits(a) = Hits(slots, a)
    BY <1>1
  <2> QED
    BY <2>1 DEF FindSlot, First
<1>3. Taken = TakenOf(slots)
  BY DEF Taken, TakenOf
<1> QED
  BY <1>2, <1>3 DEF AbstractEntries, Entries, Bare

\* The same after a step.
LEMMA TableNext ==
  /\ \A a : FindSlot(a)' = First(slots', a)
  /\ AbstractEntries' = Entries(slots')
<1>1. ASSUME NEW a PROVE FindSlot(a)' = First(slots', a)
  <2>1. ProbeHits(a)' = Hits(slots', a)
    BY DEF ProbeHits, Hits
  <2> QED
    BY <2>1 DEF FindSlot, First
<1>2. Taken' = TakenOf(slots')
  BY DEF Taken, TakenOf
<1> QED
  BY <1>1, <1>2 DEF AbstractEntries, Entries, Bare

\* What a push does to the table.
LEMMA PushTable ==
  ASSUME IInv, NEW a \in Address, NEW p \in Payload, Push(a, p),
         First(slots, a) < Capacity
  PROVE  /\ First(slots, a) \in SlotIndex
         /\ slots[First(slots, a)].addr \in {a, 0}
         /\ slots'[First(slots, a)] = [addr |-> a, value |-> Stored(p), timestamp |-> now,
                                       pushed_at |-> Wrapped(FetchAdd(position))]
         /\ \A s \in SlotIndex : s # First(slots, a) => slots'[s] = slots[s]
         /\ slots' = [slots EXCEPT ![First(slots, a)] = slots'[First(slots, a)]]
<1>1. a \in Nat /\ First(slots, a) = FindSlot(a)
  BY TableAssumption, Table
<1>2. Hits(slots, a) # {}
  BY NoHitFirst, TableAssumption
<1>3. First(slots, a) \in SlotIndex /\ slots[First(slots, a)].addr \in {a, 0}
  BY <1>1, <1>2, FirstHit
<1>4. ~(FindSlot(a) >= Capacity)
  BY <1>1, <1>3, TableAssumption DEF SlotIndex
<1>5. slots' = [slots EXCEPT ![First(slots, a)] =
                  [addr |-> a, value |-> Stored(p), timestamp |-> now,
                   pushed_at |-> Wrapped(FetchAdd(position))]]
  BY <1>1, <1>4 DEF Push, InsertLocked
<1> QED
  BY <1>3, <1>5 DEF IInv, TypeOK

\* A push that finds no slot leaves the table alone.
LEMMA PushRefused ==
  ASSUME NEW a \in Address, NEW p \in Payload, Push(a, p), ~(First(slots, a) < Capacity)
  PROVE  slots' = slots /\ First(slots, a) = Capacity
<1>1. a \in Nat /\ First(slots, a) = FindSlot(a)
  BY TableAssumption, Table
<1>2. Hits(slots, a) = {}
  BY <1>1, FirstHit, TableAssumption DEF SlotIndex
<1>3. First(slots, a) = Capacity
  BY <1>2, NoHitFirst
<1> QED
  BY <1>1, <1>3, TableAssumption DEF Push, InsertLocked

\* The zero-initialised region satisfies the invariant.
LEMMA InitIInvTable == Init => IInv
<1> SUFFICES ASSUME Init PROVE IInv
  OBVIOUS
<1>1. TypeOK
  BY TableAssumption, IndexAssumption DEF Init, TypeOK, EmptyEntry
<1>2. TakenOf(slots) = {}
  BY DEF Init, EmptyEntry, TakenOf
<1> QED
  BY <1>1, <1>2 DEF IInv, Reachable

\* A push preserves it.
LEMMA PushIInv ==
  ASSUME IInv, NEW a \in Address, NEW p \in Payload, Push(a, p)
  PROVE  IInv'
<1>1. /\ position' \in 0..(W - 1) /\ generation' \in 0..(W - 1)
      /\ FetchAdd(num_entries) \in 0..(W - 1)
      /\ Wrapped(FetchAdd(position)) \in 0..(M - 1) /\ now' = now
  <2>1. position + 1 \in Int /\ generation + 1 \in Int /\ num_entries + 1 \in Int
    BY IndexAssumption DEF IInv, TypeOK
  <2>2. /\ FetchAdd(position) \in 0..(W - 1) /\ FetchAdd(generation) \in 0..(W - 1)
        /\ FetchAdd(num_entries) \in 0..(W - 1)
    BY <2>1, IndexRange DEF FetchAdd
  <2>3. Wrapped(FetchAdd(position)) \in 0..(M - 1)
    BY <2>2, IndexRange, IndexAssumption
  <2> QED
    BY <2>2, <2>3 DEF Push
<1>2. num_entries' \in 0..(W - 1)
  <2>1. num_entries' \in {num_entries, FetchAdd(num_entries)}
    BY DEF Push, InsertLocked
  <2> QED
    BY <1>1, <2>1 DEF IInv, TypeOK
<1>3. CASE First(slots, a) < Capacity
  <2> DEFINE s0 == First(slots, a)
  <2>1. /\ s0 \in SlotIndex /\ slots[s0].addr \in {a, 0}
        /\ slots'[s0] = [addr |-> a, value |-> Stored(p), timestamp |-> now,
                         pushed_at |-> Wrapped(FetchAdd(position))]
        /\ \A s \in SlotIndex : s # s0 => slots'[s] = slots[s]
    BY <1>3, PushTable
  <2> DEFINE Slot == [addr : Address \cup {0}, value : {Stored(q) : q \in Payload} \cup {<<>>},
                      timestamp : 0..MaxTime, pushed_at : 0..(M - 1)]
  <2>2. slots'[s0] \in Slot /\ slots \in [SlotIndex -> Slot]
    BY <1>1, <2>1 DEF IInv, TypeOK
  <2>3. slots' \in [SlotIndex -> Slot]
    <3> HIDE DEF Slot, s0
    <3>1. slots' = [slots EXCEPT ![s0] = slots'[s0]]
      BY <1>3, PushTable, Zenon DEF s0
    <3> QED
      BY <2>2, <3>1
  <2>4. a \in Nat /\ \A s \in SlotIndex : slots[s].addr \in Nat
    <3>1. Address \cup {0} \subseteq Nat
      BY TableAssumption
    <3>2. \A e \in Slot : e.addr \in Address \cup {0}
      OBVIOUS
    <3> HIDE DEF Slot
    <3> QED
      BY <2>2, <3>1, <3>2
  <2>5. Reachable(slots')
    <3> HIDE DEF s0
    <3>1. slots'[s0].addr = a
      BY <2>1
    <3> QED
      BY <2>1, <2>4, <3>1, InsertReachable DEF IInv, s0
  <2> QED
    BY <1>1, <1>2, <2>3, <2>5 DEF IInv, TypeOK
<1>4. CASE ~(First(slots, a) < Capacity)
  <2>1. slots' = slots
    BY <1>4, PushRefused
  <2> QED
    BY <1>1, <1>2, <2>1 DEF IInv, TypeOK
<1> QED
  BY <1>3, <1>4

\* Every step preserves it.
LEMMA NextIInvTable == IInv /\ [Next]_vars => IInv'
<1> SUFFICES ASSUME IInv, [Next]_vars PROVE IInv'
  OBVIOUS
<1>1. CASE Tick
  BY <1>1, TableAssumption DEF Tick, IInv, TypeOK
<1>2. CASE UNCHANGED vars
  BY <1>2 DEF vars, IInv, TypeOK
<1> QED
  BY <1>1, <1>2, PushIInv DEF Next

-----------------------------------------------------------------------------
(* The refinement *)

\* Writing an entry where the probing for its address ends, in the abstract map.
LEMMA InsertEntries ==
  ASSUME NEW t, NEW u, NEW a \in Nat \ {0}, NEW s0 \in SlotIndex,
         Reachable(t), Reachable(u), t[s0].addr \in {a, 0},
         u[s0].addr = a, \A s \in SlotIndex : s # s0 => u[s] = t[s]
  PROVE  Entries(u) = Added(Entries(t), a, Bare(u[s0]))
<1> DEFINE D == DOMAIN Entries(t) \cup {a}
<1>1. TakenOf(u) = TakenOf(t) \cup {s0}
  BY DEF TakenOf
<1>2. DOMAIN Entries(u) = D
  <2>1. DOMAIN Entries(t) = {t[s].addr : s \in TakenOf(t)}
    BY EntriesOf, Zenon
  <2>2. DOMAIN Entries(u) = {u[s].addr : s \in TakenOf(u)}
    BY EntriesOf, Zenon
  <2>3. \A s \in TakenOf(t) : u[s].addr = t[s].addr
    BY DEF TakenOf
  <2> QED
    BY <1>1, <2>1, <2>2, <2>3
<1>3. ASSUME NEW b \in D
      PROVE  Entries(u)[b] = IF b = a THEN Bare(u[s0]) ELSE Entries(t)[b]
  <2>1. CASE b = a
    BY <1>1, <2>1, EntriesOf, Zenon
  <2>2. CASE b # a
    <3>0. DOMAIN Entries(t) = {t[s].addr : s \in TakenOf(t)} /\ b \in DOMAIN Entries(t)
      BY <2>2, EntriesOf, Zenon
    <3>1. PICK s \in TakenOf(t) : b = t[s].addr
      BY <3>0
    <3>2. s # s0 /\ s \in TakenOf(u) /\ u[s] = t[s]
      BY <1>1, <2>2, <3>1 DEF TakenOf
    <3>3. Entries(u)[u[s].addr] = Bare(u[s])
      BY <3>2, EntriesOf, Zenon
    <3>4. Entries(t)[t[s].addr] = Bare(t[s])
      BY <3>1, EntriesOf, Zenon
    <3> QED
      BY <2>2, <3>1, <3>2, <3>3, <3>4
  <2> QED
    BY <2>1, <2>2
<1>4. Entries(u) = [b \in DOMAIN Entries(u) |-> Entries(u)[b]]
  BY DEF Entries
<1> QED
  BY <1>2, <1>3, <1>4 DEF Added

\* The map depends on the taken slots only.
LEMMA SameEntries ==
  ASSUME NEW t, NEW u, Reachable(t), Reachable(u),
         TakenOf(u) = TakenOf(t), \A s \in TakenOf(t) : u[s] = t[s]
  PROVE  Entries(u) = Entries(t)
<1>1. /\ DOMAIN Entries(t) = {t[s].addr : s \in TakenOf(t)}
      /\ \A s \in TakenOf(t) : Entries(t)[t[s].addr] = Bare(t[s])
  BY EntriesOf
<1>2. /\ DOMAIN Entries(u) = {u[s].addr : s \in TakenOf(u)}
      /\ \A s \in TakenOf(u) : Entries(u)[u[s].addr] = Bare(u[s])
  BY EntriesOf, Zenon
<1>3. DOMAIN Entries(u) = DOMAIN Entries(t)
  BY <1>1, <1>2
<1>4. \A b \in DOMAIN Entries(t) : Entries(u)[b] = Entries(t)[b]
  BY <1>1, <1>2
<1>5. /\ Entries(u) = [b \in DOMAIN Entries(u) |-> Entries(u)[b]]
      /\ Entries(t) = [b \in DOMAIN Entries(t) |-> Entries(t)[b]]
  BY DEF Entries
<1> QED
  BY <1>3, <1>4, <1>5

\* An address that finds no slot finds the table full.
LEMMA FullTable ==
  ASSUME NEW t, Reachable(t), NEW a \in Nat, First(t, a) = Capacity
  PROVE  Cardinality(DOMAIN Entries(t)) = Capacity
<1>1. \A s \in SlotIndex : t[s].addr \notin {a, 0}
  BY NoHit, TableAssumption
<1>2. TakenOf(t) = SlotIndex
  BY <1>1 DEF TakenOf
<1>3. DOMAIN Entries(t) = {t[s].addr : s \in SlotIndex}
  BY <1>2, EntriesOf, Zenon
<1> DEFINE f == [s \in SlotIndex |-> t[s].addr]
<1>4. f \in Bijection(SlotIndex, DOMAIN Entries(t))
  <2>1. f \in [SlotIndex -> DOMAIN Entries(t)]
    BY <1>3
  <2>2. \A r, s \in SlotIndex : f[r] = f[s] => r = s
    BY <1>2 DEF Reachable
  <2>3. \A b \in DOMAIN Entries(t) : \E s \in SlotIndex : f[s] = b
    BY <1>3
  <2> QED
    BY <2>1, <2>2, <2>3, Fun_IsBij
<1>5. IsFiniteSet(SlotIndex) /\ Cardinality(SlotIndex) = Capacity
  BY FS_Interval, TableAssumption DEF SlotIndex
<1> QED
  BY <1>4, <1>5, FS_Bijection DEF ExistsBijection

\* A step of the table is a step of the map, or a push that the table does not take.
LEMMA StepRefines ==
  ASSUME IInv, IInv', [Next]_vars
  PROVE  [GC!CacheNext \/ Refused \/ Unmarked]_<<AbstractEntries, position, now>>
<1> USE Table, TableNext
<1>0. Reachable(slots) /\ Reachable(slots')
  BY DEF IInv
<1>1. ASSUME NEW a \in Address, NEW p \in Payload, Push(a, p)
      PROVE  GC!CacheNext \/ Refused \/ Unmarked
  <2>1. a \in Nat /\ position' = FetchAdd(position) /\ now' = now
    BY <1>1, TableAssumption DEF Push
  <2>2. CASE ~(First(slots, a) < Capacity)
    <3>1. slots' = slots /\ First(slots, a) = Capacity
      BY <1>1, <2>2, PushRefused
    <3>2. Cardinality(DOMAIN Entries(slots)) = Capacity
      BY <2>1, <3>1, FullTable DEF IInv
    <3> QED
      BY <2>1, <3>1, <3>2 DEF Refused
  <2>3. CASE First(slots, a) < Capacity /\ a = 0
    <3> DEFINE s0 == First(slots, a)
    <3>1. /\ s0 \in SlotIndex /\ slots[s0].addr \in {a, 0}
          /\ slots'[s0] = [addr |-> a, value |-> Stored(p), timestamp |-> now,
                           pushed_at |-> Wrapped(FetchAdd(position))]
          /\ \A s \in SlotIndex : s # s0 => slots'[s] = slots[s]
      BY <1>1, <2>3, PushTable
    <3> HIDE DEF s0
    <3>2. slots[s0].addr = 0 /\ slots'[s0].addr = 0
      BY <2>3, <3>1
    <3>3. TakenOf(slots') = TakenOf(slots) /\ \A s \in TakenOf(slots) : slots'[s] = slots[s]
      BY <3>1, <3>2 DEF TakenOf
    <3>4. Entries(slots') = Entries(slots)
      BY <3>3, <1>0, SameEntries
    <3> QED
      BY <1>1, <2>3, <3>4 DEF Unmarked
  <2>4. CASE First(slots, a) < Capacity /\ a # 0
    <3> DEFINE s0 == First(slots, a)
    <3>1. /\ s0 \in SlotIndex /\ slots[s0].addr \in {a, 0}
          /\ slots'[s0] = [addr |-> a, value |-> Stored(p), timestamp |-> now,
                           pushed_at |-> Wrapped(FetchAdd(position))]
          /\ \A s \in SlotIndex : s # s0 => slots'[s] = slots[s]
      BY <1>1, <2>4, PushTable
    <3> HIDE DEF s0
    <3>2. slots'[s0].addr = a
      BY <3>1
    <3>3. Bare(slots'[s0]) = [value |-> Stored(p), timestamp |-> now,
                              pushed_at |-> Wrapped(FetchAdd(position))]
      BY <3>1 DEF Bare
    <3>4. Entries(slots') = Added(Entries(slots), a, Bare(slots'[s0]))
      <4>1. a \in Nat \ {0}
        BY <2>1, <2>4, SMTT(30)
      <4>2. s0 \in SlotIndex /\ slots[s0].addr \in {a, 0}
        BY <3>1
      <4>3. \A s \in SlotIndex : s # s0 => slots'[s] = slots[s]
        BY <3>1
      <4> QED
        BY ONLY <4>1, <4>2, <4>3, <1>0, <3>2, InsertEntries
    <3>5. /\ GC!FetchAdd(position) = FetchAdd(position)
          /\ GC!Wrapped(FetchAdd(position)) = Wrapped(FetchAdd(position))
      BY DEF GC!FetchAdd, FetchAdd, GC!UInt, UInt, GC!Wrapped, Wrapped
    <3>6. GC!Push(a, Stored(p))
      BY <2>1, <3>3, <3>4, <3>5 DEF GC!Push, GC!PushEntry, Added
    <3> QED
      BY <2>4, <3>6 DEF GC!CacheNext
  <2> QED
    BY <2>2, <2>3, <2>4
<1>2. CASE Tick
  BY <1>2 DEF Tick, GC!CacheNext, GC!Tick
<1>3. CASE UNCHANGED vars
  BY <1>3 DEF vars
<1> QED
  BY <1>1, <1>2, <1>3 DEF Next

\* The shared cache implements the map of group_cache.cpp, for every capacity: pushes
\* that a full table refuses, and those of 0/0/0, are the only other steps.
THEOREM TableImplementsMap == Spec => ImplementsGroupCache
<1>1. Init => GC!CacheInit
  <2> SUFFICES ASSUME Init PROVE GC!CacheInit
    OBVIOUS
  <2>1. Taken = {}
    BY DEF Init, EmptyEntry, Taken
  <2> QED
    BY <2>1 DEF Init, GC!CacheInit, AbstractEntries
<1>2. IInv /\ IInv' /\ [Next]_vars
        => [GC!CacheNext \/ Refused \/ Unmarked]_<<AbstractEntries, position, now>>
  BY StepRefines
<1> QED
  BY <1>1, <1>2, InitIInvTable, NextIInvTable, PTL DEF Spec, ImplementsGroupCache

-----------------------------------------------------------------------------
(* The queries, and the entries that stay *)

\* The lookup of an address finds its entry of the map, if there is one.
LEMMA FoundEntry ==
  ASSUME NEW t, NEW a \in Nat \ {0}, Reachable(t)
  PROVE  /\ (First(t, a) < Capacity /\ t[First(t, a)].addr = a) <=> a \in DOMAIN Entries(t)
         /\ a \in DOMAIN Entries(t) => /\ First(t, a) \in TakenOf(t)
                                       /\ t[First(t, a)].addr = a
                                       /\ Entries(t)[a] = Bare(t[First(t, a)])
<1>1. DOMAIN Entries(t) = {t[s].addr : s \in TakenOf(t)}
  BY EntriesOf, Zenon
<1>2. ASSUME First(t, a) < Capacity, t[First(t, a)].addr = a
      PROVE  a \in DOMAIN Entries(t)
  <2>1. First(t, a) \in SlotIndex
    BY <1>2, NoHitFirst, FirstHit, TableAssumption
  <2> QED
    BY <1>1, <1>2, <2>1 DEF TakenOf
<1>3. ASSUME a \in DOMAIN Entries(t)
      PROVE  /\ First(t, a) \in TakenOf(t) /\ t[First(t, a)].addr = a
             /\ First(t, a) < Capacity
             /\ Entries(t)[a] = Bare(t[First(t, a)])
  <2>1. PICK s \in TakenOf(t) : t[s].addr = a
    BY <1>1, <1>3
  <2>2. First(t, a) = s
    BY <2>1 DEF Reachable
  <2>3. s < Capacity
    BY TableAssumption DEF TakenOf, SlotIndex
  <2> QED
    BY <2>1, <2>2, <2>3, EntriesOf, Zenon
<1> QED
  BY <1>2, <1>3

\* For every address but 0/0/0, get and get_delta answer from the table what they
\* would answer from the map.
LEMMA QueriesSame == IInv => QueriesAgree
<1> SUFFICES ASSUME IInv PROVE QueriesAgree
  OBVIOUS
<1>0. Reachable(slots) /\ AbstractEntries = Entries(slots)
  BY Table DEF IInv
<1>1. ASSUME NEW a \in Address \ {0}
      PROVE  /\ Found(a) <=> a \in DOMAIN AbstractEntries
             /\ Found(a) => /\ AbstractEntries[a].value = slots[FindSlot(a)].value
                            /\ AbstractEntries[a].timestamp = slots[FindSlot(a)].timestamp
                            /\ AbstractEntries[a].pushed_at = slots[FindSlot(a)].pushed_at
  <2>1. a \in Nat \ {0} /\ FindSlot(a) = First(slots, a)
    BY TableAssumption, Table
  <2>2. /\ Found(a) <=> a \in DOMAIN AbstractEntries
        /\ Found(a) => AbstractEntries[a] = Bare(slots[FindSlot(a)])
    BY <1>0, <2>1, FoundEntry DEF Found
  <2> QED
    BY <2>2 DEF Bare
<1>2. \A x, m : GC!TooOld(x, m) <=> TooOld(x, m)
  BY DEF GC!TooOld, TooOld, GC!UInt, UInt
<1>3. \A x, y, z : GC!InDelta(x, y, z) <=> InDelta(x, y, z)
  <2>1. \A x, y : GC!Distance(x, y) = Distance(x, y)
    BY DEF GC!Distance, Distance, GC!UInt, UInt
  <2> QED
    BY <2>1 DEF GC!InDelta, InDelta, GC!EpochMismatch, EpochMismatch
<1>4. GC!Wrapped(position) = Wrapped(position)
  BY DEF GC!Wrapped, Wrapped
<1>5. ASSUME NEW a \in Address \ {0}, NEW m \in -1..MaxTime
      PROVE  Get(a, m) = GC!Get(a, m)
  <2> DEFINE young == {c \in DOMAIN AbstractEntries \cap {a} :
                         ~GC!TooOld(AbstractEntries[c].timestamp, m)}
  <2>1. CASE Found(a) /\ ~TooOld(slots[FindSlot(a)].timestamp, m)
    <3>1. young = {a}
      BY <1>1, <1>2, <2>1
    <3> HIDE DEF young
    <3>2. {AbstractEntries[b].value : b \in young} = {slots[FindSlot(a)].value}
      BY <1>1, <2>1, <3>1
    <3> QED
      BY <2>1, <3>2 DEF Get, GC!Get, young
  <2>2. CASE ~(Found(a) /\ ~TooOld(slots[FindSlot(a)].timestamp, m))
    <3>1. young = {}
      BY <1>1, <1>2, <2>2
    <3> HIDE DEF young
    <3>2. {AbstractEntries[b].value : b \in young} = {}
      BY <3>1
    <3> QED
      BY <2>2, <3>2 DEF Get, GC!Get, young
  <2> QED
    BY <2>1, <2>2
<1>6. ASSUME NEW since \in 0..(M - 1), NEW m \in -1..MaxTime
      PROVE  DeltaAddresses(since, Address \ {0}, m) = GC!DeltaAddresses(since, Address \ {0}, m)
  <2>1. ASSUME NEW a \in Address \ {0}, Found(a)
        PROVE  /\ GC!TooOld(AbstractEntries[a].timestamp, m)
                    <=> TooOld(slots[FindSlot(a)].timestamp, m)
               /\ GC!InDelta(AbstractEntries[a].pushed_at, since, GC!Wrapped(position))
                    <=> InDelta(slots[FindSlot(a)].pushed_at, since, Wrapped(position))
    BY <1>1, <1>2, <1>3, <1>4, <2>1
  <2>2. \A a \in Address \ {0} : Found(a) <=> a \in DOMAIN AbstractEntries
    BY <1>1
  <2> QED
    BY <2>1, <2>2 DEF DeltaAddresses, GC!DeltaAddresses
<1> QED
  BY <1>5, <1>6 DEF QueriesAgree

\* The answers agree in every reachable state.
THEOREM QueriesAlwaysAgree == Spec => []QueriesAgree
  BY InitIInvTable, NextIInvTable, QueriesSame, PTL DEF Spec

\* An entry that can be found is found in the same slot after every step.
LEMMA EntryStays ==
  ASSUME IInv, IInv', [Next]_vars, NEW a \in Address \ {0}, Found(a)
  PROVE  /\ First(slots', a) = First(slots, a)
         /\ First(slots, a) \in SlotIndex
         /\ slots'[First(slots, a)].addr = a
<1> DEFINE s == First(slots, a)
<1>1. a \in Nat \ {0} /\ Reachable(slots) /\ Reachable(slots')
  BY TableAssumption DEF IInv
<1>2. s \in TakenOf(slots) /\ slots[s].addr = a /\ s \in SlotIndex
  BY <1>1, FoundEntry, Table DEF Found, TakenOf
<1> HIDE DEF s
<1>3. slots'[s].addr = a
  <2>1. ASSUME NEW b \in Address, NEW p \in Payload, Push(b, p) PROVE slots'[s].addr = a
    <3>1. CASE ~(First(slots, b) < Capacity)
      BY <1>2, <2>1, <3>1, PushRefused
    <3>2. CASE First(slots, b) < Capacity
      <4> DEFINE s0 == First(slots, b)
      <4>1. /\ slots[s0].addr \in {b, 0}
            /\ slots'[s0] = [addr |-> b, value |-> Stored(p), timestamp |-> now,
                             pushed_at |-> Wrapped(FetchAdd(position))]
            /\ \A x \in SlotIndex : x # s0 => slots'[x] = slots[x]
        BY <2>1, <3>2, PushTable
      <4> HIDE DEF s0
      <4>2. slots'[s0].addr = b
        BY <4>1
      <4> QED
        BY <1>1, <1>2, <4>1, <4>2
    <3> QED
      BY <3>1, <3>2
  <2> QED
    BY <1>2, <2>1 DEF Next, Tick, vars
<1>4. First(slots', a) = s
  BY <1>1, <1>2, <1>3 DEF Reachable, TakenOf
<1> QED
  BY <1>2, <1>3, <1>4 DEF s

\* An address once in the table stays in it, and each later push of it is stored:
\* also in a table that is full.
LEMMA StepKeepsAddresses ==
  ASSUME IInv, IInv', [Next]_vars, NEW a \in Address \ {0}, Found(a)
  PROVE  /\ Found(a)'
         /\ \A p \in Payload :
              Push(a, p) => /\ Get(a, -1)' = {Stored(p)}
                            /\ (slots[FindSlot(a)].pushed_at)' = Wrapped(position')
<1> DEFINE s == First(slots, a)
<1>1. First(slots', a) = s /\ s \in SlotIndex /\ slots'[s].addr = a
  BY EntryStays
<1>2. FindSlot(a)' = s
  BY <1>1, TableNext
<1> HIDE DEF s
<1>3. s < Capacity
  BY <1>1, TableAssumption DEF SlotIndex
<1>4. Found(a)'
  BY <1>1, <1>2, <1>3 DEF Found
<1>5. ASSUME NEW p \in Payload, Push(a, p)
      PROVE  Get(a, -1)' = {Stored(p)} /\ (slots[FindSlot(a)].pushed_at)' = Wrapped(position')
  <2>1. slots'[s] = [addr |-> a, value |-> Stored(p), timestamp |-> now,
                     pushed_at |-> Wrapped(FetchAdd(position))]
    BY <1>3, <1>5, PushTable DEF s
  <2>2. position' = FetchAdd(position)
    BY <1>5 DEF Push
  <2>3. ~TooOld(slots[FindSlot(a)].timestamp, -1)'
    BY DEF TooOld
  <2> QED
    BY <1>2, <1>4, <2>1, <2>2, <2>3, SMTT(30) DEF Get
<1> QED
  BY <1>4, <1>5

\* No reachable table loses an address or an update of one it holds.
THEOREM AddressesKept == Spec => PresentAddressesKept
<1>1. IInv /\ IInv' /\ [Next]_vars
        => [\A a \in Address \ {0} :
              Found(a) => /\ Found(a)'
                          /\ \A p \in Payload :
                               Push(a, p) => /\ Get(a, -1)' = {Stored(p)}
                                             /\ (slots[FindSlot(a)].pushed_at)'
                                                  = Wrapped(position')]_vars
  BY StepKeepsAddresses
<1> QED
  BY <1>1, InitIInvTable, NextIInvTable, PTL DEF Spec, PresentAddressesKept
=============================================================================
