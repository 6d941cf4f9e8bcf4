------------------------------ MODULE CacheFeedProofs ------------------------------
(***************************************************************************)
(* Proofs about the way of a telegram into the shared cache: the stream of *)
(* messages it comes in, the process that reads it from knxd and pushes    *)
(* it, and the mutex and the condition variable under which it is pushed.  *)
(***************************************************************************)
EXTENDS CacheSync, CacheReader, EibdStream, SequenceTheorems, TLAPS

(***************************************************************************)
(* The safety of the shared cache's synchronisation, for every number of   *)
(* workers, pushes and kills.  The inductive invariant says who may own    *)
(* the mutex at which place of its code (Owned), what an owner that the    *)
(* kernel made one through pthread_cond_timedwait looks like (Inherited),  *)
(* and how far the copy of the entry is (Copied).                          *)
(***************************************************************************)

Types ==
  /\ owner \in Process \cup {Nobody}
  /\ mutex \in {"ok", "ownerdead", "notrecoverable"}
  /\ pc \in [Process -> ReaderPc \cup WorkerPc]
  /\ pc[Reader] \in ReaderPc /\ \A w \in Worker : pc[w] \in WorkerPc
  /\ gen_before \in [Worker -> Nat] /\ generation \in Nat
  /\ rc \in [Worker -> {"0", "timedout", "error"}]
  /\ thrown \subseteq Worker
  /\ torn \in BOOLEAN /\ unannounced \in BOOLEAN

\* A process that holds has the mutex, except that a wait also leaves without it
\* when the mutex is lost; and whoever has it holds, or a query of its own threw.
Owned ==
  /\ \A p \in Process : Holds(pc[p]) =>
       owner = p \/ (pc[p] = "leave" /\ mutex = "notrecoverable")
  /\ \A w \in thrown : owner = w /\ pc[w] = "idle"
  /\ mutex = "notrecoverable" => owner = Nobody
  /\ HeldOnlyInside

\* A mutex that has an owner and is still marked was taken by a waiter.
Inherited ==
  mutex = "ownerdead" /\ owner # Nobody =>
    owner \in Worker /\ pc[owner] = "leave" /\ rc[owner] = "error"

Copied ==
  /\ pc[Reader] = "copyValue" => stamp = position
  /\ pc[Reader] = "copyStamp" => value = position
  /\ pc[Reader] = "bump" => stamp = value
  /\ pc[Reader] \notin {"copyStamp", "copyValue"} => stamp = value \/ torn

SyncInv == Types /\ Owned /\ Inherited /\ Copied /\ NoLostWakeup

\* The state create() leaves satisfies the invariant.
LEMMA InitSyncInv == Init => SyncInv
<1> SUFFICES ASSUME Init PROVE SyncInv
  OBVIOUS
<1> USE SyncAssumption DEF Init, Process, ReaderPc, WorkerPc
<1>1. Types
  BY Zenon DEF Types
<1>2. Owned /\ Inherited /\ Copied
  BY DEF Owned, Inherited, Copied, HeldOnlyInside, Holds
<1>3. NoLostWakeup
  BY DEF NoLostWakeup
<1> QED
  BY <1>1, <1>2, <1>3 DEF SyncInv

\* The steps of a push.
LEMMA PushSyncInv == SyncInv /\ PushStep => SyncInv'
<1> SUFFICES ASSUME SyncInv, PushStep PROVE SyncInv'
  OBVIOUS
<1> USE SyncAssumption DEF SyncInv, Types, Owned, Inherited, Copied, NoLostWakeup,
        HeldOnlyInside, Holds, Process, ReaderPc, WorkerPc, Goto, mutexVars, dataVars,
        waitVars, ghostVars
<1>1. CASE PushLock
  BY <1>1 DEF PushLock, Lock
<1>2. CASE PushAdvance
  BY <1>2 DEF PushAdvance
<1>3. CASE PushCopyStamp
  BY <1>3 DEF PushCopyStamp
<1>4. CASE PushCopyValue
  BY <1>4 DEF PushCopyValue
<1>5. CASE PushBump
  <2>0. torn' \in BOOLEAN /\ unannounced' \in BOOLEAN
    BY <1>5, Zenon DEF PushBump
  <2>1. Types'
    BY <1>5, <2>0 DEF PushBump
  <2>2. Owned' /\ Inherited' /\ Copied'
    BY <1>5 DEF PushBump
  <2>3. NoLostWakeup'
    BY <1>5 DEF PushBump
  <2> QED
    BY <2>1, <2>2, <2>3
<1>6. CASE PushUnlock
  BY <1>6 DEF PushUnlock, Unlock
<1>7. CASE PushNotify
  BY <1>7, ZenonT(60) DEF PushNotify
<1> QED
  BY <1>1, <1>2, <1>3, <1>4, <1>5, <1>6, <1>7, Zenon DEF PushStep

\* The steps of a query.
LEMMA QuerySyncInv ==
  ASSUME SyncInv, NEW w \in Worker, QueryStep(w)
  PROVE  SyncInv'
<1> USE SyncAssumption DEF SyncInv, Types, Owned, Inherited, Copied, NoLostWakeup,
        HeldOnlyInside, Holds, Process, ReaderPc, WorkerPc, Goto, mutexVars, dataVars,
        waitVars, ghostVars
<1>1. CASE QueryLock(w)
  BY <1>1 DEF QueryLock, Lock
<1>2. CASE QueryUnlock(w)
  BY <1>2 DEF QueryUnlock, Unlock
<1>3. CASE QueryThrow(w)
  BY <1>3 DEF QueryThrow
<1> QED
  BY <1>1, <1>2, <1>3 DEF QueryStep

\* The steps of a wait.
LEMMA WaitSyncInv ==
  ASSUME SyncInv, NEW w \in Worker, WaitStep(w)
  PROVE  SyncInv'
<1> USE SyncAssumption DEF SyncInv, Types, Owned, Inherited, Copied, NoLostWakeup,
        HeldOnlyInside, Holds, Process, ReaderPc, WorkerPc, Goto, mutexVars, dataVars,
        waitVars, ghostVars
<1>1. CASE WaitLock(w)
  BY <1>1 DEF WaitLock, Lock
<1>2. CASE WaitEnter(w)
  BY <1>2 DEF WaitEnter
<1>3. CASE WaitLoop(w)
  BY <1>3 DEF WaitLoop, Unlock
<1>4. CASE WaitTimeout(w)
  BY <1>4 DEF WaitTimeout
<1>5. CASE WaitSpurious(w)
  BY <1>5 DEF WaitSpurious
<1>6. CASE WaitRelock(w)
  BY <1>6 DEF WaitRelock
<1>7. CASE WaitLeave(w)
  BY <1>7 DEF WaitLeave, Unlock
<1> QED
  BY <1>1, <1>2, <1>3, <1>4, <1>5, <1>6, <1>7, Zenon DEF WaitStep

\* A kill, wherever it strikes.
LEMMA KillSyncInv ==
  ASSUME SyncInv, NEW p \in Process, Kill(p)
  PROVE  SyncInv'
<1> USE SyncAssumption DEF SyncInv, Process, ReaderPc, WorkerPc, Goto, dataVars, waitVars, Kill
<1>1. Types'
  BY DEF Types
<1>2. Owned' /\ Inherited'
  BY DEF Types, Owned, Inherited, HeldOnlyInside, Holds
<1>3. Copied'
  BY Zenon DEF Types, Copied
<1>4. NoLostWakeup'
  BY Zenon DEF Types, NoLostWakeup
<1> QED
  BY <1>1, <1>2, <1>3, <1>4

\* Every step preserves the invariant.
LEMMA NextSyncInv == SyncInv /\ [Next]_vars => SyncInv'
<1> SUFFICES ASSUME SyncInv, [Next]_vars PROVE SyncInv'
  OBVIOUS
<1>1. CASE UNCHANGED vars
  BY <1>1 DEF vars, SyncInv, Types, Owned, Inherited, Copied, NoLostWakeup, HeldOnlyInside,
    Holds
<1> QED
  BY <1>1, PushSyncInv, QuerySyncInv, WaitSyncInv, KillSyncInv DEF Next

-----------------------------------------------------------------------------

\* No query of any worker reads an entry half written by a live push.
THEOREM EntriesReadWhole == Spec => []ReadsWholeEntry
<1>1. SyncInv => ReadsWholeEntry
  BY SyncAssumption DEF SyncInv, Types, Owned, Copied, ReadsWholeEntry, Holds, Process,
    ReaderPc, WorkerPc
<1> QED
  BY <1>1, InitSyncInv, NextSyncInv, PTL DEF Spec

\* No wakeup is lost, however many workers wait and whoever is killed.
THEOREM WakeupsNotLost == Spec => []NoLostWakeup
<1>1. SyncInv => NoLostWakeup
  BY DEF SyncInv
<1> QED
  BY <1>1, InitSyncInv, NextSyncInv, PTL DEF Spec

\* Outside the cache's methods only a worker whose query threw has the mutex.
THEOREM MutexHeldOnlyInside == Spec => []HeldOnlyInside
<1>1. SyncInv => HeldOnlyInside
  BY DEF SyncInv, Owned
<1> QED
  BY <1>1, InitSyncInv, NextSyncInv, PTL DEF Spec

\* Only a waiter that inherited the mutex of a dead process makes it unusable.
THEOREM MutexLostOnlyByWaiter == Spec => LostOnlyByWaiter
<1> DEFINE Lost == mutex # "notrecoverable" /\ mutex' = "notrecoverable"
           ByWaiter == \E w \in Worker : owner = w /\ pc[w] = "leave" /\ rc[w] = "error"
<1>1. SyncInv /\ [Next]_vars => (Lost => ByWaiter)
  <2> SUFFICES ASSUME SyncInv, [Next]_vars, Lost PROVE ByWaiter
    BY SMTT(30)
  <2>1. mutex = "ownerdead" /\ owner # Nobody
    BY SyncAssumption, Zenon DEF SyncInv, Types, Next, PushStep, QueryStep, WaitStep, PushLock,
      PushAdvance, PushCopyStamp, PushCopyValue, PushBump, PushUnlock, PushNotify, QueryLock,
      QueryUnlock, QueryThrow, WaitLock, WaitEnter, WaitLoop, WaitTimeout, WaitSpurious,
      WaitRelock, WaitLeave, Kill, Lock, Unlock, mutexVars, vars, Process
  <2> QED
    BY <2>1 DEF SyncInv, Inherited
<1> QED
  BY <1>1, InitSyncInv, NextSyncInv, PTL DEF Spec, LostOnlyByWaiter

-----------------------------------------------------------------------------
(***************************************************************************)
(* The cache reader.  What is read and what is still in the kernel are one *)
(* sequence, Pending, from which messages are taken at the head and to     *)
(* which the daemon appends; OrderInv says that the values pushed, then    *)
(* those pending, are in bus order.  SpinInv says how many iterations may  *)
(* have passed at each place of the loop.                                  *)
(***************************************************************************)

Pending == read_buffer_ \o inbox

\* The values among the messages of q are in bus order.
Rising(q) ==
  \A i, j \in DOMAIN q :
    (i < j /\ q[i].type = "value" /\ q[j].type = "value") => q[i].n < q[j].n

IsValue(q, n) == \E i \in DOMAIN q : q[i].type = "value" /\ q[i].n = n

OrderInv ==
  /\ bus \in 0..MaxTelegram
  /\ inbox \in Seq(Incoming) /\ read_buffer_ \in Seq(Incoming) /\ pushed \in Seq(Nat)
  /\ PushedInOrder /\ Rising(Pending)
  /\ \A i \in DOMAIN pushed :
       pushed[i] <= bus /\ \A n \in Nat : IsValue(Pending, n) => pushed[i] < n
  /\ \A n \in Nat : IsValue(Pending, n) => n <= bus

\* A message has a number.
LEMMA IncomingNumbers ==
  /\ \A m \in Incoming : m.n \in Nat
  /\ Reply \in Incoming /\ Reply.type # "value"
  /\ Refusal \in Incoming /\ Refusal.type # "value"
  /\ \A type \in {"value"} \cup Noise, n \in Telegram :
       Message(type, n) \in Incoming /\ Message(type, n).n = n
<1>1. \A type, n : Message(type, n).n = n /\ Message(type, n).type = type
  BY Zenon DEF Message
<1>2. Telegram \subseteq Nat
  BY ClientAssumption DEF Telegram
<1>3. \A m \in Incoming : m.n \in Nat
  BY <1>1, <1>2 DEF Incoming, Reply, Refusal
<1>4. /\ Reply \in Incoming /\ Reply.type # "value"
      /\ Refusal \in Incoming /\ Refusal.type # "value"
  BY <1>1 DEF Incoming, Reply, Refusal
<1>5. \A type \in {"value"} \cup Noise, n \in Telegram : Message(type, n) \in Incoming
  <2>1. {"value"} \cup Noise \subseteq {"value", "read", "unrelated"}
    BY ClientAssumption, Zenon
  <2> SUFFICES ASSUME NEW type \in {"value"} \cup Noise, NEW n \in Telegram
               PROVE  Message(type, n) \in Incoming
    BY Zenon
  <2>2. type \in {"value", "read", "unrelated"}
    BY <2>1, Zenon
  <2> QED
    BY <2>2 DEF Incoming
<1> QED
  BY <1>1, <1>3, <1>4, <1>5, Zenon

\* A message is appended that is no value, or one above those before it.
LEMMA AppendRising ==
  ASSUME NEW q \in Seq(Incoming), NEW m \in Incoming, Rising(q),
         m.type = "value" => \A n \in Nat : IsValue(q, n) => n < m.n
  PROVE  /\ Rising(Append(q, m))
         /\ \A n \in Nat : IsValue(Append(q, m), n) =>
                             IsValue(q, n) \/ (m.type = "value" /\ n = m.n)
<1> DEFINE r == Append(q, m)
           k == Len(q) + 1
<1>1. /\ Len(q) \in Nat /\ DOMAIN q = 1..Len(q) /\ DOMAIN r = 1..k
      /\ \A i \in 1..Len(q) : r[i] = q[i]
      /\ r[k] = m
  OBVIOUS
<1>2. \A i \in 1..Len(q) : q[i].n \in Nat
  BY IncomingNumbers
<1> HIDE DEF r
<1>3. \A i \in 1..k : i \in 1..Len(q) \/ i = k
  BY <1>1
<1>4. \A i \in 1..Len(q) : q[i].type = "value" => IsValue(q, q[i].n)
  BY <1>1, Zenon DEF IsValue
<1>5. ASSUME NEW i \in 1..k, NEW j \in 1..k, i < j, r[i].type = "value", r[j].type = "value"
      PROVE  r[i].n < r[j].n
  <2>1. i \in 1..Len(q)
    BY <1>1, <1>5
  <2>2. CASE j \in 1..Len(q)
    BY <1>1, <1>5, <2>1, <2>2, Zenon DEF Rising
  <2>3. CASE j = k
    BY <1>1, <1>2, <1>4, <1>5, <2>1, <2>3, Zenon
  <2> QED
    BY <1>3, <2>2, <2>3, Zenon
<1>6. Rising(r)
  BY <1>1, <1>5, Zenon DEF Rising
<1>7. \A n \in Nat : IsValue(r, n) => IsValue(q, n) \/ (m.type = "value" /\ n = m.n)
  BY <1>1, <1>3, Zenon DEF IsValue
<1> QED
  BY <1>6, <1>7, Zenon DEF r

\* The message at the head is taken: a value is below those behind it.
LEMMA TailRising ==
  ASSUME NEW q \in Seq(Incoming), q # <<>>, Rising(q)
  PROVE  /\ Head(q) \in Incoming /\ Tail(q) \in Seq(Incoming) /\ Rising(Tail(q))
         /\ \A n \in Nat : IsValue(Tail(q), n) => IsValue(q, n)
         /\ Head(q).type = "value" =>
              /\ Head(q).n \in Nat /\ IsValue(q, Head(q).n)
              /\ \A n \in Nat : IsValue(Tail(q), n) => Head(q).n < n
<1> DEFINE t == Tail(q)
           k == Len(q) - 1
<1>1. /\ Head(q) = q[1] /\ Head(q) \in Incoming /\ t \in Seq(Incoming)
      /\ Len(q) \in Nat \ {0} /\ DOMAIN q = 1..Len(q) /\ DOMAIN t = 1..k
      /\ \A i \in 1..k : t[i] = q[i + 1]
  OBVIOUS
<1> HIDE DEF t
<1>2. /\ 1 \in 1..Len(q)
      /\ \A i \in 1..k : i + 1 \in 1..Len(q) /\ 1 < i + 1
      /\ \A i, j \in 1..k : i < j => i + 1 < j + 1
  BY <1>1
<1>3. ASSUME NEW i \in 1..k, NEW j \in 1..k, i < j, t[i].type = "value", t[j].type = "value"
      PROVE  t[i].n < t[j].n
  <2>1. t[i] = q[i + 1] /\ t[j] = q[j + 1] /\ i + 1 < j + 1
        /\ i + 1 \in DOMAIN q /\ j + 1 \in DOMAIN q
    BY <1>1, <1>2, <1>3, Zenon
  <2> QED
    BY <1>3, <2>1, Zenon DEF Rising
<1>4. Rising(t)
  BY <1>1, <1>3, Zenon DEF Rising
<1>5. ASSUME NEW n \in Nat, IsValue(t, n)
      PROVE  IsValue(q, n) /\ (q[1].type = "value" => q[1].n < n)
  <2>1. PICK i \in 1..k : t[i].type = "value" /\ t[i].n = n
    BY <1>1, <1>5, Zenon DEF IsValue
  <2>2. q[i + 1].type = "value" /\ q[i + 1].n = n /\ i + 1 \in DOMAIN q /\ 1 < i + 1 /\ 1 \in DOMAIN q
    BY <1>1, <1>2, <2>1, Zenon
  <2> QED
    BY <2>2, Zenon DEF IsValue, Rising
<1>6. q[1].type = "value" => IsValue(q, q[1].n) /\ q[1].n \in Nat
  BY <1>1, <1>2, IncomingNumbers, Zenon DEF IsValue
<1> QED
  BY <1>1, <1>4, <1>5, <1>6, Zenon DEF t

\* Reading more into the buffer and taking its head takes the head of what is pending.
LEMMA PendingTail ==
  ASSUME inbox \in Seq(Incoming), read_buffer_ \in Seq(Incoming), NEW k \in ReadSizes
  PROVE  /\ Pending \in Seq(Incoming) /\ Pending # <<>>
         /\ Head(Buffered(k)) = Head(Pending)
         /\ Tail(Buffered(k)) \in Seq(Incoming) /\ Unread(k) \in Seq(Incoming)
         /\ Tail(Buffered(k)) \o Unread(k) = Tail(Pending)
<1>1. CASE read_buffer_ = <<>>
  <2>1. k \in 1..Len(inbox) /\ Len(inbox) \in Nat
    BY <1>1 DEF ReadSizes
  <2>2. Pending = inbox /\ Buffered(k) = SubSeq(inbox, 1, k)
    BY <1>1, <2>1 DEF Pending, Buffered
  <2>3. Head(SubSeq(inbox, 1, k)) = inbox[1] /\ Tail(SubSeq(inbox, 1, k)) = SubSeq(inbox, 2, k)
    BY <2>1
  <2>4. inbox # <<>> /\ Head(inbox) = inbox[1] /\ Tail(inbox) = SubSeq(inbox, 2, Len(inbox))
    BY <2>1
  <2>5. SubSeq(inbox, 2, k) \o SubSeq(inbox, k + 1, Len(inbox)) = SubSeq(inbox, 2, Len(inbox))
    <3>1. 2 \in 1..(Len(inbox) + 1) /\ k \in (2 - 1)..Len(inbox) /\ Len(inbox) \in k..Len(inbox)
      BY <2>1
    <3> QED
      BY <3>1, ConcatAdjacentSubSeq, Zenon
  <2>6. SubSeq(inbox, 2, k) \in Seq(Incoming) /\ SubSeq(inbox, k + 1, Len(inbox)) \in Seq(Incoming)
    BY <2>1
  <2> QED
    BY <2>2, <2>3, <2>4, <2>5, <2>6, Zenon DEF Unread
<1>2. CASE read_buffer_ # <<>>
  <2>1. k = 0
    BY <1>2, Zenon DEF ReadSizes
  <2>2. Buffered(k) = read_buffer_ /\ Unread(k) = inbox
    BY <2>1 DEF Buffered, Unread
  <2>3. /\ read_buffer_ \o inbox \in Seq(Incoming) /\ read_buffer_ \o inbox # <<>>
        /\ Head(read_buffer_ \o inbox) = Head(read_buffer_)
        /\ Tail(read_buffer_ \o inbox) = Tail(read_buffer_) \o inbox
        /\ Tail(read_buffer_) \in Seq(Incoming)
    BY <1>2
  <2> QED
    BY <2>2, <2>3, Zenon DEF Pending
<1> QED
  BY <1>1, <1>2, Zenon

\* A step that touches neither what is pending nor what was pushed.
LEMMA OrderKept ==
  ASSUME OrderInv, UNCHANGED <<inbox, read_buffer_, pushed, bus>>
  PROVE  OrderInv'
<1>1. Pending' = Pending
  BY Zenon DEF Pending
<1> QED
  BY <1>1, Zenon DEF OrderInv, PushedInOrder, Rising, IsValue

\* Everything pending is dropped.
LEMMA OrderDropped ==
  ASSUME OrderInv, inbox' = <<>>, read_buffer_' = <<>>, UNCHANGED <<pushed, bus>>
  PROVE  OrderInv'
<1>1. pushed' = pushed /\ bus' = bus
  BY Zenon
<1>2. /\ <<>> \in Seq(Incoming) /\ DOMAIN Pending' = {}
  BY DEF Pending
<1>3. Rising(Pending)' /\ \A n \in Nat : ~IsValue(Pending, n)'
  BY <1>2, Zenon DEF Rising, IsValue
<1> QED
  BY <1>1, <1>2, <1>3, Zenon DEF OrderInv, PushedInOrder

\* The daemon appends a message: a telegram of the bus, or its answer.
LEMMA OrderAppended ==
  ASSUME OrderInv, NEW m \in Incoming, inbox' = Append(inbox, m),
         UNCHANGED <<read_buffer_, pushed>>, bus' \in 0..MaxTelegram, bus <= bus',
         m.type = "value" => m.n = bus' /\ bus < bus'
  PROVE  OrderInv'
<1> USE ClientAssumption
<1>1. /\ inbox \in Seq(Incoming) /\ read_buffer_ \in Seq(Incoming) /\ pushed \in Seq(Nat)
      /\ bus \in Nat /\ bus' \in Nat /\ pushed' = pushed /\ read_buffer_' = read_buffer_
      /\ m.n \in Nat
  BY IncomingNumbers DEF OrderInv
<1>2. Pending' = Append(Pending, m) /\ Pending \in Seq(Incoming) /\ inbox' \in Seq(Incoming)
  BY <1>1 DEF Pending
<1>3. m.type = "value" => \A n \in Nat : IsValue(Pending, n) => n < m.n
  <2> SUFFICES ASSUME m.type = "value", NEW n \in Nat, IsValue(Pending, n) PROVE n < m.n
    BY Zenon
  <2>1. n <= bus
    BY Zenon DEF OrderInv
  <2> QED
    BY <1>1, <2>1
<1>4. /\ Rising(Pending')
      /\ \A n \in Nat : IsValue(Pending', n) => IsValue(Pending, n) \/ (m.type = "value" /\ n = m.n)
  BY <1>2, <1>3, AppendRising, Zenon DEF OrderInv
<1>5. ASSUME NEW n \in Nat, IsValue(Pending', n)
      PROVE  n <= bus' /\ \A i \in DOMAIN pushed : pushed[i] < n
  <2>1. \A i \in DOMAIN pushed : pushed[i] \in Nat
    BY <1>1
  <2>2. \A i \in DOMAIN pushed : pushed[i] <= bus
    BY Zenon DEF OrderInv
  <2>3. CASE IsValue(Pending, n)
    <3>1. n <= bus /\ \A i \in DOMAIN pushed : pushed[i] < n
      BY <2>3, Zenon DEF OrderInv
    <3> QED
      BY <1>1, <3>1
  <2>4. CASE m.type = "value" /\ n = m.n
    BY <1>1, <2>1, <2>2, <2>4
  <2> QED
    BY <1>4, <1>5, <2>3, <2>4, Zenon
<1>6. \A i \in DOMAIN pushed : pushed[i] <= bus'
  BY <1>1 DEF OrderInv
<1>7. PushedInOrder'
  BY <1>1, Zenon DEF OrderInv, PushedInOrder
<1>8. Rising(Pending)' /\ \A n \in Nat : IsValue(Pending, n)' <=> IsValue(Pending', n)
  BY <1>4, Zenon DEF Rising, IsValue
<1> QED
  BY <1>1, <1>2, <1>5, <1>6, <1>7, <1>8, Zenon DEF OrderInv

\* The head of what is pending is taken: pushed if it is a value, or let go.
LEMMA OrderTaken ==
  ASSUME OrderInv, NEW k \in ReadSizes, read_buffer_' = Tail(Buffered(k)), inbox' = Unread(k),
         UNCHANGED bus,
         \/ UNCHANGED pushed
         \/ Head(Buffered(k)).type = "value" /\ pushed' = Append(pushed, Head(Buffered(k)).n)
  PROVE  OrderInv'
<1> DEFINE m == Head(Pending)
<1>1. inbox \in Seq(Incoming) /\ read_buffer_ \in Seq(Incoming) /\ pushed \in Seq(Nat)
  BY Zenon DEF OrderInv
<1>2. /\ Pending \in Seq(Incoming) /\ Pending # <<>> /\ Head(Buffered(k)) = m
      /\ read_buffer_' \in Seq(Incoming) /\ inbox' \in Seq(Incoming)
      /\ read_buffer_' \o inbox' = Tail(Pending)
  BY <1>1, PendingTail, Zenon
<1>3. Pending' = Tail(Pending)
  BY <1>2, Zenon DEF Pending
<1>4. /\ m \in Incoming /\ Rising(Tail(Pending))
      /\ \A n \in Nat : IsValue(Tail(Pending), n) => IsValue(Pending, n)
      /\ m.type = "value" =>
           /\ m.n \in Nat /\ IsValue(Pending, m.n)
           /\ \A n \in Nat : IsValue(Tail(Pending), n) => m.n < n
  BY <1>2, TailRising, Zenon DEF OrderInv
<1> HIDE DEF m
<1>5. Rising(Pending)' /\ \A n \in Nat : IsValue(Pending, n)' <=> IsValue(Tail(Pending), n)
  BY <1>3, <1>4, Zenon DEF Rising, IsValue
<1>6. CASE UNCHANGED pushed
  <2>1. pushed' = pushed /\ bus' = bus
    BY <1>6, Zenon
  <2> QED
    BY <1>2, <1>4, <1>5, <2>1, Zenon DEF OrderInv, PushedInOrder
<1>7. CASE m.type = "value" /\ pushed' = Append(pushed, m.n)
  <2>1. m.n \in Nat /\ m.n <= bus /\ bus' = bus
    BY <1>4, <1>7, Zenon DEF OrderInv
  <2>2. /\ Len(pushed) \in Nat /\ DOMAIN pushed = 1..Len(pushed) /\ pushed' \in Seq(Nat)
        /\ DOMAIN pushed' = 1..(Len(pushed) + 1)
        /\ \A i \in 1..Len(pushed) : pushed'[i] = pushed[i]
        /\ pushed'[Len(pushed) + 1] = m.n
    BY <1>1, <1>7, <2>1
  <2>3. \A i \in 1..Len(pushed) : pushed[i] <= bus /\ pushed[i] < m.n
    BY <1>4, <1>7, <2>1, <2>2, Zenon DEF OrderInv
  <2>4. \A i \in 1..(Len(pushed) + 1) : i \in 1..Len(pushed) \/ i = Len(pushed) + 1
    BY <2>2
  <2>5. ASSUME NEW i \in 1..(Len(pushed) + 1), NEW j \in 1..(Len(pushed) + 1), i < j
        PROVE  pushed'[i] < pushed'[j]
    <3>1. i \in 1..Len(pushed)
      BY <2>2, <2>5
    <3>2. CASE j \in 1..Len(pushed)
      BY <2>2, <2>5, <3>1, <3>2, Zenon DEF OrderInv, PushedInOrder
    <3>3. CASE j = Len(pushed) + 1
      BY <2>2, <2>3, <3>1, <3>3, Zenon
    <3> QED
      BY <2>4, <3>2, <3>3, Zenon
  <2>6. PushedInOrder'
    BY <2>2, <2>5, Zenon DEF PushedInOrder
  <2>7. ASSUME NEW i \in DOMAIN pushed'
        PROVE  pushed'[i] <= bus' /\ \A n \in Nat : IsValue(Tail(Pending), n) => pushed'[i] < n
    <3>1. CASE i \in 1..Len(pushed)
      BY <1>4, <2>1, <2>2, <3>1, Zenon DEF OrderInv
    <3>2. CASE i = Len(pushed) + 1
      BY <1>4, <1>7, <2>1, <2>2, <3>2, Zenon
    <3> QED
      BY <2>2, <2>4, <2>7, <3>1, <3>2, Zenon
  <2> QED
    BY <1>2, <1>4, <1>5, <2>1, <2>2, <2>6, <2>7, Zenon DEF OrderInv
<1> QED
  BY <1>2, <1>6, <1>7, Zenon

\* The steps of the link.
LEMMA LinkOrder ==
  ASSUME OrderInv, LinkStep, UNCHANGED pushed
  PROVE  OrderInv'
<1>1. CASE ConnectOk \/ ConnectFails
  BY <1>1, OrderKept, Zenon DEF ConnectOk, ConnectFails, daemonVars
<1>2. CASE OpenSend
  <2>1. CASE UNCHANGED <<inbox, read_buffer_, bus>>
    BY <2>1, OrderKept, Zenon
  <2>2. CASE Disconnected /\ UNCHANGED bus
    BY <2>2, OrderDropped, Zenon DEF Disconnected
  <2> QED
    BY <1>2, <2>1, <2>2, Zenon DEF OpenSend, daemonVars
<1>3. CASE OpenTimeout
  BY <1>3, OrderDropped, Zenon DEF OpenTimeout, Disconnected, daemonVars
<1>4. ASSUME NEW k \in 0..Len(inbox), OpenReply(k)
      PROVE  OrderInv'
  BY <1>4, OrderTaken, Zenon DEF OpenReply, daemonVars
<1>5. ASSUME NEW k \in 0..Len(inbox), OpenRefused(k)
      PROVE  OrderInv'
  BY <1>5, OrderDropped, Zenon DEF OpenRefused, Disconnected, daemonVars
<1> QED
  BY <1>1, <1>2, <1>3, <1>4, <1>5, Zenon DEF LinkStep

\* The steps of the daemon.
LEMMA DaemonOrder ==
  ASSUME OrderInv, DaemonStep, UNCHANGED pushed
  PROVE  OrderInv'
<1> USE ClientAssumption
<1>1. bus \in 0..MaxTelegram /\ bus \in Nat /\ bus <= bus
  BY DEF OrderInv
<1>2. CASE DaemonDies \/ DaemonHangs \/ DaemonRecovers
  BY <1>2, OrderKept, Zenon DEF DaemonDies, DaemonHangs, DaemonRecovers, linkVars
<1>3. CASE DaemonOpens \/ DaemonRefuses
  <2>1. /\ bus' = bus /\ UNCHANGED <<read_buffer_, pushed>>
        /\ inbox' = Append(inbox, Reply) \/ inbox' = Append(inbox, Refusal)
    BY <1>3, Zenon DEF DaemonOpens, DaemonRefuses, daemonVars
  <2>2. bus' \in 0..MaxTelegram /\ bus <= bus'
    BY <1>1, <2>1, Zenon
  <2> QED
    BY <2>1, <2>2, IncomingNumbers, OrderAppended, Zenon
<1>4. ASSUME NEW type \in {"value"} \cup Noise, BusTelegram(type)
      PROVE  OrderInv'
  <2>1. bus' \in Telegram /\ bus' \in 0..MaxTelegram /\ bus < bus' /\ bus <= bus'
    BY <1>1, <1>4 DEF BusTelegram, Telegram
  <2>2. UNCHANGED <<read_buffer_, pushed>>
    BY <1>4, Zenon DEF BusTelegram
  <2>3. CASE peer = "read_write"
    <3>1. inbox' = Append(inbox, Message(type, bus'))
      BY <1>4, <2>3, Zenon DEF BusTelegram
    <3>2. Message(type, bus') \in Incoming /\ Message(type, bus').n = bus'
      BY <2>1, IncomingNumbers, Zenon
    <3> QED
      BY <2>1, <2>2, <3>1, <3>2, OrderAppended, Zenon
  <2>4. CASE peer # "read_write"
    <3>1. inbox' = inbox /\ read_buffer_' = read_buffer_ /\ pushed' = pushed
      BY <1>4, <2>4, Zenon DEF BusTelegram
    <3>2. Pending' = Pending
      BY <3>1, Zenon DEF Pending
    <3>3. \A n \in Nat : n <= bus => n <= bus'
      BY <1>1, <2>1
    <3>4. pushed \in Seq(Nat)
      BY Zenon DEF OrderInv
    <3>5. \A i \in DOMAIN pushed : pushed[i] \in Nat
      BY <3>4
    <3>6. Rising(Pending)' /\ \A n \in Nat : IsValue(Pending, n)' <=> IsValue(Pending, n)
      BY <3>2, Zenon DEF OrderInv, Rising, IsValue
    <3> QED
      BY <2>1, <3>1, <3>3, <3>5, <3>6, Zenon DEF OrderInv, PushedInOrder
  <2> QED
    BY <2>3, <2>4, Zenon
<1> QED
  BY <1>2, <1>3, <1>4, Zenon DEF DaemonStep, Fault

\* The steps of the reader.
LEMMA ReaderOrder ==
  ASSUME OrderInv, ReaderStep
  PROVE  OrderInv'
<1>1. CASE Connect \/ Reconnect \/ ConnectFailed \/ WaitError
  <2>1. inbox' = <<>> /\ read_buffer_' = <<>> /\ UNCHANGED <<pushed, bus>>
    BY <1>1, Zenon DEF Connect, Reconnect, ConnectFailed, WaitError, Establish, Disconnected, daemonVars
  <2> QED
    BY <2>1, OrderDropped, Zenon
<1>2. CASE \/ Connected \/ Backoff \/ WaitData \/ WaitIdle \/ DrainEmpty \/ DrainEnds
           \/ Reconnected \/ RetryEmpty
  <2>1. UNCHANGED <<inbox, read_buffer_, pushed, bus>>
    BY <1>2, Zenon DEF Connected, Backoff, WaitData, WaitIdle, DrainEmpty, DrainEnds,
                Reconnected, RetryEmpty, daemonVars, linkVars
  <2> QED
    BY <2>1, OrderKept, Zenon
<1>3. ASSUME NEW k \in 0..Len(inbox), DrainMessage(k)
      PROVE  OrderInv'
  <2>1. /\ k \in ReadSizes /\ read_buffer_' = Tail(Buffered(k)) /\ inbox' = Unread(k)
        /\ UNCHANGED bus
        /\ \/ UNCHANGED pushed
           \/ Head(Buffered(k)).type = "value" /\ pushed' = Append(pushed, Head(Buffered(k)).n)
    BY <1>3, Zenon DEF DrainMessage, daemonVars
  <2> QED
    BY <2>1, OrderTaken, Zenon
<1> QED
  BY <1>1, <1>2, <1>3, Zenon DEF ReaderStep

\* OrderInv is an invariant.
LEMMA OrderInvariant == ReaderSpec => []OrderInv
<1>1. ReaderInit => OrderInv
  <2> SUFFICES ASSUME ReaderInit PROVE OrderInv
    BY Zenon
  <2>1. inbox = <<>> /\ read_buffer_ = <<>> /\ pushed = <<>> /\ bus = 0
    BY Zenon DEF ReaderInit, LinkInit
  <2>2. /\ Pending = <<>> /\ DOMAIN Pending = {} /\ DOMAIN pushed = {} /\ bus \in 0..MaxTelegram
        /\ <<>> \in Seq(Incoming) /\ <<>> \in Seq(Nat)
    BY <2>1, ClientAssumption DEF Pending
  <2> QED
    BY <2>1, <2>2, Zenon DEF OrderInv, PushedInOrder, Rising, IsValue
<1>2. OrderInv /\ [ReaderNext]_cacheReaderVars => OrderInv'
  <2> SUFFICES ASSUME OrderInv, [ReaderNext]_cacheReaderVars PROVE OrderInv'
    BY Zenon
  <2>1. CASE LinkStep /\ UNCHANGED readerVars
    BY <2>1, LinkOrder, Zenon DEF readerVars
  <2>2. CASE DaemonStep /\ UNCHANGED readerVars
    BY <2>2, DaemonOrder, Zenon DEF readerVars
  <2>3. CASE UNCHANGED cacheReaderVars
    BY <2>3, OrderKept, Zenon DEF cacheReaderVars, readerVars, linkVars, daemonVars
  <2> QED
    BY <2>1, <2>2, <2>3, ReaderOrder, Zenon DEF ReaderNext
<1> QED
  BY <1>1, <1>2, PTL DEF ReaderSpec

\* What the reader's loop keeps: no call is in progress but where it waits for one,
\* and it has counted iterations only where it goes on to block, to sleep or to take
\* a message that is there.
SpinInv ==
  /\ spins \in Nat
  /\ call # "idle" => place \in {"connecting", "reconnecting"}
  /\ spins > 0 =>
       \/ place = "loop" /\ connected /\ spins <= 1
       \/ place = "connecting" /\ spins <= 1
       \/ place = "backoff" /\ spins <= 2
       \/ place = "drain" /\ spins <= 2 /\ ~(inbox = <<>> /\ read_buffer_ = <<>>)

\* The daemon takes nothing back.
LEMMA DaemonKeepsMessages ==
  ASSUME OrderInv, DaemonStep
  PROVE  /\ call' = call
         /\ (inbox' = <<>> /\ read_buffer_' = <<>>) => (inbox = <<>> /\ read_buffer_ = <<>>)
<1>1. inbox \in Seq(Incoming)
  BY Zenon DEF OrderInv
<1>2. \A m \in Incoming : Append(inbox, m) # <<>>
  BY <1>1, AppendProperties, Zenon
<1>3. CASE DaemonDies \/ DaemonHangs \/ DaemonRecovers
  BY <1>3, Zenon DEF DaemonDies, DaemonHangs, DaemonRecovers, linkVars
<1>4. CASE DaemonOpens \/ DaemonRefuses
  BY <1>2, <1>4, IncomingNumbers, Zenon DEF DaemonOpens, DaemonRefuses
<1>5. ASSUME NEW type \in {"value"} \cup Noise, BusTelegram(type)
      PROVE  /\ call' = call
             /\ (inbox' = <<>> /\ read_buffer_' = <<>>) => (inbox = <<>> /\ read_buffer_ = <<>>)
  <2>1. bus' \in Telegram
    BY <1>5, ClientAssumption DEF BusTelegram, Telegram, OrderInv
  <2>2. Append(inbox, Message(type, bus')) # <<>>
    BY <1>2, <2>1, IncomingNumbers, Zenon
  <2> QED
    BY <1>5, <2>2, Zenon DEF BusTelegram
<1> QED
  BY <1>3, <1>4, <1>5, Zenon DEF DaemonStep, Fault

\* The reader counts, blocks, sleeps or takes a message.
LEMMA ReaderSpins ==
  ASSUME SpinInv, ReaderStep
  PROVE  SpinInv'
<1> USE DEF SpinInv, Spin, MaxSpins
<1>1. CASE Connect
  BY <1>1 DEF Connect
<1>2. CASE Connected
  BY <1>2, Zenon DEF Connected
<1>3. CASE ConnectFailed
  BY <1>3 DEF ConnectFailed
<1>4. CASE Backoff
  BY <1>4 DEF Backoff, linkVars
<1>5. CASE WaitError
  BY <1>5 DEF WaitError
<1>6. CASE WaitData
  BY <1>6 DEF WaitData, linkVars
<1>7. CASE WaitIdle
  BY <1>7 DEF WaitIdle, linkVars
<1>8. CASE DrainEmpty
  BY <1>8, Zenon DEF DrainEmpty, linkVars
<1>9. CASE DrainEnds
  BY <1>9, Zenon DEF DrainEnds, linkVars
<1>10. CASE Reconnect
  BY <1>10, Zenon DEF Reconnect
<1>11. CASE Reconnected
  BY <1>11, Zenon DEF Reconnected
<1>12. CASE RetryEmpty
  BY <1>12, Zenon DEF RetryEmpty, linkVars
<1>13. ASSUME NEW k \in 0..Len(inbox), DrainMessage(k)
       PROVE  SpinInv'
  <2>1. spins' = 0 /\ call' = call /\ place \in {"drain", "retry"}
    BY <1>13, Zenon DEF DrainMessage
  <2> QED
    BY <2>1
<1> QED
  BY <1>1, <1>2, <1>3, <1>4, <1>5, <1>6, <1>7, <1>8, <1>9, <1>10, <1>11, <1>12, <1>13,
     Zenon DEF ReaderStep

\* SpinInv is an invariant.
LEMMA SpinInvariant == ReaderSpec => []SpinInv
<1>1. ReaderInit => SpinInv
  BY DEF ReaderInit, LinkInit, SpinInv
<1>2. OrderInv /\ SpinInv /\ [ReaderNext]_cacheReaderVars => SpinInv'
  <2> SUFFICES ASSUME OrderInv, SpinInv, [ReaderNext]_cacheReaderVars PROVE SpinInv'
    BY Zenon
  <2>1. CASE LinkStep /\ UNCHANGED readerVars
    <3>1. call # "idle" /\ place' = place /\ spins' = spins /\ connected' = connected
      BY <2>1, Zenon DEF LinkStep, ConnectOk, ConnectFails, OpenSend, OpenTimeout, OpenReply,
                         OpenRefused, readerVars
    <3> QED
      BY <3>1, Zenon DEF SpinInv
  <2>2. CASE DaemonStep /\ UNCHANGED readerVars
    <3>1. place' = place /\ spins' = spins /\ connected' = connected
      BY <2>2, Zenon DEF readerVars
    <3> QED
      BY <2>2, <3>1, DaemonKeepsMessages, Zenon DEF SpinInv
  <2>3. CASE UNCHANGED cacheReaderVars
    BY <2>3, Zenon DEF cacheReaderVars, readerVars, linkVars, SpinInv
  <2> QED
    BY <2>1, <2>2, <2>3, ReaderSpins, Zenon DEF ReaderNext
<1> QED
  BY <1>1, <1>2, OrderInvariant, PTL DEF ReaderSpec

\* Whatever dies, hangs or comes in pieces, run_cache_reader pushes the telegrams in
\* the order of the bus and none twice.
THEOREM CacheFedInOrder == ReaderSpec => []PushedInOrder
<1>1. OrderInv => PushedInOrder
  BY Zenon DEF OrderInv
<1> QED
  BY <1>1, OrderInvariant, PTL

\* The loop of run_cache_reader never goes round three times without blocking in
\* poll, sleeping or taking a message.
THEOREM ReaderNeverSpins == ReaderSpec => []NeverBusyLoops
<1>1. SpinInv => NeverBusyLoops
  BY DEF SpinInv, NeverBusyLoops, MaxSpins
<1> QED
  BY <1>1, SpinInvariant, PTL

(***************************************************************************)
(* The read buffer never overflows, so no byte of the stream is lost, for  *)
(* every cut of the stream and every size of the constants.                *)
(***************************************************************************)

\* What the buffer holds after a read: less than a message, and one chunk.
BufferBounded == Len(buffer) <= (B * B) + Chunk

StreamInv == StreamTypeOK /\ BytesConserved /\ BufferBounded

-----------------------------------------------------------------------------
\* A remainder is a byte.
LEMMA Remainder ==
  ASSUME NEW a \in Int
  PROVE  a % B \in Byte
<1>1. B \in Nat \ {0}
  BY StreamAssumption
<1> QED  BY <1>1 DEF Byte

\* A message on the wire is a sequence of bytes.
LEMMA FrameType ==
  ASSUME NEW m \in Messages
  PROVE  build_eibd_message(m.type, m.data) \in Seq(Byte)
<1>1. m.type \in Int /\ m.data \in Seq(Byte)
  BY StreamAssumption
<1>2. B \in Nat \ {0}
  BY StreamAssumption
<1> DEFINE n == 2 + Len(m.data)
<1>3. n \in Int /\ n \div B \in Int /\ m.type \div B \in Int
  BY <1>1, <1>2
<1> HIDE DEF n
<1>4. /\ (n \div B) % B \in Byte /\ n % B \in Byte
      /\ (m.type \div B) % B \in Byte /\ m.type % B \in Byte
  BY <1>1, <1>3, Remainder
<1>5. <<(n \div B) % B, n % B, (m.type \div B) % B, m.type % B>> \in Seq(Byte)
  BY <1>4
<1>6. build_eibd_message(m.type, m.data)
        = <<(n \div B) % B, n % B, (m.type \div B) % B, m.type % B>> \o m.data
  BY DEF build_eibd_message, n
<1> QED  BY <1>1, <1>5, <1>6

\* The largest length that two bytes can say.
LEMMA LengthBound ==
  ASSUME NEW x \in Byte, NEW y \in Byte
  PROVE  (x * B) + y \in Nat /\ (x * B) + y <= (B * B) - 1
<1>1. B \in Nat \ {0} /\ x \in 0..(B - 1) /\ y \in 0..(B - 1)
  BY StreamAssumption DEF Byte
<1>2. x * B <= (B - 1) * B /\ x * B \in Nat
  BY <1>1
<1>3. (B - 1) * B = (B * B) - B
  BY <1>1
<1> QED  BY <1>1, <1>2, <1>3

\* While no message is complete the buffer is short.
LEMMA IncompleteIsShort ==
  ASSUME NEW buf \in Seq(Byte), ~Complete(buf)
  PROVE  Len(buf) <= B * B
<1>1. B \in Nat \ {0, 1} /\ B * B \in Nat /\ B * B >= 2
  <2>1. B \in Nat \ {0, 1}
    BY StreamAssumption
  <2>2. B * B >= 2 * B
    BY <2>1
  <2> QED  BY <2>1, <2>2
<1>2. CASE Len(buf) < 2
  BY <1>1, <1>2
<1>3. CASE ~(Len(buf) < 2)
  <2>1. buf[1] \in Byte /\ buf[2] \in Byte
    BY <1>3
  <2>2. payload_len(buf) \in Nat /\ payload_len(buf) <= (B * B) - 1
    BY <2>1, LengthBound, SMTT(30) DEF payload_len
  <2>3. Len(buf) < 2 + payload_len(buf)
    BY <1>3, <2>2 DEF Complete
  <2> QED  BY <1>1, <2>2, <2>3
<1> QED  BY <1>2, <1>3

\* Cutting a sequence in two and joining it again.
LEMMA CutAndJoin ==
  ASSUME NEW S, NEW s \in Seq(S), NEW n \in 0..Len(s)
  PROVE  /\ SubSeq(s, 1, n) \in Seq(S) /\ SubSeq(s, n + 1, Len(s)) \in Seq(S)
         /\ SubSeq(s, 1, n) \o SubSeq(s, n + 1, Len(s)) = s
         /\ Len(SubSeq(s, 1, n)) = n
<1>1. /\ Len(s) \in Nat /\ n \in Nat /\ n <= Len(s)
      /\ 1 \in 1..(Len(s) + 1) /\ n \in (1 - 1)..Len(s) /\ Len(s) \in n..Len(s)
  OBVIOUS
<1>2. SubSeq(s, 1, n) \o SubSeq(s, n + 1, Len(s)) = SubSeq(s, 1, Len(s))
  BY <1>1, ConcatAdjacentSubSeq, Zenon
<1>3. SubSeq(s, 1, Len(s)) = s
  BY SubSeqFull
<1>4. SubSeq(s, 1, n) \in Seq(S) /\ Len(SubSeq(s, 1, n)) = n
  BY <1>1
<1>5. SubSeq(s, n + 1, Len(s)) \in Seq(S)
  BY <1>1
<1> QED  BY <1>2, <1>3, <1>4, <1>5, Zenon

\* Concatenation is associative.
LEMMA Associative ==
  ASSUME NEW p \in Seq(Byte), NEW q \in Seq(Byte), NEW r \in Seq(Byte)
  PROVE  (p \o q) \o r = p \o (q \o r)
BY ConcatAssociative, SMTT(30)

-----------------------------------------------------------------------------
\* Initially nothing was sent.
LEMMA StreamInitInv == StreamInit => StreamInv
<1>1. B * B \in Nat /\ Chunk \in Nat
  BY StreamAssumption
<1> QED  BY <1>1 DEF StreamInit, StreamInv, StreamTypeOK, BytesConserved, BufferBounded

\* Sending appends the same bytes to the stream and to the wire.
LEMMA SendInv ==
  ASSUME StreamInv, NEW m \in Messages, Send(m)
  PROVE  StreamInv'
<1> DEFINE f == build_eibd_message(m.type, m.data)
<1>1. f \in Seq(Byte)
  BY FrameType
<1>2. /\ wire' = wire \o f /\ stream' = stream \o f
      /\ buffer' = buffer /\ taken' = taken
  BY DEF Send
<1> HIDE DEF f
<1>3. /\ wire \in Seq(Byte) /\ buffer \in Seq(Byte) /\ stream \in Seq(Byte)
      /\ taken \in Seq(Byte) /\ taken \o buffer \in Seq(Byte)
  BY DEF StreamInv, StreamTypeOK
<1>4. StreamTypeOK'
  BY <1>1, <1>2, <1>3 DEF StreamTypeOK
<1>5. ((taken \o buffer) \o wire) \o f = (taken \o buffer) \o (wire \o f)
  BY <1>1, <1>3, Associative, ZenonT(60)
<1>6. BytesConserved'
  BY <1>2, <1>5 DEF StreamInv, BytesConserved
<1>7. BufferBounded'
  BY <1>2 DEF StreamInv, BufferBounded
<1> QED  BY <1>4, <1>6, <1>7 DEF StreamInv

\* Reading moves bytes from the wire to the end of the buffer, and trims nothing.
LEMMA ReadInv ==
  ASSUME StreamInv, NEW n \in 1..Chunk, ReadSome(n)
  PROVE  StreamInv'
<1>1. /\ wire \in Seq(Byte) /\ buffer \in Seq(Byte) /\ stream \in Seq(Byte)
      /\ taken \in Seq(Byte) /\ taken \o buffer \in Seq(Byte)
  BY DEF StreamInv, StreamTypeOK
<1>2. /\ B * B \in Nat /\ Chunk \in Nat \ {0} /\ kMaxReadBufferSize \in Nat
      /\ kMaxReadBufferSize >= (B * B) + Chunk
  BY StreamAssumption
<1>3. Len(buffer) \in Nat /\ Len(buffer) <= B * B
  BY <1>1, IncompleteIsShort DEF ReadSome
<1>4. Len(buffer) + n - kMaxReadBufferSize <= 0
  BY <1>2, <1>3
<1>5. Kept(n) = buffer
  BY <1>4 DEF Kept
<1>6. n \in 0..Len(wire)
  BY <1>1, <1>2 DEF ReadSome
<1>7. PICK h \in Seq(Byte), t \in Seq(Byte) :
        /\ h = SubSeq(wire, 1, n) /\ t = SubSeq(wire, n + 1, Len(wire))
        /\ h \o t = wire /\ Len(h) = n
  BY <1>1, <1>6, CutAndJoin, Zenon
<1>8. /\ buffer' = buffer \o h /\ wire' = t /\ taken' = taken /\ stream' = stream
  BY <1>5, <1>7 DEF ReadSome
<1>9. StreamTypeOK'
  BY <1>1, <1>7, <1>8 DEF StreamTypeOK
<1>10. (taken \o (buffer \o h)) \o t = (taken \o buffer) \o (h \o t)
  <2> DEFINE P == taken
  <2> DEFINE Q == buffer
  <2>1. P \in Seq(Byte) /\ Q \in Seq(Byte)
    BY <1>1
  <2>2. h \in Seq(Byte) /\ t \in Seq(Byte)
    OBVIOUS
  <2> HIDE DEF P, Q
  <2>3. P \o (Q \o h) = (P \o Q) \o h
    BY <2>1, <2>2, Associative, ZenonT(60)
  <2>4. P \o Q \in Seq(Byte)
    BY <2>1
  <2>5. ((P \o Q) \o h) \o t = (P \o Q) \o (h \o t)
    BY <2>2, <2>4, Associative, SMTT(30)
  <2> QED  BY <2>3, <2>5 DEF P, Q
<1>11. BytesConserved'
  BY <1>7, <1>8, <1>10, Zenon DEF StreamInv, BytesConserved
<1>12. BufferBounded'
  <2>1. Len(buffer \o h) = Len(buffer) + Len(h)
    BY <1>1, <1>7, ConcatProperties
  <2> QED  BY <2>1, <1>2, <1>3, <1>7, <1>8 DEF BufferBounded
<1> QED  BY <1>9, <1>11, <1>12 DEF StreamInv

\* Extracting moves a whole message from the front of the buffer.
LEMMA ExtractInv ==
  ASSUME StreamInv, Extract
  PROVE  StreamInv'
<1>1. /\ wire \in Seq(Byte) /\ buffer \in Seq(Byte) /\ stream \in Seq(Byte)
      /\ taken \in Seq(Byte)
  BY DEF StreamInv, StreamTypeOK
<1>2. Len(buffer) >= 2
  BY DEF Extract, Complete
<1>3. buffer[1] \in Byte /\ buffer[2] \in Byte
  BY <1>1, <1>2
<1>4. payload_len(buffer) \in Nat
  BY <1>3, LengthBound DEF payload_len
<1>5. PICK n \in Nat : n = 2 + payload_len(buffer)
  BY <1>4
<1>6. n \in 0..Len(buffer) /\ n + 1 = 3 + payload_len(buffer)
  BY <1>1, <1>4, <1>5 DEF Extract, Complete
<1> DEFINE h == SubSeq(buffer, 1, n)  t == SubSeq(buffer, n + 1, Len(buffer))
<1>7. h \in Seq(Byte) /\ t \in Seq(Byte) /\ h \o t = buffer
  BY <1>1, <1>6, CutAndJoin, Zenon
<1>8. buffer' = t /\ taken' = taken \o h /\ wire' = wire /\ stream' = stream
  BY <1>5, <1>6, Zenon DEF Extract, Front, Rest
<1>9. Len(t) <= Len(buffer) /\ Len(t) \in Nat /\ Len(buffer) \in Nat
  BY <1>1, <1>6
<1> HIDE DEF h, t
<1>10. StreamTypeOK'
  BY <1>1, <1>7, <1>8 DEF StreamTypeOK
<1>11. (taken \o h) \o t = taken \o buffer
  BY <1>1, <1>7, Associative, ZenonT(60)
<1>12. BytesConserved'
  BY <1>8, <1>11 DEF StreamInv, BytesConserved
<1>13. BufferBounded'
  <2>1. B * B \in Nat /\ Chunk \in Nat
    BY StreamAssumption
  <2> QED  BY <2>1, <1>8, <1>9 DEF StreamInv, BufferBounded
<1> QED  BY <1>10, <1>12, <1>13 DEF StreamInv

\* The invariant holds throughout.
LEMMA StreamInvariant == StreamSpec => []StreamInv
<1>1. ASSUME StreamInv, UNCHANGED streamVars PROVE StreamInv'
  BY <1>1 DEF streamVars, StreamInv, StreamTypeOK, BytesConserved, BufferBounded
<1>2. StreamInv /\ [StreamNext]_streamVars => StreamInv'
  BY <1>1, SendInv, ReadInv, ExtractInv DEF StreamNext
<1> QED  BY <1>2, StreamInitInv, PTL DEF StreamSpec

\* Every byte sent is extracted, buffered or still on the wire, in order: the trim
\* in read_some is never reached, whatever the sizes of messages and reads.
THEOREM StreamConserved == StreamSpec => []BytesConserved
<1>1. StreamInv => BytesConserved
  BY DEF StreamInv
<1> QED  BY <1>1, StreamInvariant, PTL

\* The read buffer stays below kMaxReadBufferSize.
THEOREM ReadBufferBounded == StreamSpec => []BufferBounded
<1>1. StreamInv => BufferBounded
  BY DEF StreamInv
<1> QED  BY <1>1, StreamInvariant, PTL

-----------------------------------------------------------------------------
===============================================================================
