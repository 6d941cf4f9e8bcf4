---------------------------- MODULE WriteHandlerProofs ----------------------------
(***************************************************************************)
(* Proofs about the write handler and its knxd client, for any number of   *)
(* requests, addresses, faults and telegrams.  OnceInv follows every packet *)
(* from the outbox or a closed connection to the bus: it is in one of these *)
(* places and in it once.  ModeInv says that after the first write-only    *)
(* request every connection is one, and RequestInv what the request in hand *)
(* has sent so far.                                                        *)
(***************************************************************************)
EXTENDS WriteHandler, SequenceTheorems, TLAPS

\* A sequence without repetitions stays one when a new element is appended.
LEMMA AppendOnce ==
  ASSUME NEW S, NEW q \in Seq(S), NEW e \in S, IsInjective(q), e \notin Range(q)
  PROVE  /\ Append(q, e) \in Seq(S) /\ IsInjective(Append(q, e))
         /\ Range(Append(q, e)) = Range(q) \cup {e}
<1> DEFINE r == Append(q, e)
<1>1. /\ r \in Seq(S) /\ Len(r) = Len(q) + 1 /\ Len(q) \in Nat
      /\ \A i \in 1..Len(q) : r[i] = q[i]
      /\ r[Len(q) + 1] = e
  OBVIOUS
<1> HIDE DEF r
<1>2. DOMAIN r = 1..(Len(q) + 1) /\ DOMAIN q = 1..Len(q)
  BY <1>1
<1>3. \A i \in 1..(Len(q) + 1) : i \in 1..Len(q) \/ i = Len(q) + 1
  BY <1>1
<1>4. Range(r) = Range(q) \cup {e}
  <2>1. \A i \in 1..Len(q) : i \in 1..(Len(q) + 1)
    BY <1>1
  <2>2. Len(q) + 1 \in 1..(Len(q) + 1)
    BY <1>1
  <2> QED
    BY <1>1, <1>2, <1>3, <2>1, <2>2, Zenon DEF Range
<1>5. \A i \in 1..Len(q) : r[i] # e
  BY <1>1, <1>2, Zenon DEF Range
<1>6. IsInjective(r)
  <2> SUFFICES ASSUME NEW i \in 1..(Len(q) + 1), NEW j \in 1..(Len(q) + 1), r[i] = r[j]
               PROVE  i = j
    BY <1>2, Zenon DEF IsInjective
  <2> QED
    BY <1>1, <1>2, <1>3, <1>5, Zenon DEF IsInjective
<1> QED
  BY <1>1, <1>4, <1>6, Zenon DEF r

\* So it does when its head is taken off, which does not occur in it again.
LEMMA TailOnce ==
  ASSUME NEW S, NEW q \in Seq(S), q # <<>>, IsInjective(q)
  PROVE  /\ Head(q) \in Range(q) /\ Head(q) \in S
         /\ Tail(q) \in Seq(S) /\ IsInjective(Tail(q))
         /\ Range(Tail(q)) = Range(q) \ {Head(q)}
<1> DEFINE t == Tail(q)
<1>1. /\ t \in Seq(S) /\ Len(t) = Len(q) - 1 /\ Len(q) \in Nat \ {0} /\ Head(q) = q[1]
      /\ \A i \in 1..Len(t) : t[i] = q[i + 1]
  OBVIOUS
<1> HIDE DEF t
<1>2. DOMAIN t = 1..(Len(q) - 1) /\ DOMAIN q = 1..Len(q) /\ 1 \in 1..Len(q)
  BY <1>1
<1>3. Head(q) \in Range(q) /\ Head(q) \in S
  BY <1>1, <1>2 DEF Range
<1>4. /\ \A i \in 1..(Len(q) - 1) : i + 1 \in 1..Len(q) /\ i + 1 # 1 /\ t[i] = q[i + 1]
      /\ \A i \in 1..Len(q) : i # 1 => i - 1 \in 1..(Len(q) - 1) /\ t[i - 1] = q[i]
      /\ \A i, j \in 1..(Len(q) - 1) : i + 1 = j + 1 => i = j
  BY <1>1
<1>5. \A i, j \in 1..Len(q) : q[i] = q[j] => i = j
  BY <1>2, Zenon DEF IsInjective
<1>6. IsInjective(t)
  <2> SUFFICES ASSUME NEW i \in 1..(Len(q) - 1), NEW j \in 1..(Len(q) - 1), t[i] = t[j]
               PROVE  i = j
    BY <1>2, Zenon DEF IsInjective
  <2>1. i + 1 \in 1..Len(q) /\ j + 1 \in 1..Len(q) /\ q[i + 1] = q[j + 1]
    BY <1>4, Zenon
  <2>2. i + 1 = j + 1
    BY <1>5, <2>1, Zenon
  <2> QED
    BY <1>4, <2>2, Zenon
<1>7. Range(t) = Range(q) \ {Head(q)}
  <2>1. ASSUME NEW i \in 1..(Len(q) - 1)
        PROVE  t[i] \in Range(q) /\ t[i] # Head(q)
    <3>1. i + 1 \in 1..Len(q) /\ i + 1 # 1 /\ t[i] = q[i + 1]
      BY <1>4, Zenon
    <3>2. q[i + 1] # q[1]
      BY <1>5, <1>2, <3>1, Zenon
    <3> QED
      BY <1>1, <1>2, <3>1, <3>2, Zenon DEF Range
  <2>2. ASSUME NEW i \in 1..Len(q), q[i] # Head(q)
        PROVE  q[i] \in Range(t)
    <3>1. i - 1 \in DOMAIN t /\ t[i - 1] = q[i]
      BY <1>1, <1>2, <1>4, <2>2, Zenon
    <3> QED
      BY <3>1, Zenon DEF Range
  <2>3. Range(t) \subseteq Range(q) \ {Head(q)}
    BY <1>2, <2>1, Zenon DEF Range
  <2>4. Range(q) \ {Head(q)} \subseteq Range(t)
    BY <1>2, <2>2, Zenon DEF Range
  <2> QED
    BY <2>3, <2>4, Zenon
<1> QED
  BY <1>1, <1>3, <1>6, <1>7, Zenon DEF t

\* And when another one is appended that shares no element with it.
LEMMA ConcatOnce ==
  ASSUME NEW S, NEW q \in Seq(S), NEW r \in Seq(S), IsInjective(q), IsInjective(r),
         Range(q) \cap Range(r) = {}
  PROVE  /\ q \o r \in Seq(S) /\ IsInjective(q \o r)
         /\ Range(q \o r) = Range(q) \cup Range(r)
<1> DEFINE c == q \o r
           n == Len(q)
           m == Len(r)
<1>1. /\ c \in Seq(S) /\ n \in Nat /\ m \in Nat
      /\ DOMAIN c = 1..(n + m) /\ DOMAIN q = 1..n /\ DOMAIN r = 1..m
  OBVIOUS
<1>2. \A i \in 1..(n + m) : c[i] = IF i <= n THEN q[i] ELSE r[i - n]
  BY ConcatProperties, Zenon
<1> HIDE DEF c, n, m
<1>3. /\ \A i \in 1..n : i \in 1..(n + m) /\ c[i] = q[i]
      /\ \A i \in 1..m : n + i \in 1..(n + m) /\ c[n + i] = r[i]
  <2>1. ASSUME NEW i \in 1..n PROVE i \in 1..(n + m) /\ i <= n
    BY <1>1
  <2>2. ASSUME NEW i \in 1..m
        PROVE  n + i \in 1..(n + m) /\ ~(n + i <= n) /\ (n + i) - n = i
    BY <1>1
  <2> QED
    BY <1>2, <2>1, <2>2, Zenon
<1>4. ASSUME NEW i \in 1..(n + m)
      PROVE  \/ i \in 1..n /\ c[i] = q[i]
             \/ i - n \in 1..m /\ c[i] = r[i - n]
  <2>1. n \in Nat /\ m \in Nat
    BY <1>1, Zenon
  <2>2. i <= n => i \in 1..n
    BY <2>1
  <2>3. ~(i <= n) => i - n \in 1..m
    BY <2>1
  <2> QED
    BY <1>2, <2>2, <2>3, Zenon
<1>5. Range(c) = Range(q) \cup Range(r)
  <2>1. Range(c) \subseteq Range(q) \cup Range(r)
    BY <1>1, <1>4, Zenon DEF Range
  <2>2. \A i \in 1..n : q[i] \in Range(c)
    BY <1>1, <1>3, Zenon DEF Range
  <2>3. \A i \in 1..m : r[i] \in Range(c)
    BY <1>1, <1>3, Zenon DEF Range
  <2>4. Range(q) \cup Range(r) \subseteq Range(c)
    BY <1>1, <2>2, <2>3, Zenon DEF Range
  <2> QED
    BY <2>1, <2>4, Zenon
<1>6. IsInjective(c)
  <2> SUFFICES ASSUME NEW i \in 1..(n + m), NEW j \in 1..(n + m), c[i] = c[j]
               PROVE  i = j
    BY <1>1, Zenon DEF IsInjective
  <2>1. CASE i \in 1..n /\ j \in 1..n
    <3>1. q[i] = q[j]
      BY <1>3, <2>1, Zenon
    <3> QED
      BY <1>1, <2>1, <3>1, Zenon DEF IsInjective
  <2>2. CASE i - n \in 1..m /\ j - n \in 1..m
    <3>1. ~(i <= n) /\ ~(j <= n)
      BY <1>1, <2>2
    <3>2. c[i] = r[i - n] /\ c[j] = r[j - n]
      BY <1>2, <3>1, Zenon
    <3>3. i - n = j - n
      BY <1>1, <2>2, <3>2, Zenon DEF IsInjective
    <3> QED
      BY <1>1, <3>3
  <2>3. CASE i \in 1..n /\ j - n \in 1..m /\ c[j] = r[j - n]
    BY <1>1, <1>3, <2>3, Zenon DEF Range
  <2>4. CASE i - n \in 1..m /\ c[i] = r[i - n] /\ j \in 1..n
    BY <1>1, <1>3, <2>4, Zenon DEF Range
  <2> QED
    BY <1>4, <2>1, <2>2, <2>3, <2>4, Zenon
<1> QED
  BY <1>1, <1>5, <1>6, Zenon DEF c

-----------------------------------------------------------------------------
(* What is sent *)

Packets == {GroupPacket(n) : n \in Nat}
Opens == {OpenRequest(wo) : wo \in BOOLEAN}

\* On its way to the bus.
Waiting(n) == GroupPacket(n) \in Range(outbox) \/ GroupPacket(n) \in Range(orphans)

\* Every packet is in one place at most, on its way or on the bus, and only if it is
\* acknowledged.
OnceInv ==
  /\ outbox \in Seq(Packets \cup Opens) /\ orphans \in Seq(Packets) /\ delivered \in Seq(Nat)
  /\ IsInjective(outbox) /\ IsInjective(orphans) /\ IsInjective(delivered)
  /\ Range(outbox) \cap Range(orphans) = {}
  /\ outbox # <<>> => Tail(outbox) \in Seq(Packets)
  /\ \A n \in Nat : n \in Range(delivered) => n \in acked /\ ~Waiting(n)
  /\ \A n \in Nat : Waiting(n) => n \in acked

\* The kinds of messages are apart.
LEMMA MessageKinds ==
  /\ \A m \in Packets : m.type = "packet" /\ m.n \in Nat /\ m = GroupPacket(m.n)
  /\ \A m \in Opens : m.type = "open" /\ m \notin Packets
  /\ \A n \in Nat : GroupPacket(n) \in Packets /\ GroupPacket(n).n = n
  /\ \A n, k \in Nat : GroupPacket(n) = GroupPacket(k) => n = k
  /\ \A wo \in BOOLEAN : OpenRequest(wo) \in Opens /\ OpenRequest(wo).wo = wo
<1>1. \A n \in Nat : GroupPacket(n).type = "packet" /\ GroupPacket(n).n = n
  BY Zenon DEF GroupPacket
<1>2. \A wo \in BOOLEAN : OpenRequest(wo).type = "open" /\ OpenRequest(wo).wo = wo
  BY Zenon DEF OpenRequest
<1>3. \A m \in Packets : m.type = "packet" /\ m.n \in Nat /\ m = GroupPacket(m.n)
  BY <1>1, Zenon DEF Packets
<1>4. \A m \in Opens : m.type = "open"
  BY <1>2, Zenon DEF Opens
<1>5. "open" # "packet"
  BY Zenon
<1>6. \A m \in Opens : m \notin Packets
  BY <1>3, <1>4, <1>5, Zenon
<1>7. /\ \A n \in Nat : GroupPacket(n) \in Packets
      /\ \A wo \in BOOLEAN : OpenRequest(wo) \in Opens
  BY Zenon DEF Packets, Opens
<1>8. \A n, k \in Nat : GroupPacket(n) = GroupPacket(k) => n = k
  BY <1>1, Zenon
<1> QED
  BY <1>1, <1>2, <1>3, <1>4, <1>6, <1>7, <1>8, Zenon

\* The range of the empty sequence.
LEMMA EmptyOnce == ASSUME NEW S PROVE <<>> \in Seq(S) /\ IsInjective(<<>>) /\ Range(<<>>) = {}
<1>1. <<>> \in Seq(S) /\ DOMAIN <<>> = {}
  BY EmptySeq
<1> QED
  BY <1>1, Zenon DEF IsInjective, Range

\* So has one of length one no repetitions.
LEMMA SingleOnce ==
  ASSUME NEW S, NEW m \in S
  PROVE  /\ <<m>> \in Seq(S) /\ IsInjective(<<m>>) /\ Range(<<m>>) = {m}
         /\ Tail(<<m>>) = <<>>
<1>1. <<m>> \in Seq(S) /\ DOMAIN <<m>> = {1} /\ <<m>>[1] = m /\ Tail(<<m>>) = <<>>
  OBVIOUS
<1>2. Range(<<m>>) = {m}
  BY <1>1, Zenon DEF Range
<1> QED
  BY <1>1, <1>2, Zenon DEF IsInjective

\* What a closed connection leaves behind.
LEMMA SentPacketsOnce ==
  ASSUME OnceInv
  PROVE  /\ SentPackets \in Seq(Packets) /\ IsInjective(SentPackets)
         /\ Range(SentPackets) \subseteq Range(outbox)
<1> DEFINE S == Packets \cup Opens
<1>1. outbox \in Seq(S) /\ IsInjective(outbox)
  BY Zenon DEF OnceInv
<1>2. CASE outbox # <<>> /\ Head(outbox).type = "open"
  <2>1. SentPackets = Tail(outbox)
    BY <1>2, Zenon DEF SentPackets
  <2> HIDE DEF S
  <2>2. IsInjective(Tail(outbox)) /\ Range(Tail(outbox)) \subseteq Range(outbox)
    BY <1>1, <1>2, TailOnce, Zenon
  <2>3. Tail(outbox) \in Seq(Packets)
    BY <1>2, Zenon DEF OnceInv
  <2> QED
    BY <2>1, <2>2, <2>3, Zenon
<1>3. CASE outbox # <<>> /\ Head(outbox).type # "open"
  <2>1. SentPackets = outbox
    BY <1>3, Zenon DEF SentPackets
  <2>2. Head(outbox) \in S
    BY <1>1, <1>3, HeadTailProperties, Zenon
  <2>3. Head(outbox) \in Packets
    BY <1>3, <2>2, MessageKinds, Zenon
  <2>4. outbox \in Seq(Packets)
    <3>1. Tail(outbox) \in Seq(Packets)
      BY <1>3, Zenon DEF OnceInv
    <3>2. outbox = <<Head(outbox)>> \o Tail(outbox)
      BY <1>1, <1>3
    <3>3. <<Head(outbox)>> \in Seq(Packets)
      BY <2>3
    <3> QED
      BY <3>1, <3>2, <3>3, ConcatProperties, Zenon
  <2> QED
    BY <1>1, <2>1, <2>4, Zenon
<1>4. CASE outbox = <<>>
  BY <1>4, EmptyOnce, Zenon DEF SentPackets
<1> QED
  BY <1>2, <1>3, <1>4, Zenon

\* disconnect() moves the packets of the outbox to the orphans.
LEMMA DisconnectedOnce ==
  ASSUME OnceInv, Disconnected, UNCHANGED <<acked, delivered>>
  PROVE  OnceInv'
<1>1. outbox' = <<>> /\ orphans' = orphans \o SentPackets
  BY Zenon DEF Disconnected
<1>2. /\ SentPackets \in Seq(Packets) /\ IsInjective(SentPackets)
      /\ Range(SentPackets) \subseteq Range(outbox)
  BY SentPacketsOnce, Zenon
<1>3. /\ orphans \in Seq(Packets) /\ IsInjective(orphans)
      /\ Range(orphans) \cap Range(SentPackets) = {}
  BY <1>2, Zenon DEF OnceInv
<1>4. /\ orphans' \in Seq(Packets) /\ IsInjective(orphans')
      /\ Range(orphans') = Range(orphans) \cup Range(SentPackets)
  <2>1. /\ orphans \o SentPackets \in Seq(Packets) /\ IsInjective(orphans \o SentPackets)
        /\ Range(orphans \o SentPackets) = Range(orphans) \cup Range(SentPackets)
    BY <1>2, <1>3, ConcatOnce
  <2> QED
    BY <1>1, <2>1, Zenon
<1>5. /\ outbox' \in Seq(Packets \cup Opens) /\ IsInjective(outbox') /\ Range(outbox') = {}
  BY <1>1, EmptyOnce, Zenon
<1>6. \A n \in Nat : Waiting(n)' => Waiting(n)
  BY <1>2, <1>4, <1>5, Zenon DEF Waiting
<1>7. Range(outbox') \cap Range(orphans') = {}
  BY <1>5, Zenon
<1>8. acked' = acked /\ delivered' = delivered
  BY Zenon
<1>9. /\ delivered \in Seq(Nat) /\ IsInjective(delivered)
      /\ \A n \in Nat : n \in Range(delivered) => n \in acked /\ ~Waiting(n)
      /\ \A n \in Nat : Waiting(n) => n \in acked
  BY Zenon DEF OnceInv
<1>10. outbox' = <<>>
  BY <1>1, Zenon
<1> QED
  BY <1>4, <1>5, <1>6, <1>7, <1>8, <1>9, <1>10, Zenon DEF OnceInv

\* The daemon's end takes what is on its way along.
LEMMA DiesOnce ==
  ASSUME OnceInv, outbox' = <<>>, orphans' = <<>>, UNCHANGED <<acked, delivered>>
  PROVE  OnceInv'
<1>1. /\ outbox' \in Seq(Packets \cup Opens) /\ IsInjective(outbox') /\ Range(outbox') = {}
      /\ orphans' \in Seq(Packets) /\ IsInjective(orphans') /\ Range(orphans') = {}
  BY EmptyOnce, Zenon
<1>2. \A n \in Nat : ~Waiting(n)'
  BY <1>1, Zenon DEF Waiting
<1>3. acked' = acked /\ delivered' = delivered
  BY Zenon
<1> QED
  BY <1>1, <1>2, <1>3, Zenon DEF OnceInv

\* A packet not yet on the bus is put there.
LEMMA DeliveredMore ==
  ASSUME delivered \in Seq(Nat), IsInjective(delivered), NEW k \in Nat,
         k \notin Range(delivered), delivered' = Append(delivered, k)
  PROVE  /\ delivered' \in Seq(Nat) /\ IsInjective(delivered')
         /\ Range(delivered') = Range(delivered) \cup {k}
<1>1. /\ Append(delivered, k) \in Seq(Nat) /\ IsInjective(Append(delivered, k))
      /\ Range(Append(delivered, k)) = Range(delivered) \cup {k}
  BY AppendOnce
<1> QED
  BY <1>1, Zenon

\* The head of the outbox leaves it, and is put on the bus if it is a packet.
LEMMA ServedOnce ==
  ASSUME OnceInv, outbox # <<>>, outbox' = Tail(outbox), UNCHANGED <<orphans, acked>>,
         \/ Head(outbox).type = "open" /\ UNCHANGED delivered
         \/ Head(outbox).type = "packet" /\ delivered' = Append(delivered, Head(outbox).n)
  PROVE  OnceInv'
<1> DEFINE m == Head(outbox)
           S == Packets \cup Opens
<1>1. outbox \in Seq(S) /\ IsInjective(outbox) /\ orphans' = orphans /\ acked' = acked
  BY Zenon DEF OnceInv
<1>2. Tail(outbox) \in Seq(Packets)
  BY Zenon DEF OnceInv
<1>3. outbox' # <<>> => Tail(outbox') \in Seq(Packets)
  BY <1>2, HeadTailProperties, Zenon
<1> HIDE DEF S
<1>4. /\ m \in Range(outbox) /\ m \in S /\ outbox' \in Seq(S) /\ IsInjective(outbox')
      /\ Range(outbox') = Range(outbox) \ {m}
  BY <1>1, TailOnce, Zenon
<1>5. /\ Range(outbox') \cap Range(orphans') = {}
      /\ \A n \in Nat : Waiting(n)' => Waiting(n)
  BY <1>1, <1>4, Zenon DEF OnceInv, Waiting
<1> USE DEF S
<1>6. CASE m.type = "open" /\ UNCHANGED delivered
  <2>1. delivered' = delivered
    BY <1>6, Zenon
  <2> QED
    BY <1>1, <1>3, <1>4, <1>5, <2>1, Zenon DEF OnceInv
<1>7. CASE m.type = "packet" /\ delivered' = Append(delivered, m.n)
  <2>1. PICK k \in Nat : m = GroupPacket(k) /\ m.n = k
    <3>1. "open" # "packet"
      BY Zenon
    <3> QED
      BY <1>4, <1>7, <3>1, MessageKinds, Zenon
  <2>2. k \in acked /\ k \notin Range(delivered)
    BY <1>4, <2>1, Zenon DEF OnceInv, Waiting
  <2>3. /\ delivered' \in Seq(Nat) /\ IsInjective(delivered')
        /\ Range(delivered') = Range(delivered) \cup {k}
    BY <1>7, <2>1, <2>2, DeliveredMore, Zenon DEF OnceInv
  <2>4. ~Waiting(k)'
    <3>1. GroupPacket(k) \notin Range(orphans) /\ GroupPacket(k) \notin Range(outbox')
      BY <1>4, <2>1, Zenon DEF OnceInv
    <3> QED
      BY <1>1, <3>1, Zenon DEF Waiting
  <2>5. \A n \in Nat : n \in Range(delivered') => n \in acked' /\ ~Waiting(n)'
    BY <1>1, <1>5, <2>2, <2>3, <2>4, Zenon DEF OnceInv
  <2> QED
    BY <1>1, <1>3, <1>4, <1>5, <2>3, <2>5, Zenon DEF OnceInv
<1> QED
  BY <1>6, <1>7, Zenon

\* So does the first of the orphans.
LEMMA OrphanOnce ==
  ASSUME OnceInv, orphans # <<>>, orphans' = Tail(orphans), UNCHANGED <<outbox, acked>>,
         delivered' = Append(delivered, Head(orphans).n)
  PROVE  OnceInv'
<1> DEFINE m == Head(orphans)
<1>1. orphans \in Seq(Packets) /\ IsInjective(orphans) /\ outbox' = outbox /\ acked' = acked
  BY Zenon DEF OnceInv
<1>2. /\ m \in Range(orphans) /\ m \in Packets /\ orphans' \in Seq(Packets)
      /\ IsInjective(orphans') /\ Range(orphans') = Range(orphans) \ {m}
  BY <1>1, TailOnce, Zenon
<1>3. PICK k \in Nat : m = GroupPacket(k) /\ m.n = k
  BY <1>2, MessageKinds, Zenon
<1>4. k \in acked /\ k \notin Range(delivered)
  BY <1>2, <1>3, Zenon DEF OnceInv, Waiting
<1>5. /\ delivered' \in Seq(Nat) /\ IsInjective(delivered')
      /\ Range(delivered') = Range(delivered) \cup {k}
  BY <1>3, <1>4, DeliveredMore, Zenon DEF OnceInv
<1>6. /\ Range(outbox') \cap Range(orphans') = {}
      /\ \A n \in Nat : Waiting(n)' => Waiting(n)
  BY <1>1, <1>2, Zenon DEF OnceInv, Waiting
<1>7. ~Waiting(k)'
  <2>1. GroupPacket(k) \notin Range(outbox) /\ GroupPacket(k) \notin Range(orphans')
    BY <1>2, <1>3, Zenon DEF OnceInv
  <2> QED
    BY <1>1, <2>1, Zenon DEF Waiting
<1>8. \A n \in Nat : n \in Range(delivered') => n \in acked' /\ ~Waiting(n)'
  BY <1>1, <1>4, <1>5, <1>6, <1>7, Zenon DEF OnceInv
<1> QED
  BY <1>1, <1>2, <1>5, <1>6, <1>8, Zenon DEF OnceInv

\* The worker sends a packet that it has not sent.
LEMMA WriteOnce ==
  ASSUME OnceInv, packet \in Nat, packet \notin acked,
         outbox' = Append(outbox, GroupPacket(packet)), acked' = acked \cup {packet},
         UNCHANGED <<orphans, delivered>>
  PROVE  OnceInv'
<1> DEFINE S == Packets \cup Opens
<1>1. PICK k \in Nat : k = packet
  BY Zenon
<1>2. /\ outbox \in Seq(S) /\ IsInjective(outbox) /\ GroupPacket(k) \in S
      /\ GroupPacket(k) \in Packets /\ ~Waiting(k) /\ GroupPacket(k) \notin Range(outbox)
  BY <1>1, MessageKinds, Zenon DEF OnceInv, Waiting
<1>3. orphans' = orphans /\ delivered' = delivered
  BY Zenon
<1>4. outbox' = Append(outbox, GroupPacket(k)) /\ acked' = acked \cup {k} /\ k \notin acked
  BY <1>1, Zenon
<1> HIDE DEF S
<1>5. /\ Append(outbox, GroupPacket(k)) \in Seq(S) /\ IsInjective(Append(outbox, GroupPacket(k)))
      /\ Range(Append(outbox, GroupPacket(k))) = Range(outbox) \cup {GroupPacket(k)}
  BY <1>2, AppendOnce
<1>6. /\ outbox' \in Seq(S) /\ IsInjective(outbox')
      /\ Range(outbox') = Range(outbox) \cup {GroupPacket(k)}
  BY <1>4, <1>5, Zenon
<1>7. Tail(outbox') \in Seq(Packets)
  <2>1. Tail(Append(outbox, GroupPacket(k)))
          = IF outbox = <<>> THEN <<>> ELSE Append(Tail(outbox), GroupPacket(k))
    BY <1>2, HeadTailAppend, Zenon
  <2>2. outbox # <<>> => Append(Tail(outbox), GroupPacket(k)) \in Seq(Packets)
    BY <1>2, AppendProperties, Zenon DEF OnceInv
  <2> QED
    BY <1>4, <2>1, <2>2, EmptyOnce, Zenon
<1>8. Range(outbox') \cap Range(orphans') = {}
  BY <1>2, <1>3, <1>6, Zenon DEF OnceInv, Waiting
<1>9. \A n \in Nat : Waiting(n)' <=> Waiting(n) \/ n = k
  BY <1>3, <1>6, MessageKinds, Zenon DEF Waiting
<1>10. k \notin Range(delivered)
  BY <1>4, Zenon DEF OnceInv
<1> QED
  BY <1>3, <1>4, <1>6, <1>7, <1>8, <1>9, <1>10, Zenon DEF OnceInv, S

\* The request to open a group socket is the first message of a connection.
LEMMA OpenOnce ==
  ASSUME OnceInv, outbox = <<>>, NEW wo \in BOOLEAN,
         outbox' = Append(outbox, OpenRequest(wo)), UNCHANGED <<orphans, acked, delivered>>
  PROVE  OnceInv' /\ Range(outbox') = {OpenRequest(wo)}
<1>1. /\ outbox \in Seq(Packets \cup Opens) /\ IsInjective(outbox) /\ Range(outbox) = {}
      /\ OpenRequest(wo) \in Packets \cup Opens /\ OpenRequest(wo) \notin Packets
      /\ OpenRequest(wo) \notin Range(outbox)
  BY EmptyOnce, MessageKinds, Zenon
<1>2. orphans' = orphans /\ delivered' = delivered /\ acked' = acked
  BY Zenon
<1>3. /\ outbox' = <<OpenRequest(wo)>>
      /\ <<OpenRequest(wo)>> \in Seq(Packets \cup Opens) /\ IsInjective(<<OpenRequest(wo)>>)
      /\ Range(<<OpenRequest(wo)>>) = {OpenRequest(wo)} /\ Tail(<<OpenRequest(wo)>>) = <<>>
  <2>1. outbox' = <<OpenRequest(wo)>>
    OBVIOUS
  <2> QED
    BY <1>1, <2>1, SingleOnce, Zenon
<1>4. outbox' \in Seq(Packets \cup Opens) /\ IsInjective(outbox') /\ Range(outbox') = {OpenRequest(wo)}
  BY <1>3, Zenon
<1>5. Tail(outbox') = <<>>
  BY <1>3, Zenon
<1>6. Tail(outbox') \in Seq(Packets)
  BY <1>5, EmptyOnce, Zenon
<1>7. Range(orphans) \subseteq Packets
  BY RangeOfSeq, Zenon DEF OnceInv
<1>8. Range(outbox') \cap Range(orphans') = {}
  BY <1>1, <1>2, <1>4, <1>7, Zenon
<1>9. \A n \in Nat : Waiting(n)' => Waiting(n)
  BY <1>1, <1>2, <1>4, MessageKinds, Zenon DEF Waiting
<1> QED
  BY <1>2, <1>4, <1>6, <1>8, <1>9, Zenon DEF OnceInv

\* A step that leaves the packets where they are.
LEMMA SameOnce ==
  ASSUME OnceInv, UNCHANGED <<outbox, orphans, acked, delivered>>
  PROVE  OnceInv'
<1>1. outbox' = outbox /\ orphans' = orphans /\ acked' = acked /\ delivered' = delivered
  BY Zenon
<1> QED
  BY <1>1, Zenon DEF OnceInv, Waiting

-----------------------------------------------------------------------------
(* The mode of the group socket *)

\* The worker is inside connect() and open_group_socket().
Calling == {"starting", "prepare", "retry"}

Wants == [wo : BOOLEAN, nb : BOOLEAN]

\* Once the worker has asked for a write-only socket, every later request asks for one.
ModeInv ==
  /\ want \in Wants /\ write_only_ \in BOOLEAN
  /\ call # "idle" => pc \in Calling
  /\ call \in {"connect", "open"} => outbox = <<>> /\ peer # "read_write"
  /\ write_only_ =>
       /\ peer # "read_write" /\ OpenRequest(FALSE) \notin Range(outbox)
       /\ call \in {"connect", "open"} => want.wo

\* A call of connect() begins.
LEMMA EstablishMode ==
  ASSUME ModeInv, NEW wo \in BOOLEAN, NEW nb \in BOOLEAN, Establish(wo, nb),
         write_only_ => wo, pc' \in Calling
  PROVE  ModeInv'
<1>1. /\ peer' = "none" /\ outbox' = <<>> /\ want' = [wo |-> wo, nb |-> nb]
      /\ write_only_' = write_only_
  BY Zenon DEF Establish, Disconnected
<1>2. want' \in Wants /\ want'.wo = wo
  BY <1>1, Zenon DEF Wants
<1>3. Range(outbox') = {} /\ peer' # "read_write"
  BY <1>1, EmptyOnce, Zenon
<1> QED
  BY <1>1, <1>2, <1>3, Zenon DEF ModeInv

\* A step that leaves the connection and the call alone.
LEMMA SameMode ==
  ASSUME ModeInv, UNCHANGED <<write_only_, want, peer, outbox>>,
         call' = "idle" \/ (UNCHANGED call /\ (call # "idle" => pc' \in Calling))
  PROVE  ModeInv'
<1>1. /\ write_only_' = write_only_ /\ want' = want /\ peer' = peer /\ outbox' = outbox
      /\ want.wo => want'.wo
  BY Zenon
<1>2. write_only_' => write_only_
  BY <1>1
<1>3. CASE call' = "idle"
  <2>1. call' \notin {"connect", "open"} /\ ~(call' # "idle")
    BY <1>3, Zenon
  <2> QED
    BY <1>1, <1>2, <2>1, Zenon DEF ModeInv
<1>4. CASE UNCHANGED call /\ (call # "idle" => pc' \in Calling)
  <2>1. call' = call /\ (call' # "idle" => pc' \in Calling)
    BY <1>4, Zenon
  <2> QED
    BY <1>1, <1>2, <2>1, Zenon DEF ModeInv
<1> QED
  BY <1>3, <1>4, Zenon

\* The steps of connect() and open_group_socket() keep both invariants.
LEMMA LinkStepInv ==
  ASSUME OnceInv, ModeInv, LinkStep, UNCHANGED writerVars
  PROVE  OnceInv' /\ ModeInv'
<1>0. acked' = acked /\ delivered' = delivered /\ pc' = pc
  BY Zenon DEF writerVars
<1>1. CASE ConnectOk
  <2>1. OnceInv'
    BY <1>0, <1>1, SameOnce, Zenon DEF ConnectOk
  <2>2. /\ call = "connect" /\ call' = "open" /\ peer' = "idle"
        /\ outbox' = outbox /\ want' = want /\ write_only_' = write_only_
    BY <1>1, Zenon DEF ConnectOk
  <2> QED
    BY <1>0, <2>1, <2>2, Zenon DEF ModeInv
<1>2. CASE ConnectFails
  <2>1. OnceInv'
    BY <1>0, <1>2, SameOnce, Zenon DEF ConnectFails
  <2>2. /\ call = "connect" /\ call' = "fail" /\ peer' = peer
        /\ outbox' = outbox /\ want' = want /\ write_only_' = write_only_
    BY <1>2, Zenon DEF ConnectFails
  <2> QED
    BY <1>0, <2>1, <2>2, Zenon DEF ModeInv
<1>3. CASE OpenSend
  <2>1. call = "open" /\ write_only_' = want.wo /\ want' = want /\ want.wo \in BOOLEAN
    BY <1>3, Zenon DEF OpenSend, ModeInv, Wants
  <2>2. outbox = <<>> /\ peer # "read_write" /\ pc \in Calling
    BY <2>1, Zenon DEF ModeInv
  <2>3. CASE /\ outbox' = Append(outbox, OpenRequest(want.wo)) /\ call' = "reply"
             /\ orphans' = orphans /\ peer' = peer
    <3>1. PICK wo \in BOOLEAN : wo = want.wo
      BY <2>1, Zenon
    <3>2. OnceInv' /\ Range(outbox') = {OpenRequest(wo)}
      BY <1>0, <2>2, <2>3, <3>1, OpenOnce, Zenon
    <3>3. wo => OpenRequest(FALSE) \notin Range(outbox')
      BY <3>2, MessageKinds, Zenon
    <3>4. (write_only_' => wo) /\ write_only_' \in BOOLEAN
      BY <2>1, <3>1, Zenon
    <3>5. call' \notin {"connect", "open"}
      BY <2>3, Zenon
    <3> QED
      BY <1>0, <2>1, <2>2, <2>3, <3>2, <3>3, <3>4, <3>5, Zenon DEF ModeInv
  <2>4. CASE Disconnected /\ call' = "fail"
    <3>1. OnceInv'
      BY <1>0, <2>4, DisconnectedOnce, Zenon
    <3>2. outbox' = <<>> /\ peer' = "none" /\ Range(outbox') = {}
      BY <2>4, EmptyOnce, Zenon DEF Disconnected
    <3> QED
      BY <1>0, <2>1, <2>2, <2>4, <3>1, <3>2, Zenon DEF ModeInv
  <2> QED
    BY <1>3, <2>3, <2>4, Zenon DEF OpenSend
<1>4. CASE OpenTimeout \/ \E k \in 0..Len(inbox) : OpenRefused(k)
  <2>1. Disconnected /\ call = "reply" /\ call' = "fail" /\ want' = want /\ write_only_' = write_only_
    BY <1>4, Zenon DEF OpenTimeout, OpenRefused
  <2>2. OnceInv'
    BY <1>0, <2>1, DisconnectedOnce, Zenon
  <2>3. outbox' = <<>> /\ peer' = "none" /\ Range(outbox') = {}
    BY <2>1, EmptyOnce, Zenon DEF Disconnected
  <2> QED
    BY <1>0, <2>1, <2>2, <2>3, Zenon DEF ModeInv
<1>5. ASSUME NEW k, OpenReply(k) PROVE OnceInv' /\ ModeInv'
  <2>1. /\ call = "reply" /\ call' = "ok" /\ peer' = peer /\ orphans' = orphans
        /\ outbox' = outbox /\ want' = want /\ write_only_' = write_only_
    BY <1>5, Zenon DEF OpenReply
  <2>2. OnceInv'
    BY <1>0, <2>1, SameOnce, Zenon
  <2> QED
    BY <1>0, <2>1, <2>2, Zenon DEF ModeInv
<1> QED
  BY <1>1, <1>2, <1>3, <1>4, <1>5, Zenon DEF LinkStep

\* So do the daemon's.
LEMMA DaemonActsInv ==
  ASSUME OnceInv, ModeInv, DaemonActs
  PROVE  OnceInv' /\ ModeInv'
<1>0. acked' = acked /\ delivered' = delivered /\ pc' = pc
  BY Zenon DEF DaemonActs
<1>1. CASE DaemonDies
  <2>1. /\ outbox' = <<>> /\ orphans' = <<>> /\ peer' = "none"
        /\ write_only_' = write_only_ /\ want' = want /\ call' = call
    BY <1>1, Zenon DEF DaemonDies
  <2>2. OnceInv'
    BY <1>0, <2>1, DiesOnce, Zenon
  <2>3. Range(outbox') = {} /\ peer' # "read_write" /\ (write_only_' => write_only_)
    BY <2>1, EmptyOnce, Zenon
  <2>4. want.wo => want'.wo
    BY <2>1, Zenon
  <2> QED
    BY <1>0, <2>1, <2>2, <2>3, <2>4, Zenon DEF ModeInv
<1>2. CASE DaemonOpens
  <2>1. /\ outbox # <<>> /\ Head(outbox).type = "open" /\ outbox' = Tail(outbox)
        /\ peer' = (IF Head(outbox).wo THEN "write_only" ELSE "read_write")
        /\ orphans' = orphans /\ write_only_' = write_only_ /\ want' = want /\ call' = call
    BY <1>2, Zenon DEF DaemonOpens
  <2>2. OnceInv'
    BY <1>0, <2>1, ServedOnce, Zenon
  <2>3. /\ Head(outbox) \in Range(outbox) /\ Range(outbox') \subseteq Range(outbox)
        /\ Head(outbox) \in Packets \cup Opens
    <3>1. outbox \in Seq(Packets \cup Opens) /\ IsInjective(outbox) /\ outbox # <<>>
      BY <2>1, Zenon DEF OnceInv
    <3>2. /\ Head(outbox) \in Range(outbox) /\ Head(outbox) \in Packets \cup Opens
          /\ Range(Tail(outbox)) = Range(outbox) \ {Head(outbox)}
      BY <3>1, TailOnce, Zenon
    <3> QED
      BY <2>1, <3>2, Zenon
  <2>4. PICK wo \in BOOLEAN : Head(outbox) = OpenRequest(wo) /\ Head(outbox).wo = wo
    <3>1. "open" # "packet"
      BY Zenon
    <3>2. Head(outbox) \in Opens
      BY <2>1, <2>3, <3>1, MessageKinds, Zenon
    <3> QED
      BY <3>2, MessageKinds, Zenon DEF Opens
  <2>5. write_only_ => wo = TRUE
    BY <2>3, <2>4, Zenon DEF ModeInv
  <2>6. write_only_ => peer' = "write_only"
    BY <2>1, <2>4, <2>5, Zenon
  <2>7. "write_only" # "read_write" /\ (write_only_' => write_only_)
    BY <2>1, Zenon
  <2>8. call' \notin {"connect", "open"}
    BY <2>1, Zenon DEF ModeInv
  <2> QED
    BY <1>0, <2>1, <2>2, <2>3, <2>6, <2>7, <2>8, Zenon DEF ModeInv
<1>3. CASE DaemonRefuses
  <2>1. /\ outbox # <<>> /\ outbox' = Tail(outbox) /\ peer' = peer /\ orphans' = orphans
        /\ Head(outbox).type = "open"
        /\ write_only_' = write_only_ /\ want' = want /\ call' = call
    BY <1>3, Zenon DEF DaemonRefuses
  <2>2. OnceInv'
    BY <1>0, <2>1, ServedOnce, Zenon
  <2>3. Range(outbox') \subseteq Range(outbox)
    <3>1. outbox \in Seq(Packets \cup Opens) /\ IsInjective(outbox) /\ outbox # <<>>
      BY <2>1, Zenon DEF OnceInv
    <3> QED
      BY <2>1, <3>1, TailOnce, Zenon
  <2>4. (write_only_' => write_only_) /\ call' \notin {"connect", "open"}
    BY <2>1, Zenon DEF ModeInv
  <2> QED
    BY <1>0, <2>1, <2>2, <2>3, <2>4, Zenon DEF ModeInv
<1>4. CASE DaemonHangs \/ DaemonRecovers \/ \E type : BusTelegram(type)
  <2>1. UNCHANGED <<outbox, orphans, write_only_, want, peer, call>>
    BY <1>4, Zenon DEF DaemonHangs, DaemonRecovers, BusTelegram, linkVars
  <2>2. OnceInv'
    BY <1>0, <2>1, SameOnce, Zenon
  <2>3. call # "idle" => pc' \in Calling
    BY <1>0, Zenon DEF ModeInv
  <2> QED
    BY <2>1, <2>2, <2>3, SameMode, Zenon
<1> QED
  BY <1>1, <1>2, <1>3, <1>4, Zenon DEF DaemonActs, DaemonStep, Fault

-----------------------------------------------------------------------------
(* The request *)

\* A packet of the request is being sent.
Sending == {"send", "prepare", "write", "retry", "rewrite"}

\* The packets of the request up to n were sent.
Sent(n) == first..n \subseteq acked

\* any_valid and any_failed say what became of the request's packets so far.
RequestInv ==
  /\ packet \in Nat /\ first \in 1..(packet + 1) /\ acked \subseteq 1..packet
  /\ any_valid \in BOOLEAN /\ any_failed \in BOOLEAN
  /\ pc \in {"spawn", "starting"} => status = 0
  /\ pc = "next" => (any_valid <=> first <= packet) /\ (any_failed <=> ~Sent(packet))
  /\ pc \in Sending => /\ any_valid /\ first <= packet /\ packet \notin acked
                       /\ any_failed <=> ~Sent(packet - 1)
  /\ StatusHonest

\* Steps that are not the worker's leave it alone.
LEMMA SameRequest ==
  ASSUME RequestInv, UNCHANGED <<pc, packet, first, acked, any_valid, any_failed, status>>
  PROVE  RequestInv'
BY DEF RequestInv, Sent, StatusHonest

\* The worker goes on with its packet.
LEMMA SendingOn ==
  ASSUME RequestInv, pc \in Sending, pc' \in Sending,
         UNCHANGED <<packet, first, acked, any_valid, any_failed, status>>
  PROVE  RequestInv'
<1>1. pc' \notin {"spawn", "starting"} /\ pc' # "next" /\ pc' # "accept"
  BY Zenon DEF Sending
<1> QED
  BY <1>1, Zenon DEF RequestInv, Sent, StatusHonest

\* The packet was sent, or was not.
LEMMA SendingDone ==
  ASSUME RequestInv, pc \in Sending, pc' = "next", UNCHANGED <<packet, first, any_valid, status>>,
         \/ acked' = acked \cup {packet} /\ UNCHANGED any_failed
         \/ UNCHANGED acked /\ any_failed' = TRUE
  PROVE  RequestInv'
<1>1. /\ packet \in Nat /\ first \in 1..packet /\ acked \subseteq 1..packet /\ packet \notin acked
      /\ any_valid /\ (any_failed <=> ~Sent(packet - 1))
  BY DEF RequestInv
<1>2. /\ packet' = packet /\ first' = first /\ any_valid' = any_valid
      /\ acked' \subseteq 1..packet /\ packet \in first..packet
  <2>1. packet' = packet /\ first' = first /\ any_valid' = any_valid
    BY Zenon
  <2>2. packet \in first..packet /\ packet \in 1..packet
    BY <1>1
  <2>3. acked' \subseteq 1..packet
    BY <1>1, <2>2, Zenon
  <2> QED
    BY <2>1, <2>2, <2>3, Zenon
<1>3. pc' \notin {"spawn", "starting"} /\ pc' \notin Sending /\ pc' # "accept"
  BY Zenon DEF Sending
<1>4. any_failed' \in BOOLEAN /\ (any_failed' <=> ~Sent(packet)')
  <2>1. CASE acked' = acked \cup {packet} /\ UNCHANGED any_failed
    <3>1. first..packet \subseteq acked' <=> first..(packet - 1) \subseteq acked
      BY <1>1, <2>1
    <3> QED
      BY <1>1, <1>2, <2>1, <3>1, Zenon DEF Sent, RequestInv
  <2>2. CASE UNCHANGED acked /\ any_failed' = TRUE
    BY <1>1, <1>2, <2>2, Zenon DEF Sent
  <2> QED
    BY <2>1, <2>2, Zenon
<1>5. any_valid' \in BOOLEAN /\ (any_valid' <=> first' <= packet')
  BY <1>1, <1>2 DEF RequestInv
<1> QED
  BY <1>1, <1>2, <1>3, <1>4, <1>5 DEF RequestInv, StatusHonest

\* A request comes in: it is answered at once, or its loop begins.
LEMMA HandleInv ==
  ASSUME RequestInv, NEW addresses, NEW session, NEW v, Handle(addresses, session, v)
  PROVE  RequestInv'
<1>1. /\ pc = "accept" /\ first' = packet + 1 /\ packet' = packet /\ acked' = acked
      /\ packet \in Nat /\ acked \subseteq 1..packet
  BY Zenon DEF Handle, RequestInv
<1>2. \A n : first'..packet' \subseteq n
  BY <1>1
<1>3. CASE Verdict(addresses, session, v) # 0
  <2>1. /\ status' = Verdict(addresses, session, v) /\ pc' = pc
        /\ UNCHANGED <<any_valid, any_failed>>
    BY <1>3, Zenon DEF Handle
  <2>2. status' \in {200, 401}
    BY <1>3, <2>1 DEF Verdict
  <2>3. StatusHonest'
    BY <1>1, <1>2, <2>2 DEF StatusHonest
  <2> QED
    BY <1>1, <2>1, <2>3 DEF RequestInv, Sending
<1>4. CASE Verdict(addresses, session, v) = 0
  <2>1. /\ any_valid' = FALSE /\ any_failed' = FALSE /\ pc' = "next"
    BY <1>4, Zenon DEF Handle
  <2>2. Sent(packet)' /\ ~(first' <= packet') /\ first' \in 1..(packet' + 1)
    BY <1>1, <1>2 DEF Sent
  <2>3. pc' \notin {"spawn", "starting"} /\ pc' \notin Sending /\ pc' # "accept"
    BY <2>1, Zenon DEF Sending
  <2> QED
    BY <1>1, <2>1, <2>2, <2>3, Zenon DEF RequestInv, StatusHonest
<1> QED
  BY <1>3, <1>4, Zenon

\* The loop takes the next address.
LEMMA NextAddressInv ==
  ASSUME RequestInv, NextAddress
  PROVE  RequestInv'
<1>1. /\ pc = "next" /\ UNCHANGED <<first, acked, any_failed, status>>
      /\ packet \in Nat /\ first \in 1..(packet + 1) /\ acked \subseteq 1..packet
      /\ (any_failed <=> ~Sent(packet)) /\ any_failed \in BOOLEAN
  BY Zenon DEF NextAddress, RequestInv
<1>2. CASE pc' = "send" /\ any_valid' = TRUE /\ packet' = packet + 1
  <2>1. first' <= packet' /\ packet' \notin acked' /\ packet' - 1 = packet
        /\ first' \in 1..(packet' + 1) /\ acked' \subseteq 1..packet' /\ packet' \in Nat
    BY <1>1, <1>2
  <2>2. Sent(packet - 1)' <=> Sent(packet)
    BY <1>1, <2>1, Zenon DEF Sent
  <2>3. pc' \in Sending /\ pc' # "next" /\ pc' # "accept" /\ pc' \notin {"spawn", "starting"}
    BY <1>2, Zenon DEF Sending
  <2> QED
    BY <1>1, <1>2, <2>1, <2>2, <2>3 DEF RequestInv, StatusHonest
<1>3. CASE UNCHANGED <<pc, any_valid, packet>>
  BY <1>1, <1>3, SameRequest, Zenon
<1> QED
  BY <1>2, <1>3, Zenon DEF NextAddress

\* The answer says it.
LEMMA AnswerInv ==
  ASSUME RequestInv, Answer
  PROVE  RequestInv'
<1>1. /\ pc = "next" /\ pc' = "accept" /\ UNCHANGED <<packet, first, acked>>
      /\ status' = (IF ~any_valid THEN 404 ELSE IF any_failed THEN 503 ELSE 200)
      /\ any_valid' = FALSE /\ any_failed' = FALSE
  BY Zenon DEF Answer
<1>2. (any_valid <=> first <= packet) /\ (any_failed <=> ~Sent(packet))
  BY <1>1, Zenon DEF RequestInv
<1>3. StatusHonest'
  BY <1>1, <1>2 DEF StatusHonest, Sent, RequestInv
<1> QED
  BY <1>1, <1>3, Zenon DEF RequestInv, Sending

-----------------------------------------------------------------------------

WriteInv == OnceInv /\ ModeInv /\ RequestInv

\* A worker begins in the invariant.
LEMMA WriteInitInv == Init => WriteInv
<1> SUFFICES ASSUME Init PROVE WriteInv
  BY Zenon
<1>1. OnceInv
  <2>1. outbox = <<>> /\ orphans = <<>> /\ delivered = <<>> /\ acked = {}
    BY Zenon DEF Init, LinkInit
  <2>2. Range(outbox) = {} /\ Range(orphans) = {} /\ Range(delivered) = {}
    BY <2>1, EmptyOnce, Zenon
  <2> QED
    BY <2>1, <2>2, EmptyOnce, Zenon DEF OnceInv, Waiting
<1>2. ModeInv
  <2>1. ~write_only_ /\ write_only_ \in BOOLEAN /\ want \in Wants
    BY Zenon DEF Init, LinkInit, Wants
  <2>2. call = "idle" /\ call \notin {"connect", "open"}
    BY Zenon DEF Init, LinkInit
  <2> QED
    BY <2>1, <2>2, Zenon DEF ModeInv
<1>3. RequestInv
  <2>1. packet = 0 /\ first = 1 /\ acked = {} /\ status = 0
    BY Zenon DEF Init
  <2>2. packet \in Nat /\ first \in 1..(packet + 1) /\ acked \subseteq 1..packet
    BY <2>1
  <2>3. any_valid \in BOOLEAN /\ any_failed \in BOOLEAN
    BY Zenon DEF Init
  <2>4. pc # "next" /\ pc # "accept" /\ pc \notin Sending
    BY Zenon DEF Init, Sending
  <2> QED
    BY <2>1, <2>2, <2>3, <2>4, Zenon DEF RequestInv, StatusHonest
<1> QED
  BY <1>1, <1>2, <1>3, Zenon DEF WriteInv

\* reconnect() begins, while starting or for the packet.
LEMMA EstablishInv ==
  ASSUME WriteInv, NEW wo \in BOOLEAN, NEW nb \in BOOLEAN, Establish(wo, nb),
         write_only_ => wo, pc' \in Calling,
         UNCHANGED <<any_valid, any_failed, status, packet, first, acked, delivered>>,
         \/ pc \in Sending /\ pc' \in Sending
         \/ pc = "spawn" /\ pc' = "starting"
  PROVE  WriteInv'
<1>1. OnceInv'
  BY DisconnectedOnce, Zenon DEF WriteInv, Establish
<1>2. ModeInv'
  BY EstablishMode, Zenon DEF WriteInv
<1>3. RequestInv'
  <2>1. CASE pc \in Sending /\ pc' \in Sending
    BY <2>1, SendingOn, Zenon DEF WriteInv
  <2>2. CASE pc = "spawn" /\ pc' = "starting"
    BY <2>2, Zenon DEF WriteInv, RequestInv, Sending, StatusHonest
  <2> QED
    BY <2>1, <2>2, Zenon
<1> QED
  BY <1>1, <1>2, <1>3, Zenon DEF WriteInv

\* Every step of the worker keeps it.
LEMMA WriterStepInv ==
  ASSUME WriteInv, WriterStep
  PROVE  WriteInv'
<1>0. write_only_ \in BOOLEAN /\ (call # "idle" => pc \in Calling)
  BY Zenon DEF WriteInv, ModeInv
<1>1. CASE Spawn
  <2>1. pc' \in Calling /\ pc = "spawn" /\ pc' = "starting" /\ Establish(TRUE, FALSE)
        /\ UNCHANGED <<any_valid, any_failed, status, packet, first, acked, delivered>>
    BY <1>1, Zenon DEF Spawn, Calling
  <2> QED
    BY <2>1, EstablishInv, Zenon
<1>2. CASE Ready
  <2>1. /\ pc = "starting" /\ pc' = "accept" /\ call' = "idle"
        /\ UNCHANGED <<write_only_, want, peer, outbox, orphans, any_valid, any_failed, status,
                       packet, first, acked, delivered>>
    BY <1>2, Zenon DEF Ready
  <2>2. OnceInv' /\ ModeInv'
    BY <2>1, SameOnce, SameMode, Zenon DEF WriteInv
  <2>3. RequestInv'
    BY <2>1 DEF WriteInv, RequestInv, Sending, StatusHonest
  <2> QED
    BY <2>2, <2>3, Zenon DEF WriteInv
<1>3. CASE NextAddress \/ Answer
  <2>1. RequestInv'
    BY <1>3, NextAddressInv, AnswerInv, Zenon DEF WriteInv
  <2>2. UNCHANGED <<write_only_, want, peer, outbox, orphans, call, acked, delivered>> /\ pc = "next"
    BY <1>3, Zenon DEF NextAddress, Answer, linkVars
  <2>3. call = "idle"
    BY <1>0, <2>2, Zenon DEF Calling
  <2> QED
    BY <2>1, <2>2, <2>3, SameOnce, SameMode, Zenon DEF WriteInv
<1>4. CASE SendReady
  <2>1. /\ UNCHANGED <<write_only_, want, peer, outbox, orphans, call, acked, delivered,
                       packet, first, any_valid, any_failed, status>>
        /\ pc = "send" /\ pc \in Sending /\ pc' \in Sending
    BY <1>4, Zenon DEF SendReady, Sending, linkVars
  <2>2. call = "idle"
    BY <1>0, <2>1, Zenon DEF Calling
  <2> QED
    BY <2>1, <2>2, SameOnce, SameMode, SendingOn, Zenon DEF WriteInv
<1>5. CASE SendReconnect \/ WriteFails
  <2>1. /\ Establish(write_only_, TRUE) /\ pc' \in Calling /\ pc \in Sending /\ pc' \in Sending
        /\ UNCHANGED <<any_valid, any_failed, status, packet, first, acked, delivered>>
    BY <1>5, Zenon DEF SendReconnect, WriteFails, Calling, Sending
  <2> QED
    BY <1>0, <2>1, EstablishInv, Zenon
<1>6. CASE Established
  <2>1. /\ pc \in Sending /\ call' = "idle"
        /\ UNCHANGED <<write_only_, want, peer, outbox, orphans>>
    BY <1>6, Zenon DEF Established, Sending
  <2>2. CASE Failed
    <3>1. /\ UNCHANGED <<acked, delivered, packet, first, any_valid, status>>
          /\ pc' = "next" /\ any_failed' = TRUE
      BY <2>2, Zenon DEF Failed
    <3> QED
      BY <2>1, <3>1, SameOnce, SameMode, SendingDone, Zenon DEF WriteInv
  <2>3. CASE /\ pc' = IF pc = "prepare" THEN "write" ELSE "rewrite"
             /\ UNCHANGED <<todo, any_valid, any_failed, status, packet, first, acked,
                            delivered, lost>>
    <3>1. pc' \in Sending
      BY <2>3, Zenon DEF Sending
    <3> QED
      BY <2>1, <2>3, <3>1, SameOnce, SameMode, SendingOn, Zenon DEF WriteInv
  <2> QED
    BY <1>6, <2>2, <2>3, Zenon DEF Established
<1>7. CASE WriteOk
  <2>1. /\ pc \in Sending /\ pc' = "next" /\ pc \notin Calling
        /\ outbox' = Append(outbox, GroupPacket(packet)) /\ acked' = acked \cup {packet}
        /\ UNCHANGED <<write_only_, want, peer, orphans, call, delivered,
                       packet, first, any_valid, any_failed, status>>
    BY <1>7, Zenon DEF WriteOk, Sending, Calling
  <2>2. packet \in Nat /\ packet \notin acked
    BY <2>1, Zenon DEF WriteInv, RequestInv
  <2>3. OnceInv'
    BY <2>1, <2>2, WriteOnce, Zenon DEF WriteInv
  <2>4. RequestInv'
    BY <2>1, SendingDone, Zenon DEF WriteInv
  <2>5. call = "idle"
    BY <1>0, <2>1, Zenon
  <2>6. OpenRequest(FALSE) \notin Range(outbox) => OpenRequest(FALSE) \notin Range(outbox')
    <3>1. PICK k \in Nat : k = packet
      BY <2>2, Zenon
    <3>2. Range(outbox') = Range(outbox) \cup {GroupPacket(k)}
      <4>1. outbox \in Seq(Packets \cup Opens) /\ IsInjective(outbox)
        BY Zenon DEF WriteInv, OnceInv
      <4>2. GroupPacket(k) \in Packets \cup Opens /\ GroupPacket(k) \notin Range(outbox)
        BY <2>2, <3>1, MessageKinds, Zenon DEF WriteInv, OnceInv, Waiting
      <4>3. Range(Append(outbox, GroupPacket(k))) = Range(outbox) \cup {GroupPacket(k)}
        BY <4>1, <4>2, AppendOnce
      <4> QED
        BY <2>1, <3>1, <4>3, Zenon
    <3>3. OpenRequest(FALSE) # GroupPacket(k)
      BY MessageKinds, Zenon
    <3> QED
      BY <3>2, <3>3, Zenon
  <2>7. /\ write_only_' = write_only_ /\ want' = want /\ peer' = peer /\ (write_only_' => write_only_)
        /\ call' = "idle" /\ call' \notin {"connect", "open"}
    BY <2>1, <2>5, Zenon
  <2>8. ModeInv'
    BY <2>6, <2>7, Zenon DEF WriteInv, ModeInv
  <2> QED
    BY <2>3, <2>4, <2>8, Zenon DEF WriteInv
<1>8. CASE RewriteFails
  <2>1. /\ pc \in Sending /\ pc \notin Calling /\ pc' = "next" /\ any_failed' = TRUE
        /\ UNCHANGED <<write_only_, want, peer, outbox, orphans, call, acked, delivered,
                       packet, first, any_valid, status>>
    BY <1>8, Zenon DEF RewriteFails, Failed, Sending, Calling, linkVars
  <2>2. call = "idle"
    BY <1>0, <2>1, Zenon
  <2> QED
    BY <2>1, <2>2, SameOnce, SameMode, SendingDone, Zenon DEF WriteInv
<1> QED
  BY <1>1, <1>2, <1>3, <1>4, <1>5, <1>6, <1>7, <1>8, Zenon DEF WriterStep

\* Every step keeps it.
LEMMA WriteNextInv == WriteInv /\ [Next]_vars => WriteInv'
<1> SUFFICES ASSUME WriteInv, [Next]_vars PROVE WriteInv'
  BY Zenon
<1>1. CASE Request
  <2>1. PICK addresses, session, v : Handle(addresses, session, v)
    BY <1>1, Zenon DEF Request
  <2>2. RequestInv'
    BY <2>1, HandleInv, Zenon DEF WriteInv
  <2>3. UNCHANGED <<write_only_, want, peer, outbox, orphans, call, acked, delivered>> /\ pc = "accept"
    BY <2>1, Zenon DEF Handle, linkVars
  <2>4. call = "idle"
    BY <2>3, Zenon DEF WriteInv, ModeInv, Calling
  <2> QED
    BY <2>2, <2>3, <2>4, SameOnce, SameMode, Zenon DEF WriteInv
<1>2. CASE DaemonWrites
  <2>1. /\ outbox # <<>> /\ Head(outbox).type = "packet" /\ outbox' = Tail(outbox)
        /\ delivered' = Append(delivered, Head(outbox).n)
        /\ UNCHANGED <<write_only_, want, peer, orphans, call, pc, packet, first, acked,
                       any_valid, any_failed, status>>
    BY <1>2, Zenon DEF DaemonWrites
  <2>2. OnceInv'
    BY <2>1, ServedOnce, Zenon DEF WriteInv
  <2>3. RequestInv'
    BY <2>1, SameRequest, Zenon DEF WriteInv
  <2>4. Range(outbox') \subseteq Range(outbox)
    <3>1. outbox \in Seq(Packets \cup Opens) /\ IsInjective(outbox) /\ outbox # <<>>
      BY <2>1, Zenon DEF WriteInv, OnceInv
    <3>2. Range(Tail(outbox)) = Range(outbox) \ {Head(outbox)}
      BY <3>1, TailOnce, Zenon
    <3> QED
      BY <2>1, <3>2, Zenon
  <2>5. /\ write_only_' = write_only_ /\ want' = want /\ peer' = peer /\ call' = call /\ pc' = pc
        /\ (write_only_' => write_only_)
    BY <2>1, Zenon
  <2>6. call \notin {"connect", "open"}
    BY <2>1, Zenon DEF WriteInv, ModeInv
  <2>7. ModeInv'
    BY <2>4, <2>5, <2>6, Zenon DEF WriteInv, ModeInv
  <2> QED
    BY <2>2, <2>3, <2>7, Zenon DEF WriteInv
<1>3. CASE DaemonWritesOrphan
  <2>1. /\ orphans # <<>> /\ orphans' = Tail(orphans)
        /\ delivered' = Append(delivered, Head(orphans).n)
        /\ UNCHANGED <<write_only_, want, peer, outbox, call, pc, packet, first, acked,
                       any_valid, any_failed, status>>
    BY <1>3, Zenon DEF DaemonWritesOrphan
  <2>2. OnceInv' /\ RequestInv'
    BY <2>1, OrphanOnce, SameRequest, Zenon DEF WriteInv
  <2>3. call # "idle" => pc' \in Calling
    BY <2>1, Zenon DEF WriteInv, ModeInv
  <2> QED
    BY <2>1, <2>2, <2>3, SameMode, Zenon DEF WriteInv
<1>4. CASE LinkStep /\ UNCHANGED writerVars
  <2>1. UNCHANGED <<pc, packet, first, acked, any_valid, any_failed, status>>
    BY <1>4, Zenon DEF writerVars
  <2> QED
    BY <1>4, <2>1, LinkStepInv, SameRequest, Zenon DEF WriteInv
<1>5. CASE DaemonActs
  <2>1. UNCHANGED <<pc, packet, first, acked, any_valid, any_failed, status>>
    BY <1>5, Zenon DEF DaemonActs
  <2> QED
    BY <1>5, <2>1, DaemonActsInv, SameRequest, Zenon DEF WriteInv
<1>6. CASE UNCHANGED vars
  <2>1. UNCHANGED <<write_only_, want, peer, outbox, orphans, call, delivered,
                    pc, packet, first, acked, any_valid, any_failed, status>>
    BY <1>6, Zenon DEF vars, linkVars, writerVars
  <2>2. call # "idle" => pc' \in Calling
    BY <2>1, Zenon DEF WriteInv, ModeInv
  <2> QED
    BY <2>1, <2>2, SameOnce, SameMode, SameRequest, Zenon DEF WriteInv
<1> QED
  BY <1>1, <1>2, <1>3, <1>4, <1>5, <1>6, WriterStepInv, Zenon DEF Next

\* WriteInv is an invariant.
LEMMA WriteInvariant == Spec => []WriteInv
BY WriteInitInv, WriteNextInv, PTL DEF Spec

\* Across broken and closed connections and the retry of send_group_packet no packet is
\* put on the bus twice, and none whose send failed, for every number of packets and
\* faults.
THEOREM PacketsOnceOnTheBus == Spec => []DeliveredOnce
<1>1. WriteInv => DeliveredOnce
  <2> SUFFICES ASSUME WriteInv PROVE DeliveredOnce
    BY Zenon
  <2>1. IsInjective(delivered) /\ Range(delivered) \subseteq Nat
    BY RangeOfSeq, Zenon DEF WriteInv, OnceInv
  <2>2. \A i \in DOMAIN delivered : delivered[i] \in Range(delivered)
    BY Zenon DEF Range
  <2>3. \A i \in DOMAIN delivered : delivered[i] \in acked
    BY <2>1, <2>2, Zenon DEF WriteInv, OnceInv
  <2> QED
    BY <2>1, <2>3, Zenon DEF DeliveredOnce, IsInjective
<1> QED
  BY WriteInvariant, <1>1, PTL

\* WriteHandler::handle answers 200, 503 or 404 as its packets were all sent, not all
\* sent, or none.
THEOREM AnswersAreHonest == Spec => []StatusHonest
<1>1. WriteInv => StatusHonest
  BY Zenon DEF WriteInv, RequestInv
<1> QED
  BY WriteInvariant, <1>1, PTL

\* reconnect() never gives the daemon a readable group socket once the worker has asked
\* for a write-only one.
THEOREM ModeIsRemembered == Spec => ModeRemembered
<1>1. ASSUME WriteInv, [Next]_vars
      PROVE  [write_only_ => write_only_' /\ peer' # "read_write"]_vars
  <2>1. WriteInv'
    BY <1>1, WriteNextInv, Zenon
  <2>2. write_only_ => write_only_'
    <3>1. CASE UNCHANGED write_only_
      BY <3>1, Zenon
    <3>2. CASE OpenSend
      <4>1. write_only_' = want.wo /\ call = "open"
        BY <3>2, Zenon DEF OpenSend
      <4>2. call \in {"connect", "open"}
        BY <4>1, Zenon
      <4>3. write_only_ => want.wo
        BY <1>1, <4>2, Zenon DEF WriteInv, ModeInv
      <4> QED
        BY <4>1, <4>3, Zenon
    <3>3. UNCHANGED write_only_ \/ OpenSend
      BY <1>1, Zenon DEF Next, Request, Handle, WriterStep, Spawn, Ready, NextAddress, Answer,
           SendReady, SendReconnect, Established, WriteOk, WriteFails, RewriteFails,
           DaemonWrites, DaemonWritesOrphan, LinkStep, ConnectOk, ConnectFails, OpenTimeout,
           OpenReply, OpenRefused, DaemonActs, DaemonStep, Fault, DaemonDies, DaemonHangs,
           DaemonRefuses, DaemonRecovers, DaemonOpens, BusTelegram, Establish, linkVars, vars
    <3> QED
      BY <3>1, <3>2, <3>3, Zenon
  <2>3. write_only_' => peer' # "read_write"
    BY <2>1, Zenon DEF WriteInv, ModeInv
  <2> QED
    BY <2>2, <2>3, Zenon
<1> QED
  BY <1>1, WriteInvariant, PTL DEF Spec, ModeRemembered
=============================================================================
