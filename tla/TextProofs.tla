------------------------------- MODULE TextProofs -------------------------------
(***************************************************************************)
(* Proofs about texts: the conversions between the text of a value and a   *)
(* telegram, the path of a request and its query string.                   *)
(***************************************************************************)
EXTENDS TelegramPath, RequestPath, QueryString, SequenceTheorems, FiniteSetTheorems,
        TLAPS

(***************************************************************************)
(* The conversions on the way of a value lose nothing, for every set of    *)
(* texts, addresses and telegrams.  The invariant says what the bytes of a *)
(* telegram in flight are, and what the cache holds for every group a      *)
(* telegram was meant for.                                                 *)
(***************************************************************************)

(* to_eibaddr packs the three parts of a group address into 16 bits, and    *)
(* from_eibaddr finds them again.                                           *)
LEMMA AddressRoundTrip ==
    ASSUME NEW g \in Group
    PROVE  /\ to_eibaddr(g) \in Nat /\ to_eibaddr(g) < 65536
           /\ from_eibaddr(to_eibaddr(g)) = g
<1>1. /\ g.main \in 0..31 /\ g.middle \in 0..7 /\ g.sub \in 0..255
      /\ g = [main |-> g.main, middle |-> g.middle, sub |-> g.sub]
    BY DEF Group, Octet
<1>2. PICK x \in 0..31, y \in 0..7, z \in 0..255 :
        g = [main |-> x, middle |-> y, sub |-> z]
    BY <1>1, Zenon
<1>3. PICK a \in Int : a = (x * 2048) + (y * 256) + z
    OBVIOUS
<1>4. to_eibaddr(g) = a
    BY <1>2, <1>3 DEF to_eibaddr
<1>5. /\ a \in Nat /\ a < 65536
      /\ (a \div 2048) % 32 = x /\ (a \div 256) % 8 = y /\ a % 256 = z
    <2>1. a \in Nat /\ a < 65536
        BY <1>3
    <2>2. a % 256 = z /\ (a \div 256) = (x * 8) + y
        BY <1>3
    <2>3. (a \div 2048) = x
        BY <1>3
    <2>4. ((x * 8) + y) % 8 = y
        OBVIOUS
    <2>5. x % 32 = x
        OBVIOUS
    <2> QED
        BY <2>1, <2>2, <2>3, <2>4, <2>5
<1>6. from_eibaddr(a) = [main |-> x, middle |-> y, sub |-> z]
    BY <1>5 DEF from_eibaddr
<1> QED
    BY <1>2, <1>4, <1>5, <1>6

(* Two groups never share a 16-bit address. *)
LEMMA AddressesDistinct ==
    ASSUME NEW g \in Group, NEW h \in Group, to_eibaddr(g) = to_eibaddr(h)
    PROVE  g = h
<1>1. from_eibaddr(to_eibaddr(g)) = g
    BY AddressRoundTrip
<1>2. from_eibaddr(to_eibaddr(h)) = h
    BY AddressRoundTrip
<1> QED
    BY <1>1, <1>2

(* The group address texts from_string accepts are groups. *)
LEMMA ParsedIsGroup ==
    ASSUME NEW parts \in Seq(Int), NEW g \in from_string(parts)
    PROVE  g \in Group /\ from_string(parts) = {g} /\ to_string(g) = parts
<1>1. /\ Len(parts) = 3
      /\ parts[1] \in 0..31 /\ parts[2] \in 0..7 /\ parts[3] \in 0..255
      /\ g = [main |-> parts[1], middle |-> parts[2], sub |-> parts[3]]
    BY DEF from_string
<1>2. g \in Group /\ from_string(parts) = {g}
    BY <1>1 DEF Group, Octet, from_string
<1>3. to_string(g) = <<parts[1], parts[2], parts[3]>>
    BY <1>1 DEF to_string
<1>4. parts = <<parts[1], parts[2], parts[3]>>
    BY <1>1
<1> QED
    BY <1>2, <1>3, <1>4

(* A group printed and parsed again is the same group. *)
LEMMA PrintedParses ==
    ASSUME NEW g \in Group
    PROVE  from_string(to_string(g)) = {g}
<1>1. g.main \in 0..31 /\ g.middle \in 0..7 /\ g.sub \in 0..255
        /\ g = [main |-> g.main, middle |-> g.middle, sub |-> g.sub]
    BY DEF Group, Octet
<1> QED
    BY <1>1 DEF from_string, to_string

(* hex_decode gives a sequence of numbers. *)
LEMMA DecodedIsSeq ==
    ASSUME NEW text \in Seq(Int)
    PROVE  hex_decode(text) \in Seq(Int)
<1>1. CASE Len(text) % 2 # 0 \/ \E i \in 1..Len(text) : text[i] \notin 0..15
    BY <1>1 DEF hex_decode
<1>2. CASE ~(Len(text) % 2 # 0 \/ \E i \in 1..Len(text) : text[i] \notin 0..15)
    <2>1. Len(text) \in Nat /\ (Len(text) \div 2) \in Nat
        OBVIOUS
    <2>2. \A i \in 1..(Len(text) \div 2) : (16 * text[2 * i - 1]) + text[2 * i] \in Int
        BY <2>1, SMTT(30)
    <2> QED
        BY <1>2, <2>1, <2>2 DEF hex_decode
<1> QED
    BY <1>1, <1>2

(* A sequence with one element put in front. *)
LEMMA OneInFront ==
    ASSUME NEW x \in Int, NEW s \in Seq(Int), NEW t, t = <<x>> \o s
    PROVE  /\ t \in Seq(Int) /\ Len(t) = 1 + Len(s)
           /\ t[1] = x
           /\ \A i \in 1..Len(s) : t[1 + i] = s[i]
OBVIOUS

(* A sequence with two elements put in front. *)
LEMMA TwoInFront ==
    ASSUME NEW x \in Int, NEW y \in Int, NEW s \in Seq(Int), NEW t,
           t = <<x, y>> \o s
    PROVE  /\ t \in Seq(Int) /\ Len(t) = 2 + Len(s)
           /\ t[1] = x /\ t[2] = y
           /\ \A i \in 1..Len(s) : t[2 + i] = s[i]
OBVIOUS

(* The bytes of a telegram as poll_group_telegram sees them: two of the      *)
(* sender, two of the group address, the APDU.                               *)
LEMMA WireBytes ==
    ASSUME NEW g \in Group, NEW h \in Seq(Int), NEW bytes,
           bytes = Carried(build_group_packet(to_eibaddr(g), << 0 >> \o h))
    PROVE  /\ bytes \in Seq(Int)
           /\ Len(bytes) = 5 + Len(h)
           /\ out_group_addr(bytes) = to_eibaddr(g)
           /\ out_apdu(bytes) = << 0 >> \o h
<1>1. PICK a \in Nat : a = to_eibaddr(g) /\ a < 65536
    BY AddressRoundTrip
<1>2. PICK u \in Int, l \in Int : u = a \div 256 /\ l = a % 256 /\ (u * 256) + l = a
    <2>1. ((a \div 256) * 256) + (a % 256) = a
        BY ONLY a \in Nat, SMT
    <2>2. (a \div 256) \in Int /\ (a % 256) \in Int
        BY ONLY a \in Nat, SMT
    <2> QED
        BY ONLY <2>1, <2>2, ZenonT(60)
<1>3. PICK s, r : /\ s = <<0>> \o h /\ r = <<u, l>> \o s
                  /\ bytes = <<0, 1>> \o r
    <2>1. bytes = <<0, 1>> \o (<<u, l>> \o (<<0>> \o h))
        BY <1>1, <1>2 DEF Carried, build_group_packet
    <2> QED
        BY ONLY <2>1, Zenon
<1>4. /\ bytes \in Seq(Int)
      /\ Len(bytes) = 5 + Len(h)
      /\ bytes[3] = u /\ bytes[4] = l
      /\ s \in Seq(Int) /\ Len(s) = 1 + Len(h)
      /\ \A i \in 1..Len(s) : bytes[4 + i] = s[i]
    <2>1. s \in Seq(Int) /\ Len(s) = 1 + Len(h)
        BY <1>3, OneInFront
    <2>2. /\ r \in Seq(Int) /\ Len(r) = 2 + Len(s)
          /\ r[1] = u /\ r[2] = l
          /\ \A i \in 1..Len(s) : r[2 + i] = s[i]
        BY <1>3, <2>1, TwoInFront, SMTT(60)
    <2>3. /\ bytes \in Seq(Int) /\ Len(bytes) = 2 + Len(r)
          /\ \A i \in 1..Len(r) : bytes[2 + i] = r[i]
        <3>1. bytes = <<0, 1>> \o r /\ r \in Seq(Int)
            BY <1>3, <2>2, Zenon
        <3> QED
            BY ONLY <3>1, SMT
    <2>4. bytes[2 + 1] = u /\ bytes[2 + 2] = l
        BY <2>2, <2>3, SMTT(60)
    <2>5. \A i \in 1..Len(s) : bytes[4 + i] = s[i]
        <3> TAKE i \in 1..Len(s)
        <3>1. (2 + i) \in 1..Len(r) /\ 2 + (2 + i) = 4 + i
            BY <2>1, <2>2
        <3> QED
            BY <2>2, <2>3, <3>1, Zenon
    <2> QED
        BY <2>1, <2>2, <2>3, <2>4, <2>5
<1>5. out_group_addr(bytes) = a
    BY <1>2, <1>4 DEF out_group_addr
<1>6. out_apdu(bytes) = s
    <2>1. /\ out_apdu(bytes) \in Seq(Int)
          /\ Len(out_apdu(bytes)) = Len(s)
          /\ \A i \in 1..Len(s) : out_apdu(bytes)[i] = bytes[4 + i]
        BY <1>4, SMTT(30) DEF out_apdu
    <2>2. \A i \in 1..Len(s) : out_apdu(bytes)[i] = s[i]
        BY <1>4, <2>1, Zenon
    <2> QED
        BY <1>4, <2>1, <2>2, SeqEqual, SMTT(30)
<1>7. out_apdu(bytes) = <<0>> \o h
    BY ONLY <1>3, <1>6, Zenon
<1>8. out_group_addr(bytes) = to_eibaddr(g)
    BY <1>1, <1>5
<1>9. bytes \in Seq(Int) /\ Len(bytes) = 5 + Len(h)
    BY ONLY <1>4, Zenon
<1> QED
    BY ONLY <1>7, <1>8, <1>9, Zenon

(* What hex_decode makes of a text it accepts. *)
LEMMA DecodedBytes ==
    ASSUME NEW text \in Seq(Int), hex_decode(text) # << >>
    PROVE  /\ Len(text) >= 2
           /\ Len(text) % 2 = 0
           /\ \A i \in 1..Len(text) : text[i] \in 0..15
           /\ Len(hex_decode(text)) = Len(text) \div 2
           /\ \A i \in 1..(Len(text) \div 2) :
                hex_decode(text)[i] = (16 * text[2 * i - 1]) + text[2 * i]
<1>1. /\ Len(text) % 2 = 0
      /\ \A i \in 1..Len(text) : text[i] \in 0..15
      /\ hex_decode(text) = [i \in 1..(Len(text) \div 2) |->
                               (16 * text[2 * i - 1]) + text[2 * i]]
    BY DEF hex_decode
<1>2. PICK n \in Nat : n = Len(text) \div 2 /\ Len(text) = 2 * n
    BY <1>1
<1>3. Len(hex_decode(text)) = n
    BY <1>1, <1>2, DecodedIsSeq
<1>4. n # 0
    BY <1>3, DecodedIsSeq, EmptySeq
<1> QED
    BY <1>1, <1>2, <1>3, <1>4

(* What parse_apdu and hex_encode make of the APDU for a text: the digits of *)
(* its value.                                                                *)
LEMMA ValueDigits ==
    ASSUME NEW text \in Seq(Int), hex_decode(text) # << >>, CarriesValue(text)
    PROVE  /\ parse_apdu(<< 0 >> \o hex_decode(text)).data \in Seq(Int)
           /\ hex_encode(parse_apdu(<< 0 >> \o hex_decode(text)).data) = Digits(text)
<1>1. PICK h \in Seq(Int) : h = hex_decode(text)
    BY DecodedIsSeq
<1>2. PICK n \in Nat : n >= 1 /\ Len(text) = 2 * n /\ Len(h) = n
    BY <1>1, DecodedBytes
<1>3. /\ \A i \in 1..(2 * n) : text[i] \in 0..15
      /\ \A i \in 1..n : h[i] = (16 * text[2 * i - 1]) + text[2 * i]
    BY <1>1, <1>2, DecodedBytes, Zenon
<1>4. PICK apdu : apdu = <<0>> \o h
    BY Zenon
<1>5. /\ apdu \in Seq(Int) /\ Len(apdu) = 1 + n
      /\ \A i \in 1..n : apdu[1 + i] = h[i]
    BY <1>2, <1>4, OneInFront
<1>6. PICK x \in 4..11, y \in 0..15 : x = text[1] /\ y = text[2]
    <2>1. 1 \in 1..(2 * n) /\ 2 \in 1..(2 * n)
        BY <1>2
    <2>2. text[1] \in 4..11 /\ text[2] \in 0..15
        BY <1>3, <2>1 DEF CarriesValue
    <2> QED
        BY <2>2, Zenon
<1>7. apdu[2] = (16 * x) + y
    <2>1. 1 \in 1..n /\ 2 * 1 - 1 = 1 /\ 2 * 1 = 2 /\ 1 + 1 = 2
        BY <1>2
    <2>2. apdu[2] = h[1] /\ h[1] = (16 * text[1]) + text[2]
        BY <1>3, <1>5, <2>1
    <2> QED
        BY <1>6, <2>2
<1>8. Apci(apdu[2]) \in {Response, Write} /\ apdu[2] % 64 = (16 * (x % 4)) + y
    <2>1. ((16 * x) + y) \div 64 \in {1, 2}
        OBVIOUS
    <2>2. ((16 * x) + y) % 64 = (16 * (x % 4)) + y
        OBVIOUS
    <2> QED
        BY <1>7, <2>1, <2>2 DEF Apci, Response, Write
<1>9. CASE n = 1
    <2>1. parse_apdu(apdu).data = <<(16 * (x % 4)) + y>>
        BY <1>5, <1>8, <1>9 DEF parse_apdu
    <2>2. PICK c \in Int : c = (16 * (x % 4)) + y
        OBVIOUS
    <2>3. (c \div 16) % 16 = x % 4 /\ c % 16 = y
        BY <2>2
    <2>4. hex_encode(<<c>>) = <<(c \div 16) % 16, c % 16>>
        <3>1. Len(<<c>>) = 1 /\ <<c>>[1] = c
            OBVIOUS
        <3>2. PICK out : out = hex_encode(<<c>>)
            OBVIOUS
        <3>3. out = [i \in 1..2 |-> IF i % 2 = 1
                                   THEN (<<c>>[(i + 1) \div 2] \div 16) % 16
                                   ELSE <<c>>[i \div 2] % 16]
            BY <3>1, <3>2 DEF hex_encode
        <3>4. out[1] = (c \div 16) % 16
            BY <3>1, <3>3
        <3>5. out[2] = c % 16
            <4>1. 2 \in 1..2 /\ 2 % 2 # 1 /\ 2 \div 2 = 1
                OBVIOUS
            <4>2. out[2] = <<c>>[2 \div 2] % 16
                BY ONLY <3>3, <4>1, Zenon
            <4> QED
                BY <3>1, <4>1, <4>2
        <3>6. out \in Seq(Int) /\ Len(out) = 2
            BY <3>3, <3>4, <3>5
        <3> QED
            BY <3>2, <3>4, <3>5, <3>6
    <2>5. Digits(text) = <<x % 4, y>>
        BY <1>2, <1>6, <1>9 DEF Digits
    <2>6. <<c>> \in Seq(Int)
        OBVIOUS
    <2> QED
        BY <1>1, <1>4, <2>1, <2>2, <2>3, <2>4, <2>5, <2>6, Zenon
<1>10. CASE n # 1
    <2>1. PICK data : data = SubSeq(apdu, 3, 1 + n)
        BY Zenon
    <2>2. parse_apdu(apdu).data = data
        BY <1>2, <1>5, <1>8, <1>10, <2>1 DEF parse_apdu
    <2>3. /\ data \in Seq(Int) /\ Len(data) = n - 1
          /\ \A i \in 1..(n - 1) : data[i] = h[i + 1]
        <3>1. /\ data \in Seq(Int) /\ Len(data) = n - 1
              /\ \A i \in 1..(n - 1) : data[i] = apdu[i + 2]
            BY <1>2, <1>5, <1>10, <2>1
        <3>2. \A i \in 1..(n - 1) : apdu[i + 2] = h[i + 1]
            <4> TAKE i \in 1..(n - 1)
            <4>1. (i + 1) \in 1..n /\ 1 + (i + 1) = i + 2
                BY <1>2
            <4> QED
                BY <1>5, <4>1
        <3> QED
            BY <3>1, <3>2
    <2>4. \A i \in 1..(n - 1) : data[i] = (16 * text[2 * i + 1]) + text[2 * i + 2]
        <3> TAKE i \in 1..(n - 1)
        <3>1. (i + 1) \in 1..n /\ 2 * (i + 1) - 1 = 2 * i + 1 /\ 2 * (i + 1) = 2 * i + 2
            BY <1>2
        <3> QED
            BY <1>3, <2>3, <3>1
    <2>5. PICK out : out = hex_encode(data)
        OBVIOUS
    <2>6. out = [i \in 1..(2 * (n - 1)) |->
                   IF i % 2 = 1 THEN (data[(i + 1) \div 2] \div 16) % 16
                                ELSE data[i \div 2] % 16]
        BY <2>3, <2>5 DEF hex_encode
    <2>7. \A i \in 1..(2 * (n - 1)) : out[i] = text[i + 2]
        <3> TAKE i \in 1..(2 * (n - 1))
        <3>1. CASE i % 2 = 1
            <4>1. PICK k \in 1..(n - 1) : k = (i + 1) \div 2 /\ i = 2 * k - 1
                BY <1>2, <3>1
            <4>2. PICK u \in 0..15, l \in 0..15 :
                    u = text[2 * k + 1] /\ l = text[2 * k + 2]
                <5>1. (2 * k + 1) \in 1..(2 * n) /\ (2 * k + 2) \in 1..(2 * n)
                    BY <1>2
                <5>2. text[2 * k + 1] \in 0..15 /\ text[2 * k + 2] \in 0..15
                    BY <1>3, <5>1
                <5> QED
                    BY <5>2, Zenon
            <4>3. ((16 * u) + l) \div 16 = u /\ u % 16 = u
                OBVIOUS
            <4>4. out[i] = (data[k] \div 16) % 16
                BY <2>6, <3>1, <4>1
            <4>5. data[k] = (16 * u) + l
                BY <2>4, <4>2
            <4>6. out[i] = u /\ i + 2 = 2 * k + 1
                BY <4>1, <4>3, <4>4, <4>5
            <4> QED
                BY <4>2, <4>6, Zenon
        <3>2. CASE i % 2 # 1
            <4>1. PICK k \in 1..(n - 1) : k = i \div 2 /\ i = 2 * k
                BY <1>2, <3>2
            <4>2. PICK u \in 0..15, l \in 0..15 :
                    u = text[2 * k + 1] /\ l = text[2 * k + 2]
                <5>1. (2 * k + 1) \in 1..(2 * n) /\ (2 * k + 2) \in 1..(2 * n)
                    BY <1>2
                <5>2. text[2 * k + 1] \in 0..15 /\ text[2 * k + 2] \in 0..15
                    BY <1>3, <5>1
                <5> QED
                    BY <5>2, Zenon
            <4>3. ((16 * u) + l) % 16 = l
                OBVIOUS
            <4>4. out[i] = data[k] % 16
                BY <2>6, <3>2, <4>1
            <4>5. data[k] = (16 * u) + l
                BY <2>4, <4>2
            <4>6. out[i] = l /\ i + 2 = 2 * k + 2
                BY <4>1, <4>3, <4>4, <4>5
            <4> QED
                BY <4>2, <4>6, Zenon
        <3> QED
            BY <3>1, <3>2
    <2>8. /\ Digits(text) = SubSeq(text, 3, 2 * n)
          /\ Digits(text) \in Seq(Int) /\ Len(Digits(text)) = 2 * (n - 1)
          /\ \A i \in 1..(2 * (n - 1)) : Digits(text)[i] = text[i + 2]
        BY <1>2, <1>10, SMTT(30) DEF Digits
    <2>9. out \in Seq(Int) /\ Len(out) = 2 * (n - 1)
        <3>1. \A i \in 1..(2 * (n - 1)) : out[i] \in Int
            BY <1>2, <2>7, SMTT(30)
        <3> QED
            BY <1>2, <2>6, <3>1
    <2>10. out = Digits(text)
        BY <2>7, <2>8, <2>9, SeqEqual
    <2> QED
        BY <1>1, <1>4, <2>2, <2>3, <2>5, <2>10, Zenon
<1> QED
    BY <1>9, <1>10

(* Without an entry's worth of bytes there are no digits. *)
LEMMA NothingEncoded == hex_encode(<< >>) = << >>
<1>1. Len(<< >>) = 0 /\ 1..(2 * 0) = {}
    OBVIOUS
<1> QED
    BY <1>1 DEF hex_encode

(* push cuts the bytes, and with them two digits for each byte it drops.     *)
LEMMA CutDigits ==
    ASSUME NEW d \in Seq(Int)
    PROVE  hex_encode(Stored(d)) =
             IF Len(hex_encode(d)) <= 2 * kMaxSharedValueBytes THEN hex_encode(d)
             ELSE SubSeq(hex_encode(d), 1, 2 * kMaxSharedValueBytes)
<1>1. PICK k \in Nat : k = kMaxSharedValueBytes
    BY TextAssumption
<1>2. PICK n \in Nat : n = Len(d)
    OBVIOUS
<1>3. PICK full : full = hex_encode(d)
    OBVIOUS
<1>4. /\ full \in Seq(Int) /\ Len(full) = 2 * n
      /\ \A i \in 1..(2 * n) :
           full[i] = IF i % 2 = 1 THEN (d[(i + 1) \div 2] \div 16) % 16
                                  ELSE d[i \div 2] % 16
    <2>1. full = [i \in 1..(2 * n) |->
                    IF i % 2 = 1 THEN (d[(i + 1) \div 2] \div 16) % 16
                                 ELSE d[i \div 2] % 16]
        BY <1>2, <1>3 DEF hex_encode
    <2>2. \A i \in 1..(2 * n) : full[i] \in Int
        <3> SUFFICES ASSUME NEW i \in 1..(2 * n) PROVE full[i] \in Int
            OBVIOUS
        <3>1. CASE i % 2 = 1
            <4>1. (i + 1) \div 2 \in 1..n
                BY <3>1
            <4> QED
                BY <1>2, <2>1, <3>1, <4>1
        <3>2. CASE i % 2 # 1
            <4>1. i \div 2 \in 1..n
                BY <3>2
            <4> QED
                BY <1>2, <2>1, <3>2, <4>1
        <3> QED
            BY <3>1, <3>2
    <2> QED
        BY <2>1, <2>2
<1>5. CASE n <= k
    <2>1. Stored(d) = d
        BY <1>1, <1>2, <1>5 DEF Stored
    <2> QED
        BY <1>1, <1>3, <1>4, <1>5, <2>1
<1>6. CASE n > k
    <2>1. PICK e : e = SubSeq(d, 1, k)
        BY Zenon
    <2>2. Stored(d) = e
        BY <1>1, <1>2, <1>6, <2>1 DEF Stored
    <2>3. e \in Seq(Int) /\ Len(e) = k /\ \A i \in 1..k : e[i] = d[i]
        BY <1>2, <1>6, <2>1
    <2>4. PICK cut : cut = hex_encode(e)
        OBVIOUS
    <2>5. cut = [i \in 1..(2 * k) |->
                    IF i % 2 = 1 THEN (e[(i + 1) \div 2] \div 16) % 16
                                 ELSE e[i \div 2] % 16]
        BY <2>3, <2>4 DEF hex_encode
    <2>6. \A i \in 1..(2 * k) : cut[i] = full[i]
        <3> SUFFICES ASSUME NEW i \in 1..(2 * k) PROVE cut[i] = full[i]
            OBVIOUS
        <3>1. i \in 1..(2 * n)
            BY <1>6
        <3>2. CASE i % 2 = 1
            <4>1. (i + 1) \div 2 \in 1..k
                BY <3>2
            <4> QED
                BY <1>4, <2>3, <2>5, <3>1, <3>2, <4>1, Zenon
        <3>3. CASE i % 2 # 1
            <4>1. i \div 2 \in 1..k
                BY <3>3
            <4> QED
                BY <1>4, <2>3, <2>5, <3>1, <3>3, <4>1, Zenon
        <3> QED
            BY <3>2, <3>3
    <2>7. PICK part : part = SubSeq(full, 1, 2 * k)
        BY Zenon
    <2>8. part \in Seq(Int) /\ Len(part) = 2 * k /\ \A i \in 1..(2 * k) : part[i] = full[i]
        BY <1>4, <1>6, <2>7
    <2>9. cut \in Seq(Int) /\ Len(cut) = 2 * k
        <3>1. \A i \in 1..(2 * k) : cut[i] \in Int
            BY <2>6, <2>8
        <3> QED
            BY <2>5, <3>1
    <2>10. cut = part
        BY <2>6, <2>8, <2>9, SeqEqual, Zenon
    <2>11. ~(Len(full) <= 2 * k)
        BY <1>4, <1>6
    <2> QED
        BY <1>1, <1>3, <2>2, <2>4, <2>7, <2>10, <2>11, Zenon
<1> QED
    BY <1>5, <1>6

(* What is left in the cache of the APDU for a text: the digits a reader     *)
(* should see.                                                               *)
LEMMA ShownValue ==
    ASSUME NEW text \in Seq(Int), hex_decode(text) # << >>
    PROVE  hex_encode(Stored(parse_apdu(<< 0 >> \o hex_decode(text)).data)) = Shown(text)
<1>1. PICK d : d = parse_apdu(<<0>> \o hex_decode(text)).data
    OBVIOUS
<1>2. d \in Seq(Int) /\ hex_encode(d) = Digits(text)
    <2>1. CASE CarriesValue(text)
        BY <1>1, <2>1, ValueDigits
    <2>2. CASE ~CarriesValue(text)
        <3>1. PICK h \in Seq(Int) : h = hex_decode(text)
            BY DecodedIsSeq
        <3>2. PICK n \in Nat : n >= 1 /\ Len(text) = 2 * n /\ Len(h) = n
            BY <3>1, DecodedBytes
        <3>3. /\ \A i \in 1..(2 * n) : text[i] \in 0..15
              /\ \A i \in 1..n : h[i] = (16 * text[2 * i - 1]) + text[2 * i]
            BY <3>1, <3>2, DecodedBytes, Zenon
        <3>4. PICK apdu : apdu = <<0>> \o h
            BY Zenon
        <3>5. /\ apdu \in Seq(Int) /\ Len(apdu) = 1 + n
              /\ \A i \in 1..n : apdu[1 + i] = h[i]
            BY <3>2, <3>4, OneInFront
        <3>6. PICK x \in 0..15, y \in 0..15 : x = text[1] /\ y = text[2]
            <4>1. 1 \in 1..(2 * n) /\ 2 \in 1..(2 * n)
                BY <3>2
            <4> QED
                BY <3>3, <4>1, Zenon
        <3>7. apdu[2] = (16 * x) + y
            <4>1. 1 \in 1..n /\ 2 * 1 - 1 = 1 /\ 2 * 1 = 2 /\ 1 + 1 = 2
                BY <3>2
            <4>2. apdu[2] = h[1] /\ h[1] = (16 * text[1]) + text[2]
                BY <3>3, <3>5, <4>1
            <4> QED
                BY <3>6, <4>2
        <3>8. Apci(apdu[2]) \notin {Response, Write}
            <4>1. x \notin 4..11
                BY <2>2, <3>6 DEF CarriesValue
            <4>2. ((16 * x) + y) \div 64 \notin {1, 2}
                BY <4>1
            <4> QED
                BY <3>7, <4>2 DEF Apci, Response, Write
        <3>9. d = << >>
            BY <1>1, <3>1, <3>4, <3>8 DEF parse_apdu
        <3> QED
            BY <2>2, <3>9, NothingEncoded DEF Digits
    <2> QED
        BY <2>1, <2>2
<1> QED
    BY <1>1, <1>2, CutDigits, Zenon DEF Shown

--------------------------------------------------------------------------
(* The telegrams that can be in flight: the bytes are those of the group     *)
(* and the text their sender meant.                                          *)
Meant ==
    {Telegram(s, g, v, <<0>> \o hex_decode(v)) :
        s \in {"client", "device"}, g \in Group, v \in Seq(Int)}

(* The cache holds, under the address of each group that has an entry, the   *)
(* value a reader of the last telegram for that group should see.            *)
ShownByGroup ==
    \A g \in DOMAIN last :
        to_eibaddr(g) \in Occupied =>
            hex_encode(cache[to_eibaddr(g)]) = Shown(last[g])

(* The slot that a lookup of 0/0/0 finds has nothing in it, or the value of  *)
(* the last telegram for 0/0/0.                                              *)
ShownForZero ==
    0 \in DOMAIN cache =>
        \/ cache[0] = << >>
        \/ \E g \in DOMAIN last :
             to_eibaddr(g) = 0 /\ hex_encode(cache[0]) = Shown(last[g])

(* A lookup of 0/0/0 finds a slot as long as one is empty. *)
TableInv ==
    /\ IsFiniteSet(Occupied)
    /\ Cardinality(Occupied) <= kSharedCacheCapacity
    /\ 0 \in DOMAIN cache <=> ~Full

IInv ==
    /\ bus \in Seq(Meant)
    /\ DOMAIN last \subseteq Group
    /\ TableInv
    /\ CachedByGroup
    /\ ShownByGroup
    /\ ShownForZero
    /\ ReadsWhatWasSent

(* insert_locked stores the value of an address that has a slot or gets one, *)
(* leaves the entries of the others alone, and drops the value only when all *)
(* slots are taken; the slot found for 0/0/0 keeps its value or is a fresh   *)
(* one.                                                                      *)
LEMMA Inserted ==
    ASSUME TableInv, NEW a \in Nat, NEW v, NEW table \in insert_locked(a, v)
    PROVE  /\ DOMAIN table \ {0} \subseteq Occupied \cup {a}
           /\ Occupied \subseteq DOMAIN table
           /\ \A x \in Occupied : x # a => table[x] = cache[x]
           /\ a \in DOMAIN table => table[a] = v
           /\ a # 0 /\ 0 \in DOMAIN table =>
                0 \in DOMAIN cache /\ table[0] \in {cache[0], << >>}
           /\ IsFiniteSet(DOMAIN table \ {0})
           /\ Cardinality(DOMAIN table \ {0}) <= kSharedCacheCapacity
           /\ 0 \in DOMAIN table <=>
                Cardinality(DOMAIN table \ {0}) # kSharedCacheCapacity
           /\ a \in DOMAIN table
              \/ Cardinality(DOMAIN table \ {0}) = kSharedCacheCapacity
<1>1. CASE a \in DOMAIN cache
    <2>1. table = Put(cache, a, v)
        BY <1>1 DEF insert_locked
    <2>2. /\ DOMAIN table = DOMAIN cache /\ table[a] = v
          /\ \A x \in DOMAIN cache : x # a => table[x] = cache[x]
        BY <1>1, <2>1 DEF Put
    <2>3. DOMAIN table \ {0} = Occupied
        BY <2>2 DEF Occupied
    <2> QED
        BY <1>1, <2>2, <2>3 DEF TableInv, Full, Occupied
<1>2. CASE a \notin DOMAIN cache /\ Full
    <2>1. table = cache
        BY <1>2 DEF insert_locked
    <2> QED
        BY <1>2, <2>1 DEF TableInv, Full, Occupied
<1>3. CASE a \notin DOMAIN cache /\ ~Full
    <2>1. 0 \in DOMAIN cache /\ a # 0 /\ a \notin Occupied
        BY <1>3 DEF TableInv, Occupied
    <2>2. PICK put : put = Put(cache, a, v)
        OBVIOUS
    <2>3. /\ DOMAIN put = DOMAIN cache \cup {a} /\ put[a] = v
          /\ \A x \in DOMAIN cache : put[x] = cache[x]
        BY <1>3, <2>2 DEF Put
    <2>4. PICK n \in Nat : n = Cardinality(Occupied)
        BY FS_CardinalityType DEF TableInv
    <2>5. IsFiniteSet(Occupied \cup {a}) /\ Cardinality(Occupied \cup {a}) = n + 1
        BY <2>1, <2>4, FS_AddElement DEF TableInv
    <2>6. n + 1 <= kSharedCacheCapacity
        BY <1>3, <2>4, TextAssumption DEF TableInv, Full
    <2>7. table \in IF n + 1 = kSharedCacheCapacity
                    THEN {[x \in DOMAIN put \ {0} |-> put[x]]}
                    ELSE {put, Put(put, 0, << >>)}
        BY <1>3, <2>2, <2>4 DEF insert_locked, WithNew
    <2>8. DOMAIN put \ {0} = Occupied \cup {a}
        BY <2>1, <2>3 DEF Occupied
    <2>9. CASE n + 1 = kSharedCacheCapacity
        <3>1. table = [x \in DOMAIN put \ {0} |-> put[x]]
            BY <2>7, <2>9
        <3>2. DOMAIN table = Occupied \cup {a} /\ \A x \in DOMAIN table : table[x] = put[x]
            BY <2>8, <3>1
        <3>3. 0 \notin DOMAIN table /\ DOMAIN table \ {0} = Occupied \cup {a}
            BY <2>1, <3>2 DEF Occupied
        <3>4. \A x \in Occupied : x \in DOMAIN cache
            BY DEF Occupied
        <3> QED
            BY <2>1, <2>3, <2>5, <2>6, <2>9, <3>2, <3>3, <3>4, Zenon
    <2>10. CASE n + 1 # kSharedCacheCapacity
        <3>1. /\ DOMAIN table = DOMAIN put
              /\ \A x \in DOMAIN put : x # 0 => table[x] = put[x]
              /\ table[0] \in {put[0], << >>}
            <4>1. CASE table = put
                BY <4>1
            <4>2. CASE table = Put(put, 0, << >>)
                BY <2>1, <2>3, <4>2 DEF Put
            <4> QED
                BY <2>7, <2>10, <4>1, <4>2
        <3>2. 0 \in DOMAIN table /\ DOMAIN table \ {0} = Occupied \cup {a}
            BY <2>1, <2>3, <2>8, <3>1
        <3>3. \A x \in Occupied : x \in DOMAIN cache /\ x # 0
            BY DEF Occupied
        <3> QED
            BY <2>1, <2>3, <2>5, <2>6, <2>10, <3>1, <3>2, <3>3
    <2> QED
        BY <2>9, <2>10
<1> QED
    BY <1>1, <1>2, <1>3

(* A state that differs in the bus and an empty reply only. *)
LEMMA OnlyBus ==
    ASSUME IInv, bus' \in Seq(Meant), UNCHANGED <<cache, last>>, reply' = {}
    PROVE  IInv'
BY Zenon DEF IInv, TableInv, Full, Occupied, CachedByGroup, ShownByGroup,
             ShownForZero, ReadsWhatWasSent

(* A client's write puts a telegram for the group it names on the bus. *)
LEMMA HandleWriteInv ==
    ASSUME IInv, NEW text \in Addresses, NEW v \in Values, HandleWrite(text, v)
    PROVE  IInv'
<1>1. PICK addr \in from_cometvisu(text), apdu \in ClientApdu(v) :
        bus' = Append(bus, Telegram("client", addr.group, v, apdu))
    BY DEF HandleWrite
<1>2. text.parts \in Seq(Int) /\ v \in Seq(Int)
    BY TextAssumption
<1>3. addr.group \in Group
    <2>1. addr.group \in from_string(text.parts)
        BY DEF from_cometvisu
    <2> QED
        BY <1>2, <2>1, ParsedIsGroup
<1>4. apdu = <<0>> \o hex_decode(v)
    BY DEF ClientApdu
<1>5. Telegram("client", addr.group, v, apdu) \in Meant
    BY <1>2, <1>3, <1>4 DEF Meant
<1>6. bus' \in Seq(Meant)
    BY <1>1, <1>5 DEF IInv
<1>7. cache' = cache /\ last' = last /\ reply' = {}
    BY DEF HandleWrite
<1> QED
    BY <1>6, <1>7, OnlyBus

(* So does a telegram of another device. *)
LEMMA ForeignInv ==
    ASSUME IInv, NEW g \in Groups, NEW v \in Foreign, ForeignTelegram(g, v)
    PROVE  IInv'
<1>1. v \in Seq(Int)
    BY TextAssumption
<1>2. g \in Group
    <2>1. PICK text \in Addresses : g \in from_string(text.parts)
        BY DEF Groups
    <2>2. text.parts \in Seq(Int)
        BY TextAssumption
    <2> QED
        BY <2>1, <2>2, ParsedIsGroup
<1>3. Telegram("device", g, v, <<0>> \o hex_decode(v)) \in Meant
    BY <1>1, <1>2 DEF Meant
<1>4. bus' \in Seq(Meant)
    BY <1>3 DEF IInv, ForeignTelegram
<1>5. cache' = cache /\ last' = last /\ reply' = {}
    BY DEF ForeignTelegram
<1> QED
    BY <1>4, <1>5, OnlyBus

(* drain_telegrams stores a value where readers of its group look, and       *)
(* leaves the entry of every other group alone.                              *)
LEMMA DrainInv ==
    ASSUME IInv, Drain
    PROVE  IInv'
<1>1. Head(bus) \in Meant /\ bus' \in Seq(Meant) /\ reply' = {}
    BY DEF IInv, Drain
<1>2. PICK s \in {"client", "device"}, g \in Group, v \in Seq(Int) :
        Head(bus) = Telegram(s, g, v, <<0>> \o hex_decode(v))
    BY <1>1 DEF Meant
<1>3. PICK h \in Seq(Int) : h = hex_decode(v)
    BY DecodedIsSeq
<1>4. PICK bytes : /\ bytes = Carried(build_group_packet(to_eibaddr(g), << 0 >> \o h))
                   /\ Head(bus).bytes = bytes
                   /\ Head(bus).group = g /\ Head(bus).text = v
    BY <1>2, <1>3 DEF Telegram
<1>5. /\ Len(bytes) = 5 + Len(h)
      /\ out_group_addr(bytes) = to_eibaddr(g)
      /\ out_apdu(bytes) = <<0>> \o h
    BY <1>4, WireBytes, Zenon
<1>6. CASE UNCHANGED <<cache, last>>
    BY <1>1, <1>6, OnlyBus
<1>7. CASE ~(UNCHANGED <<cache, last>>)
    <2>1. PICK a, d : a = to_eibaddr(g) /\ d = Stored(parse_apdu(<<0>> \o h).data)
        OBVIOUS
    <2>2. /\ ~(Len(bytes) < 6)
          /\ cache' \in insert_locked(a, d)
          /\ last' = Put(last, g, v)
        BY <1>4, <1>5, <1>7, <2>1, Zenon DEF Drain
    <2>3. h # << >>
        BY <1>5, <2>2
    <2>4. a \in Nat /\ TableInv
        BY <2>1, AddressRoundTrip DEF IInv
    <2>5. /\ Occupied' \subseteq Occupied \cup {a}
          /\ Occupied \subseteq Occupied'
          /\ \A x \in Occupied : x # a => cache'[x] = cache[x]
          /\ a \in DOMAIN cache' => cache'[a] = d
          /\ a # 0 /\ 0 \in DOMAIN cache' =>
               0 \in DOMAIN cache /\ cache'[0] \in {cache[0], << >>}
          /\ TableInv'
          /\ a \in DOMAIN cache' \/ Full'
        <3>1. PICK table \in insert_locked(a, d) : cache' = table
            BY <2>2
        <3>2. Occupied' = DOMAIN table \ {0}
            BY <3>1 DEF Occupied
        <3>3. 0 \notin Occupied
            BY DEF Occupied
        <3>4. /\ DOMAIN table \ {0} \subseteq Occupied \cup {a}
              /\ Occupied \subseteq DOMAIN table
              /\ \A x \in Occupied : x # a => table[x] = cache[x]
              /\ a \in DOMAIN table => table[a] = d
              /\ a # 0 /\ 0 \in DOMAIN table =>
                   0 \in DOMAIN cache /\ table[0] \in {cache[0], << >>}
            BY <2>4, Inserted, Zenon
        <3>5. /\ IsFiniteSet(DOMAIN table \ {0})
              /\ Cardinality(DOMAIN table \ {0}) <= kSharedCacheCapacity
              /\ 0 \in DOMAIN table <=>
                   Cardinality(DOMAIN table \ {0}) # kSharedCacheCapacity
              /\ a \in DOMAIN table
                 \/ Cardinality(DOMAIN table \ {0}) = kSharedCacheCapacity
            BY <2>4, Inserted
        <3>6. Occupied \subseteq Occupied'
            BY <3>2, <3>3, <3>4
        <3> QED
            BY <3>1, <3>2, <3>4, <3>5, <3>6, Zenon DEF TableInv, Full
    <2>6. /\ DOMAIN last' = DOMAIN last \cup {g} /\ last'[g] = v
          /\ \A x \in DOMAIN last : x # g => last'[x] = last[x]
        BY <2>2 DEF Put
    <2>7. (DOMAIN last \subseteq Group)'
        BY <2>6 DEF IInv
    <2>8. CachedByGroup'
        <3>1. Occupied' \subseteq {to_eibaddr(x) : x \in DOMAIN last'}
            BY <2>1, <2>5, <2>6 DEF IInv, CachedByGroup
        <3>2. ASSUME ~Full', NEW x \in DOMAIN last'
              PROVE  to_eibaddr(x) \in DOMAIN cache'
            <4>1. CASE x = g
                BY <2>1, <2>5, <3>2, <4>1
            <4>2. CASE to_eibaddr(x) = 0
                BY <2>5, <3>2, <4>2 DEF TableInv
            <4>3. CASE x # g /\ to_eibaddr(x) # 0
                <5>1. x \in DOMAIN last
                    BY <2>6, <4>3
                <5>2. ~Full
                    <6>1. SUFFICES ASSUME Full PROVE FALSE
                        OBVIOUS
                    <6>2. IsFiniteSet(Occupied') /\ Occupied \subseteq Occupied'
                        BY <2>5 DEF TableInv
                    <6>3. /\ Cardinality(Occupied) <= Cardinality(Occupied')
                          /\ Cardinality(Occupied) \in Nat /\ Cardinality(Occupied') \in Nat
                        BY <6>2, FS_Subset, FS_CardinalityType
                    <6> QED
                        BY <2>5, <3>2, <6>1, <6>3, TextAssumption DEF Full, TableInv
                <5>3. to_eibaddr(x) \in Occupied
                    BY <4>3, <5>1, <5>2 DEF IInv, CachedByGroup, Occupied
                <5> QED
                    BY <2>5, <5>3 DEF Occupied
            <4> QED
                BY <4>1, <4>2, <4>3
        <3> QED
            BY <2>5, <3>1, <3>2 DEF CachedByGroup, TableInv
    <2>9. hex_encode(d) = Shown(v)
        BY <1>3, <2>1, <2>3, ShownValue
    <2>10. ShownByGroup'
        <3> SUFFICES ASSUME NEW x \in DOMAIN last', to_eibaddr(x) \in Occupied'
                     PROVE  hex_encode(cache'[to_eibaddr(x)]) = Shown(last'[x])
            BY DEF ShownByGroup
        <3>1. CASE x = g
            BY <2>1, <2>5, <2>6, <2>9, <3>1 DEF Occupied
        <3>2. CASE x # g
            <4>1. x \in DOMAIN last /\ x \in Group /\ last'[x] = last[x]
                BY <2>6, <3>2 DEF IInv
            <4>2. to_eibaddr(x) # a
                BY <2>1, <3>2, <4>1, AddressesDistinct
            <4>3. to_eibaddr(x) \in Occupied
                BY <2>5, <4>2
            <4>4. cache'[to_eibaddr(x)] = cache[to_eibaddr(x)]
                BY <2>5, <4>2, <4>3
            <4> QED
                BY <4>1, <4>3, <4>4 DEF IInv, ShownByGroup
        <3> QED
            BY <3>1, <3>2
    <2>11. ShownForZero'
        <3> SUFFICES ASSUME 0 \in DOMAIN cache'
                     PROVE  \/ cache'[0] = << >>
                            \/ \E x \in DOMAIN last' :
                                 /\ to_eibaddr(x) = 0
                                 /\ hex_encode(cache'[0]) = Shown(last'[x])
            BY DEF ShownForZero
        <3>1. CASE a = 0
            BY <2>1, <2>5, <2>6, <2>9, <3>1
        <3>2. CASE a # 0 /\ cache'[0] # << >>
            <4>1. 0 \in DOMAIN cache /\ cache'[0] = cache[0]
                BY <2>5, <3>2
            <4>2. PICK x \in DOMAIN last :
                    to_eibaddr(x) = 0 /\ hex_encode(cache[0]) = Shown(last[x])
                BY <3>2, <4>1 DEF IInv, ShownForZero
            <4>3. x # g
                BY <2>1, <3>2, <4>2
            <4> QED
                BY <2>6, <4>1, <4>2, <4>3
        <3> QED
            BY <3>1, <3>2
    <2>12. ReadsWhatWasSent'
        BY <1>1 DEF ReadsWhatWasSent
    <2> QED
        BY <1>1, <2>5, <2>7, <2>8, <2>10, <2>11, <2>12 DEF IInv
<1> QED
    BY <1>6, <1>7

(* A read answers with the key and the value of the group asked for. *)
LEMMA HandleReadInv ==
    ASSUME IInv, NEW text \in Addresses, HandleRead(text)
    PROVE  IInv'
<1>1. bus' = bus /\ cache' = cache /\ last' = last
    BY DEF HandleRead
<1>2. text.parts \in Seq(Int)
    BY TextAssumption
<1>3. ReadsWhatWasSent'
    <2> SUFFICES ASSUME NEW m \in reply'
                 PROVE  \E g \in from_string(m.asked.parts) :
                            /\ from_string(m.key.parts) = {g}
                            /\ m.asked.ns = PrintedNs => m.key = m.asked
                            /\ \/ g \in DOMAIN last /\ m.value = Shown(last[g])
                               \/ to_eibaddr(g) = 0 /\ m.value = << >>
        BY <1>1 DEF ReadsWhatWasSent
    <2>1. PICK addr \in from_cometvisu(text), a \in DOMAIN cache :
            /\ a = to_eibaddr(addr.group)
            /\ m = [asked |-> text, key |-> addr_key(a), value |-> hex_encode(cache[a])]
        BY DEF HandleRead
    <2>2. PICK g : g \in from_string(text.parts) /\ addr.group = g
        BY DEF from_cometvisu
    <2>3. g \in Group
        BY <1>2, <2>2, ParsedIsGroup
    <2>4. m.key = [ns |-> PrintedNs, parts |-> to_string(g)]
        <3>1. from_eibaddr(a) = g
            BY <2>1, <2>2, <2>3, AddressRoundTrip
        <3> QED
            BY <2>1, <3>1, Zenon DEF addr_key, to_cometvisu, PrintedNs
    <2>5. from_string(m.key.parts) = {g}
        BY <2>3, <2>4, PrintedParses
    <2>6. m.asked.ns = PrintedNs => m.key = m.asked
        <3>1. text = [ns |-> text.ns, parts |-> text.parts]
            BY TextAssumption
        <3>2. text.parts = to_string(g)
            BY <1>2, <2>2 DEF from_string, to_string
        <3> QED
            BY <2>1, <2>4, <3>1, <3>2, Zenon
    <2>7. CASE a # 0
        <3>1. a \in Occupied
            BY <2>7 DEF Occupied
        <3>2. PICK x \in DOMAIN last : to_eibaddr(x) = to_eibaddr(g)
            BY <2>1, <2>2, <3>1 DEF IInv, CachedByGroup
        <3>3. g \in DOMAIN last
            BY <2>3, <3>2, AddressesDistinct DEF IInv
        <3>4. m.value = Shown(last[g])
            BY <2>1, <2>2, <3>1, <3>3 DEF IInv, ShownByGroup
        <3> QED
            BY <2>1, <2>2, <2>5, <2>6, <3>3, <3>4
    <2>8. CASE a = 0 /\ cache[0] = << >>
        BY <2>1, <2>2, <2>5, <2>6, <2>8, NothingEncoded
    <2>9. CASE a = 0 /\ cache[0] # << >>
        <3>1. PICK x \in DOMAIN last :
                to_eibaddr(x) = 0 /\ hex_encode(cache[0]) = Shown(last[x])
            BY <2>9 DEF IInv, ShownForZero
        <3>2. x = g
            BY <2>1, <2>2, <2>3, <2>9, <3>1, AddressesDistinct, Zenon DEF IInv
        <3> QED
            BY <2>1, <2>2, <2>5, <2>6, <2>9, <3>1, <3>2
    <2> QED
        BY <2>7, <2>8, <2>9
<1> QED
    BY <1>1, <1>3 DEF IInv, TableInv, Full, Occupied, CachedByGroup, ShownByGroup,
                      ShownForZero

(* IInv is an invariant: one step for each action. *)
LEMMA Inductive == Spec => []IInv
<1>1. Init => IInv
    <2> SUFFICES ASSUME Init PROVE IInv
        OBVIOUS
    <2>1. DOMAIN cache = {0} /\ cache[0] = << >> /\ Occupied = {}
        BY DEF Init, Occupied
    <2>2. IsFiniteSet({}) /\ Cardinality({}) = 0
        BY FS_EmptySet
    <2>3. TableInv
        BY <2>1, <2>2, TextAssumption DEF TableInv, Full
    <2>4. CachedByGroup
        BY <2>1, <2>3 DEF Init, TableInv, CachedByGroup
    <2> QED
        BY <2>1, <2>3, <2>4
           DEF Init, IInv, ShownByGroup, ShownForZero, ReadsWhatWasSent
<1>2. IInv /\ [Next]_vars => IInv'
    <2> SUFFICES ASSUME IInv, [Next]_vars PROVE IInv'
        OBVIOUS
    <2>1. CASE UNCHANGED vars
        BY <2>1, Zenon
           DEF vars, IInv, TableInv, Full, Occupied, CachedByGroup, ShownByGroup,
               ShownForZero, ReadsWhatWasSent
    <2>2. ASSUME NEW text \in Addresses, NEW v \in Values, HandleWrite(text, v)
          PROVE  IInv'
        BY <2>2, HandleWriteInv
    <2>3. ASSUME NEW g \in Groups, NEW v \in Foreign, ForeignTelegram(g, v)
          PROVE  IInv'
        BY <2>3, ForeignInv
    <2>4. CASE Drain
        BY <2>4, DrainInv
    <2>5. ASSUME NEW text \in Addresses, HandleRead(text)
          PROVE  IInv'
        BY <2>5, HandleReadInv
    <2> QED
        BY <2>1, <2>2, <2>3, <2>4, <2>5 DEF Next
<1> QED
    BY <1>1, <1>2, PTL DEF Spec

(* Whatever the texts, addresses and foreign telegrams, the room for a value *)
(* and the size of the table, a reader of a group gets the digits last sent  *)
(* to that group, as many as an entry has room for, under a key that parses  *)
(* to that group: hex_decode, the APDU, the big-endian address bytes,        *)
(* parse_apdu, the cut in push, hex_encode and the printed key lose nothing  *)
(* else in between.                                                          *)
THEOREM ValuesArriveUnchanged == Spec => []ReadsWhatWasSent
<1>1. IInv => ReadsWhatWasSent
    BY DEF IInv
<1> QED
    BY <1>1, Inductive, PTL

(* A slot of the cache is taken only for a group that a telegram was meant   *)
(* for, and each of these groups is found unless all slots are taken:        *)
(* to_eibaddr, build_group_packet and poll_group_telegram never confuse two  *)
(* groups, and insert_locked drops values only of a full table.              *)
THEOREM GroupsNeverConfused == Spec => []CachedByGroup
<1>1. IInv => CachedByGroup
    BY DEF IInv
<1> QED
    BY <1>1, Inductive, PTL

(***************************************************************************)
(* A request reaches the handler of the name it asks for.  No induction is *)
(* needed: where the first '?' and the last '/' are is known from how a    *)
(* request is put together.                                                *)
(***************************************************************************)

(* find() gives the first place of a character. *)
LEMMA FirstPlace ==
    ASSUME NEW t \in Seq(Char), NEW ch, NEW n \in Places(t, ch),
           \A i \in Places(t, ch) : n <= i
    PROVE  find(t, ch) = n
<1> DEFINE S == Places(t, ch)
<1>1. S \subseteq Nat
    BY DEF Places
<1> HIDE DEF S
<1>2. find(t, ch) \in S /\ \A y \in S : find(t, ch) <= y
    BY Zenon DEF find, S
<1>3. n \in S /\ \A i \in S : n <= i
    BY Zenon DEF S
<1>4. find(t, ch) \in Nat /\ n \in Nat /\ find(t, ch) <= n /\ n <= find(t, ch)
    BY <1>1, <1>2, <1>3, Zenon
<1> QED
    BY <1>4

(* rfind() gives the last one. *)
LEMMA LastPlace ==
    ASSUME NEW t \in Seq(Char), NEW ch, NEW n \in Places(t, ch),
           \A i \in Places(t, ch) : n >= i
    PROVE  rfind(t, ch) = n
<1> DEFINE S == Places(t, ch)
<1>1. S \subseteq Nat
    BY DEF Places
<1> HIDE DEF S
<1>2. rfind(t, ch) \in S /\ \A y \in S : rfind(t, ch) >= y
    BY Zenon DEF rfind, S
<1>3. n \in S /\ \A i \in S : n >= i
    BY Zenon DEF S
<1>4. rfind(t, ch) \in Nat /\ n \in Nat /\ rfind(t, ch) >= n /\ n >= rfind(t, ch)
    BY <1>1, <1>2, <1>3, Zenon
<1> QED
    BY <1>4

(* Two texts, one after the other. *)
LEMMA Joined ==
    ASSUME NEW s \in Seq(Char), NEW e \in Seq(Char), NEW t, t = s \o e
    PROVE  /\ t \in Seq(Char) /\ Len(t) = Len(s) + Len(e)
           /\ \A i \in 1..Len(s) : t[i] = s[i]
           /\ \A i \in 1..Len(e) : t[Len(s) + i] = e[i]
           /\ \A i \in Len(s) + 1 .. Len(t) : t[i] = e[i - Len(s)]
OBVIOUS

(* A text of two characters, put together. *)
LEMMA OneMore ==
    ASSUME NEW n \in Seq(Char), NEW x \in Char, NEW c \in Char
    PROVE  (<<x>> \o n = <<x, c>>) <=> (n = <<c>>)
<1> DEFINE e == <<x>> \o n
<1>1. /\ e \in Seq(Char) /\ Len(e) = 1 + Len(n) /\ e[1] = x
      /\ \A i \in 1..Len(n) : e[1 + i] = n[i]
    OBVIOUS
<1> HIDE DEF e
<1>2. (n = <<c>>) <=> (Len(n) = 1 /\ n[1] = c)
    OBVIOUS
<1>3. (e = <<x, c>>) <=> (Len(e) = 2 /\ e[1] = x /\ e[2] = c)
    BY <1>1
<1> QED
    BY <1>1, <1>2, <1>3 DEF e

(* An endpoint is a name with a '/' in front. *)
LEMMA SlashInFront ==
    ASSUME NEW n \in Seq(Char), NEW e, e = <<"/">> \o n
    PROVE  /\ e \in Seq(Char) /\ Len(e) = 1 + Len(n) /\ e[1] = "/"
           /\ \A i \in 2..Len(e) : e[i] = n[i - 1]
<1>1. "/" \in Char
    BY RequestAssumption
<1> QED
    BY <1>1

(* A text of one character, and one of two. *)
LEMMA ShortTexts ==
    ASSUME NEW n \in Seq(Char), NEW a, NEW c
    PROVE  /\ (n = <<c>>) <=> (Len(n) = 1 /\ n[1] = c)
           /\ (n = <<a, c>>) <=> (Len(n) = 2 /\ n[1] = a /\ n[2] = c)
OBVIOUS

(* The first '?' of a text that has none before its query is the query's. *)
LEMMA QueryCutOff ==
    ASSUME NEW s \in Seq(Char), \A i \in DOMAIN s : s[i] # "?",
           NEW q \in Seq(Char), q # << >> => q[1] = "?"
    PROVE  WithoutQuery(s \o q) = s
<1> DEFINE t == s \o q
           I == Places(t, "?")
<1>1. /\ t \in Seq(Char) /\ Len(t) = Len(s) + Len(q)
      /\ \A i \in 1..Len(s) : t[i] = s[i]
      /\ \A i \in 1..Len(q) : t[Len(s) + i] = q[i]
    OBVIOUS
<1>2. \A i \in 1..Len(s) : t[i] # "?"
    BY <1>1
<1>3. CASE q = << >>
    <2>1. I = {} /\ t = s
        BY <1>1, <1>2, <1>3 DEF Places
    <2> QED
        BY <2>1, Zenon DEF WithoutQuery
<1>4. CASE q # << >>
    <2> DEFINE n == Len(s) + 1
    <2>1. n \in I /\ \A i \in I : n <= i
        BY <1>1, <1>2, <1>4 DEF Places
    <2>2. find(t, "?") = n
        BY <1>1, <2>1, FirstPlace, Zenon
    <2>3. WithoutQuery(t) = SubSeq(t, 1, n - 1)
        BY <2>1, <2>2, Zenon DEF WithoutQuery
    <2> HIDE DEF I
    <2>4. SubSeq(t, 1, n - 1) = s
        BY <1>1
    <2> QED
        BY <2>3, <2>4, Zenon
<1> QED
    BY <1>3, <1>4

(* The last '/' of a text is the one before a name without any. *)
LEMMA NameIsLast ==
    ASSUME NEW m \in Seq(Char), NEW n \in Seq(Char), \A i \in DOMAIN n : n[i] # "/"
    PROVE  /\ HasSlash(m \o (<<"/">> \o n))
           /\ LastComponent(m \o (<<"/">> \o n)) = <<"/">> \o n
<1> DEFINE e == <<"/">> \o n
           t == m \o e
           I == Places(t, "/")
           p == Len(m) + 1
<1>1. /\ e \in Seq(Char) /\ Len(e) = 1 + Len(n) /\ e[1] = "/"
      /\ \A i \in 2..Len(e) : e[i] = n[i - 1]
    BY SlashInFront, Zenon
<1> HIDE DEF e
<1>2. /\ t \in Seq(Char) /\ Len(t) = Len(m) + Len(e)
      /\ \A i \in 1..Len(e) : t[Len(m) + i] = e[i]
    BY <1>1, Joined
<1>3. \A i \in 2..Len(e) : e[i] # "/"
    BY <1>1
<1>4. \A i \in p + 1 .. Len(t) : t[i] # "/"
    <2> TAKE i \in p + 1 .. Len(t)
    <2>1. i - Len(m) \in 2..Len(e) /\ i = Len(m) + (i - Len(m))
        BY <1>1, <1>2
    <2> QED
        BY <1>2, <1>3, <2>1
<1>5. p \in I /\ \A i \in I : p >= i
    BY <1>1, <1>2, <1>4 DEF Places
<1>6. HasSlash(t)
    BY <1>5, Zenon DEF HasSlash
<1>7. rfind(t, "/") = p
    BY <1>2, <1>5, LastPlace, Zenon
<1>8. LastComponent(t) = SubSeq(t, p, Len(t))
    BY <1>7, Zenon DEF LastComponent
<1>9. SubSeq(t, p, Len(t)) = e
    BY <1>1, <1>2
<1> QED
    BY <1>6, <1>8, <1>9, Zenon DEF e

(* What is left when a mount is cut off its front. *)
LEMMA MountCutOff ==
    ASSUME NEW m \in Seq(Char), NEW e \in Seq(Char), e # << >>
    PROVE  PathFromUri(m \o e, m) = e
<1>1. /\ m \o e \in Seq(Char) /\ Len(m \o e) = Len(m) + Len(e)
    OBVIOUS
<1>2. Len(m) <= Len(m \o e) /\ SubSeq(m \o e, 1, Len(m)) = m
    OBVIOUS
<1>3. SubSeq(m \o e, Len(m) + 1, Len(m \o e)) = e
    OBVIOUS
<1>4. m = << >> => m \o e = e
    OBVIOUS
<1>5. StartsWith(m \o e, m)
    BY <1>2, Zenon DEF StartsWith
<1> QED
    BY <1>3, <1>4, <1>5, Zenon DEF PathFromUri

(* path() is the endpoint that was asked for; only a server that gives      *)
(* nothing but the script leaves the root itself without a path.            *)
LEMMA PathIsEndpoint ==
    ASSUME NEW r \in Requests, MountKnown(r)
    PROVE  \/ path(Environment(r)) = Endpoint(r)
           \/ r.name = << >> /\ path(Environment(r)) = << >>
<1> DEFINE m == r.mount
           n == r.name
           q == r.query
           e == <<"/">> \o n
           s == m \o e
<1>1. /\ m \in Mounts /\ n \in Names /\ q \in Queries
      /\ r.sets \in {"path_info", "script_and_uri", "endpoint_script_and_uri",
                     "endpoint_script", "uri"}
    BY DEF Requests
<1>2. /\ m \in Seq(Char) /\ \A i \in DOMAIN m : m[i] # "?"
      /\ n \in Seq(Char) /\ \A i \in DOMAIN n : n[i] # "?" /\ n[i] # "/"
      /\ q \in Seq(Char) /\ (q # << >> => q[1] = "?")
    BY <1>1, RequestAssumption
<1> HIDE DEF m, n, q
<1>3. /\ e \in Seq(Char) /\ Len(e) = 1 + Len(n) /\ e # << >>
      /\ \A i \in DOMAIN e : e[i] # "?"
    <2>1. /\ e \in Seq(Char) /\ Len(e) = 1 + Len(n) /\ e[1] = "/"
          /\ \A i \in 2..Len(e) : e[i] = n[i - 1]
        BY <1>2, SlashInFront, Zenon
    <2> HIDE DEF e
    <2>2. \A i \in DOMAIN e : i = 1 \/ (i \in 2..Len(e) /\ i - 1 \in DOMAIN n)
        BY <1>2, <2>1
    <2>3. \A i \in DOMAIN e : e[i] # "?"
        BY <1>2, <2>1, <2>2
    <2>4. e # << >>
        BY <1>2, <2>1
    <2> QED
        BY <2>1, <2>3, <2>4
<1>4. n # << >> => e # <<"/">>
    <2>1. n # << >> => Len(n) # 0
        BY <1>2
    <2> HIDE DEF e
    <2> QED
        BY <1>2, <1>3, <2>1, ShortTexts, SMTT(30)
<1>5. n = << >> => e = <<"/">>
    BY <1>2
<1>6. Endpoint(r) = e
    BY DEF Endpoint, n
<1>7. HasSlash(s) /\ LastComponent(s) = e
    BY <1>2, NameIsLast
<1> HIDE DEF e
<1>8. /\ s \in Seq(Char) /\ Len(s) = Len(m) + Len(e) /\ s # << >>
      /\ \A i \in DOMAIN s : s[i] # "?"
    <2>1. /\ s \in Seq(Char) /\ Len(s) = Len(m) + Len(e)
          /\ \A i \in 1..Len(m) : s[i] = m[i]
          /\ \A i \in Len(m) + 1 .. Len(s) : s[i] = e[i - Len(m)]
        <3>1. m \in Seq(Char) /\ e \in Seq(Char)
            BY <1>2, <1>3
        <3> QED
            BY <3>1, Joined
    <2> HIDE DEF s
    <2>2. \A i \in DOMAIN s : i \in DOMAIN m \/ (i \in Len(m) + 1 .. Len(s) /\ i - Len(m) \in DOMAIN e)
        BY <1>2, <1>3, <2>1
    <2>3. \A i \in DOMAIN s : s[i] # "?"
        <3> TAKE i \in DOMAIN s
        <3>1. CASE i \in DOMAIN m
            <4>1. i \in 1..Len(m)
                BY <1>2, <3>1
            <4> QED
                BY <1>2, <2>1, <3>1, <4>1
        <3>2. CASE i \in Len(m) + 1 .. Len(s) /\ i - Len(m) \in DOMAIN e
            <4>1. s[i] = e[i - Len(m)]
                BY <2>1, <3>2
            <4> QED
                BY <1>3, <3>2, <4>1, Zenon
        <3> QED
            BY <2>2, <3>1, <3>2
    <2>4. s # << >>
        BY <1>2, <1>3, <2>1
    <2> QED
        BY <2>1, <2>3, <2>4
<1>9. s \o q # << >> /\ e \o q # << >>
    BY <1>2, <1>3, <1>8
<1>10. WithoutQuery(s \o q) = s /\ WithoutQuery(e \o q) = e
    BY <1>2, <1>3, <1>8, QueryCutOff, Zenon
<1>11. PathFromUri(s, m) = e
    BY <1>2, <1>3, MountCutOff
<1>12. PathFromUri(e, << >>) = e
    BY DEF PathFromUri
<1>13. StartsWith(s, s) /\ SubSeq(s, Len(s) + 1, Len(s)) = << >>
    BY <1>8 DEF StartsWith
<1>14. PathFromUri(s, s) = e
    BY <1>7, <1>8, <1>13, Zenon DEF PathFromUri
<1>15. PathFromScript(s) = e \/ (n = << >> /\ PathFromScript(s) = << >>)
    BY <1>4, <1>5, <1>7 DEF PathFromScript
<1> HIDE DEF s
<1>16. CASE r.sets = "path_info"
    <2>1. Environment(r).path_info = e
        BY <1>6, <1>16 DEF Environment
    <2> QED
        BY <1>3, <1>6, <2>1 DEF path
<1>17. CASE r.sets = "script_and_uri"
    <2>1. Environment(r) = [path_info |-> << >>, request_uri |-> s \o q, script_name |-> m]
        BY <1>6, <1>17 DEF Environment, s, m, q
    <2> QED
        BY <1>6, <1>9, <1>10, <1>11, <2>1 DEF path
<1>18. CASE r.sets = "endpoint_script_and_uri"
    <2>1. Environment(r) = [path_info |-> << >>, request_uri |-> s \o q, script_name |-> s]
        BY <1>6, <1>18 DEF Environment, s, m, q
    <2> QED
        BY <1>6, <1>9, <1>10, <1>14, <2>1 DEF path
<1>19. CASE r.sets = "endpoint_script"
    <2>1. Environment(r) = [path_info |-> << >>, request_uri |-> << >>, script_name |-> s]
        BY <1>6, <1>19 DEF Environment, s, m, q
    <2> QED
        BY <1>6, <1>15, <2>1 DEF path, n
<1>20. CASE r.sets = "uri"
    <2>1. Environment(r) = [path_info |-> << >>, request_uri |-> e \o q, script_name |-> << >>]
        <3>1. m = << >>
            BY <1>20 DEF MountKnown, m
        <3>2. m \o e \o q = e \o q
            BY <1>2, <1>3, <3>1
        <3> QED
            BY <1>6, <1>20, <3>2 DEF Environment, m, q
    <2> QED
        BY <1>6, <1>9, <1>10, <1>12, <2>1 DEF path
<1> QED
    BY <1>1, <1>16, <1>17, <1>18, <1>19, <1>20

(* Where the variables do not tell the mount, path() is all of the path,    *)
(* with a '/' after the mount: it is no handler's.                          *)
LEMMA PathWithMount ==
    ASSUME NEW r \in Requests, ~MountKnown(r)
    PROVE  \A c \in Char : c # "/" => path(Environment(r)) # <<"/", c>>
<1> DEFINE m == r.mount
           n == r.name
           q == r.query
           e == <<"/">> \o n
           s == m \o e
<1>1. /\ m \in Mounts /\ n \in Names /\ q \in Queries
      /\ r.sets = "uri" /\ m # << >>
    BY DEF Requests, MountKnown
<1>2. /\ m \in Seq(Char) /\ \A i \in DOMAIN m : m[i] # "?"
      /\ n \in Seq(Char) /\ \A i \in DOMAIN n : n[i] # "?"
      /\ q \in Seq(Char) /\ (q # << >> => q[1] = "?")
    BY <1>1, RequestAssumption
<1>3. Environment(r) = [path_info |-> << >>, request_uri |-> s \o q, script_name |-> << >>]
    BY <1>1 DEF Environment, Endpoint
<1> HIDE DEF m, n, q
<1>4. /\ e \in Seq(Char) /\ Len(e) = 1 + Len(n) /\ e[1] = "/"
      /\ \A i \in 2..Len(e) : e[i] = n[i - 1]
    BY <1>2, SlashInFront, Zenon
<1> HIDE DEF e
<1>5. /\ s \in Seq(Char) /\ Len(s) = Len(m) + Len(e)
      /\ \A i \in 1..Len(m) : s[i] = m[i]
      /\ \A i \in Len(m) + 1 .. Len(s) : s[i] = e[i - Len(m)]
    <2>1. m \in Seq(Char) /\ e \in Seq(Char)
        BY <1>2, <1>4
    <2> QED
        BY <2>1, Joined
<1> HIDE DEF s
<1>6. \A i \in DOMAIN s : s[i] # "?"
    <2> TAKE i \in DOMAIN s
    <2>1. CASE i \in 1..Len(m)
        BY <1>2, <1>5, <2>1
    <2>2. CASE i \notin 1..Len(m)
        <3>1. i \in Len(m) + 1 .. Len(s) /\ i - Len(m) \in 1..Len(e)
            BY <1>2, <1>4, <1>5, <2>2
        <3>2. s[i] = e[i - Len(m)]
            BY <1>5, <3>1
        <3>3. CASE i - Len(m) = 1
            BY <1>4, <3>2, <3>3
        <3>4. CASE i - Len(m) # 1
            <4>1. i - Len(m) \in 2..Len(e) /\ i - Len(m) - 1 \in DOMAIN n
                BY <1>2, <1>4, <3>1, <3>4
            <4> QED
                BY <1>2, <1>4, <3>2, <4>1
        <3> QED
            BY <3>3, <3>4
    <2> QED
        BY <2>1, <2>2
<1>7. s \o q # << >> /\ WithoutQuery(s \o q) = s
    <2>1. s \o q # << >>
        BY <1>2, <1>4, <1>5
    <2> QED
        BY <1>2, <1>5, <1>6, <2>1, QueryCutOff, Zenon
<1>8. path(Environment(r)) = s
    BY <1>3, <1>7 DEF path, PathFromUri
<1> SUFFICES ASSUME NEW c \in Char, c # "/", s = <<"/", c>>
             PROVE  FALSE
    BY <1>8
<1>9. Len(s) = 2 /\ s[2] = c
    OBVIOUS
<1>10. Len(m) = 1 /\ Len(e) = 1
    BY <1>1, <1>2, <1>4, <1>5, <1>9
<1>11. s[2] = e[1]
    BY <1>5, <1>9, <1>10
<1> QED
    BY <1>4, <1>9, <1>11

(* Every request is routed by the name it asks for, for all mounts, names   *)
(* and queries, whatever its web server sets, as long as that tells the     *)
(* mount: path() gives the endpoint, and route() looks for nothing else.    *)
(* Otherwise no request is routed at all.                                   *)
THEOREM RoutedByName == request \in Requests => EndpointReached
<1> HAVE request \in Requests
<1> DEFINE n == request.name
           p == path(Environment(request))
           served == n \in {<<"l">>, <<"r">>, <<"w">>} /\ MountKnown(request)
<1>1. n \in Seq(Char)
    BY RequestAssumption DEF Requests
<1>2. MountKnown(request) => p = <<"/">> \o n \/ (n = << >> /\ p = << >>)
    BY PathIsEndpoint DEF Endpoint
<1>3. ~MountKnown(request) => \A c \in Char : c # "/" => p # <<"/", c>>
    BY PathWithMount, Zenon
<1> HIDE DEF n, p
<1>4. \A c \in Char : c # "/" => ((p = <<"/", c>>) <=> (n = <<c>> /\ MountKnown(request)))
    <2> TAKE c \in Char
    <2>1. "/" \in Char
        BY RequestAssumption
    <2>2. (<<"/">> \o n = <<"/", c>>) <=> (n = <<c>>)
        BY <1>1, <2>1, OneMore, Zenon
    <2>3. << >> # <<c>> /\ << >> # <<"/", c>>
        OBVIOUS
    <2> QED
        BY <1>2, <1>3, <2>2, <2>3, Zenon
<1>5. /\ (p = <<"/", "l">> <=> n = <<"l">> /\ MountKnown(request))
      /\ (p = <<"/", "r">> <=> n = <<"r">> /\ MountKnown(request))
      /\ (p = <<"/", "w">> <=> n = <<"w">> /\ MountKnown(request))
    BY <1>4, RequestAssumption
<1>6. route(Environment(request)) = IF served THEN n[1] ELSE NotFound
    <2>1. CASE n = <<"l">> /\ MountKnown(request)
        BY <1>5, <2>1 DEF route, p
    <2>2. CASE n = <<"r">> /\ MountKnown(request)
        BY <1>5, <2>2 DEF route, p
    <2>3. CASE n = <<"w">> /\ MountKnown(request)
        BY <1>5, <2>3 DEF route, p
    <2>4. CASE ~served
        BY <1>5, <2>4 DEF route, p
    <2> QED
        BY <2>1, <2>2, <2>3, <2>4
<1> QED
    BY <1>6 DEF EndpointReached, n

(***************************************************************************)
(* The limits of a query string keep the first keys and values.  The       *)
(* invariant of the loop says which keys have an entry, and how many values *)
(* it has.                                                                 *)
(***************************************************************************)

(* The keys among the first n pairs. *)
Seen(pairs, n) == {k \in Key : At(pairs, n, k) # {}}

(* The entries are keys that occurred: all of them, until there are as many  *)
(* as there may be; from then on, those that had few others before them.     *)
EntriesFirst(pairs, n, params) ==
    /\ IsFiniteSet(Seen(pairs, n))
    /\ DOMAIN params \subseteq Seen(pairs, n)
    /\ DOMAIN params = Seen(pairs, n) \/ Cardinality(DOMAIN params) >= kMaxQueryParams
    /\ \A k \in Seen(pairs, n) :
          k \in DOMAIN params <=> Cardinality(KeysBefore(pairs, n, k)) < kMaxQueryParams

(* A list holds the first positions of a key; short of the limit, all.       *)
ValuesFirst(pairs, n, k, values) ==
    /\ values \in Seq(Nat)
    /\ {values[i] : i \in DOMAIN values} = FirstAt(pairs, n, k)
    /\ InOrder(values)
    /\ Len(values) = IF Cardinality(At(pairs, n, k)) < kMaxValuesPerKey
                     THEN Cardinality(At(pairs, n, k)) ELSE kMaxValuesPerKey

(* What the loop has made of the first n pairs. *)
ParsedSoFar(pairs, n, params) ==
    /\ params = [k \in DOMAIN params |-> params[k]]
    /\ EntriesFirst(pairs, n, params)
    /\ \A k \in DOMAIN params : ValuesFirst(pairs, n, k, params[k])

QueryInv ==
    /\ raw \in Seq(Spelling \cup {Malformed})
    /\ total_pairs \in 0..Len(raw) /\ total_pairs <= kMaxTotalPairs
    /\ ParsedSoFar(raw, total_pairs, params_)

(* One more pair: its key has one more position, other keys do not.          *)
LEMMA OneMorePair ==
    ASSUME NEW pairs \in Seq(Spelling \cup {Malformed}), NEW n \in Nat, n < Len(pairs), NEW k
    PROVE  At(pairs, n + 1, k) = IF pairs[n + 1] # Malformed /\ url_decode[pairs[n + 1]] = k
                          THEN At(pairs, n, k) \cup {n + 1} ELSE At(pairs, n, k)
<1>1. 1..(n + 1) = (1..n) \cup {n + 1}
    OBVIOUS
<1> QED
    BY <1>1, Zenon DEF At

(* Positions are numbers up to n. *)
LEMMA Positions ==
    ASSUME NEW pairs, NEW n \in Nat, NEW k
    PROVE  /\ At(pairs, n, k) \subseteq 1..n
           /\ IsFiniteSet(At(pairs, n, k)) /\ Cardinality(At(pairs, n, k)) \in Nat
           /\ n + 1 \notin At(pairs, n, k)
<1>1. At(pairs, n, k) \subseteq 1..n
    BY DEF At
<1>2. IsFiniteSet(1..n)
    BY FS_Interval
<1>3. IsFiniteSet(At(pairs, n, k))
    BY <1>1, <1>2, FS_Subset, Zenon
<1>4. n + 1 \notin 1..n
    OBVIOUS
<1> QED
    BY <1>1, <1>3, <1>4, FS_CardinalityType, Zenon

(* What comes before a key is settled by its first occurrence.               *)
LEMMA EarlierSettled ==
    ASSUME NEW pairs \in Seq(Spelling \cup {Malformed}), NEW n \in Nat, n < Len(pairs),
           NEW k, At(pairs, n, k) # {}
    PROVE  KeysBefore(pairs, n + 1, k) = KeysBefore(pairs, n, k)
<1> DEFINE B(j, m) == \E h \in At(pairs, m, j) : \A i \in At(pairs, m, k) : h < i
<1>1. ASSUME NEW j PROVE B(j, n + 1) <=> B(j, n)
    <2>1. /\ At(pairs, n, j) \subseteq 1..n /\ At(pairs, n, k) \subseteq 1..n
        BY Positions
    <2>2. /\ At(pairs, n, j) \subseteq At(pairs, n + 1, j) /\ At(pairs, n + 1, j) \subseteq At(pairs, n, j) \cup {n + 1}
          /\ At(pairs, n, k) \subseteq At(pairs, n + 1, k) /\ At(pairs, n + 1, k) \subseteq At(pairs, n, k) \cup {n + 1}
        BY OneMorePair, Zenon
    <2>3. ASSUME B(j, n + 1) PROVE B(j, n)
        <3>1. PICK h \in At(pairs, n + 1, j) : \A i \in At(pairs, n + 1, k) : h < i
            BY <2>3
        <3>2. PICK i \in At(pairs, n, k) : TRUE
            OBVIOUS
        <3>3. h < i /\ i \in 1..n
            BY <2>1, <2>2, <3>1, <3>2
        <3>4. h # n + 1
            BY <3>3
        <3> QED
            BY <2>2, <3>1, <3>4
    <2>4. ASSUME B(j, n) PROVE B(j, n + 1)
        <3>1. PICK h \in At(pairs, n, j) : \A i \in At(pairs, n, k) : h < i
            BY <2>4
        <3>2. h < n + 1
            BY <2>1
        <3> QED
            BY <2>2, <3>1, <3>2
    <2> QED
        BY <2>3, <2>4
<1> QED
    BY <1>1, Zenon DEF KeysBefore

(* Before a key that is new are all that occurred.                           *)
LEMMA EarlierOfNew ==
    ASSUME NEW pairs \in Seq(Spelling \cup {Malformed}), NEW n \in Nat, n < Len(pairs),
           NEW k, At(pairs, n, k) = {}, At(pairs, n + 1, k) = {n + 1}
    PROVE  KeysBefore(pairs, n + 1, k) = Seen(pairs, n)
<1>1. ASSUME NEW j
      PROVE  (\E h \in At(pairs, n + 1, j) : \A i \in At(pairs, n + 1, k) : h < i) <=> At(pairs, n, j) # {}
    <2>1. At(pairs, n, j) \subseteq 1..n
        BY Positions
    <2>2. At(pairs, n, j) \subseteq At(pairs, n + 1, j) /\ At(pairs, n + 1, j) \subseteq At(pairs, n, j) \cup {n + 1}
        BY OneMorePair, Zenon
    <2> QED
        BY <2>1, <2>2
<1> QED
    BY <1>1, Zenon DEF KeysBefore, Seen

(* A position is added to the first ones while there is room.                *)
LEMMA FirstSettled ==
    ASSUME NEW pairs, NEW n \in Nat, NEW k, At(pairs, n + 1, k) = At(pairs, n, k) \cup {n + 1}
    PROVE  FirstAt(pairs, n + 1, k) = IF Cardinality(At(pairs, n, k)) < kMaxValuesPerKey
                               THEN FirstAt(pairs, n, k) \cup {n + 1} ELSE FirstAt(pairs, n, k)
<1> DEFINE a == At(pairs, n, k)
<1>1. a \subseteq 1..n
    BY Positions
<1> HIDE DEF a
<1>2. \A i \in a : {h \in a \cup {n + 1} : h < i} = {h \in a : h < i}
    <2> TAKE i \in a
    <2>1. ~(n + 1 < i)
        BY <1>1
    <2> QED
        BY <2>1, Zenon
<1>3. {h \in a \cup {n + 1} : h < n + 1} = a
    <2>1. ~(n + 1 < n + 1) /\ \A h \in a : h < n + 1
        BY <1>1
    <2> QED
        BY <2>1, Zenon
<1>4. n + 1 \notin a
    BY <1>1
<1>5. FirstAt(pairs, n + 1, k) = {i \in a \cup {n + 1} :
          Cardinality({h \in a \cup {n + 1} : h < i}) < kMaxValuesPerKey}
    BY Zenon DEF FirstAt, a
<1>6. FirstAt(pairs, n, k) = {i \in a : Cardinality({h \in a : h < i}) < kMaxValuesPerKey}
    BY Zenon DEF FirstAt, a
<1> QED
    BY <1>2, <1>3, <1>4, <1>5, <1>6, Zenon DEF a
(* A key that gets one more position while there is room. *)
LEMMA AddValue ==
    ASSUME NEW pairs, NEW n \in Nat, NEW k, NEW u, ValuesFirst(pairs, n, k, u),
           At(pairs, n + 1, k) = At(pairs, n, k) \cup {n + 1}, Len(u) < kMaxValuesPerKey
    PROVE  ValuesFirst(pairs, n + 1, k, Append(u, n + 1))
<1> DEFINE v == Append(u, n + 1)
           c == Cardinality(At(pairs, n, k))
<1>1. u \in Seq(Nat)
    BY Zenon DEF ValuesFirst
<1>2. /\ {u[i] : i \in DOMAIN u} = FirstAt(pairs, n, k)
      /\ InOrder(u)
      /\ Len(u) = IF c < kMaxValuesPerKey THEN c ELSE kMaxValuesPerKey
    BY Zenon DEF ValuesFirst
<1>3. /\ IsFiniteSet(At(pairs, n, k)) /\ c \in Nat /\ n + 1 \notin At(pairs, n, k) /\ At(pairs, n, k) \subseteq 1..n
    BY Positions
<1>4. Cardinality(At(pairs, n + 1, k)) = c + 1
    BY <1>3, FS_AddElement, Zenon
<1>5. kMaxValuesPerKey \in Nat
    BY QueryAssumption
<1>6. Len(u) < kMaxValuesPerKey
    OBVIOUS
<1> HIDE DEF c
<1>7. c < kMaxValuesPerKey /\ Len(u) = c
    BY <1>2, <1>3, <1>5, <1>6
<1>8. /\ v \in Seq(Nat) /\ Len(v) = Len(u) + 1 /\ v[Len(u) + 1] = n + 1
      /\ \A i \in 1..Len(u) : v[i] = u[i]
    BY <1>1, AppendProperties
<1> HIDE DEF v
<1>9. FirstAt(pairs, n + 1, k) = FirstAt(pairs, n, k) \cup {n + 1}
    BY <1>7, FirstSettled, Zenon DEF c
<1>10. FirstAt(pairs, n, k) \subseteq 1..n
    BY <1>3 DEF FirstAt
<1>11. \A i \in 1..Len(u) : u[i] \in 1..n
    BY <1>1, <1>2, <1>10
<1>12. {v[i] : i \in DOMAIN v} = {u[i] : i \in DOMAIN u} \cup {n + 1}
    <2>1. DOMAIN v = 1..(Len(u) + 1) /\ DOMAIN u = 1..Len(u) /\ Len(u) \in Nat
        BY <1>1, <1>8
    <2>2. 1..(Len(u) + 1) = (1..Len(u)) \cup {Len(u) + 1}
        BY <2>1
    <2>3. \A i \in DOMAIN u : i \in DOMAIN v /\ v[i] = u[i]
        BY <1>8, <2>1, <2>2, Zenon
    <2>4. Len(u) + 1 \in DOMAIN v /\ v[Len(u) + 1] = n + 1
        BY <1>8, <2>1, <2>2, Zenon
    <2>5. \A i \in DOMAIN v : i \in DOMAIN u \/ v[i] = n + 1
        BY <1>8, <2>1, <2>2, Zenon
    <2>6. {v[i] : i \in DOMAIN v} \subseteq {u[i] : i \in DOMAIN u} \cup {n + 1}
        BY <2>3, <2>5, Zenon
    <2>7. {u[i] : i \in DOMAIN u} \cup {n + 1} \subseteq {v[i] : i \in DOMAIN v}
        BY <2>3, <2>4, Zenon
    <2> QED
        BY <2>6, <2>7, Zenon
<1>13. InOrder(v)
    <2> SUFFICES ASSUME NEW i \in 1..Len(v), NEW j \in 1..Len(v), i < j
                 PROVE  v[i] < v[j]
        BY <1>8 DEF InOrder
    <2>1. i \in 1..Len(u) /\ v[i] = u[i] /\ v[i] \in 1..n
        BY <1>1, <1>8, <1>11
    <2>2. CASE j \in 1..Len(u)
        <3>1. i \in DOMAIN u /\ j \in DOMAIN u
            BY <1>1, <2>1, <2>2
        <3>2. u[i] < u[j]
            BY <1>2, <3>1, Zenon DEF InOrder
        <3>3. v[j] = u[j]
            BY <1>8, <2>2
        <3> QED
            BY <2>1, <3>2, <3>3, Zenon
    <2>3. CASE j = Len(u) + 1
        BY <1>8, <2>1, <2>3
    <2>4. j \in 1..Len(u) \/ j = Len(u) + 1
        <3>1. Len(u) \in Nat /\ Len(v) = Len(u) + 1
            BY <1>1, <1>8
        <3> QED
            BY <3>1
    <2> QED
        BY <2>2, <2>3, <2>4, Zenon
<1>14. Len(v) = IF c + 1 < kMaxValuesPerKey THEN c + 1 ELSE kMaxValuesPerKey
    BY <1>3, <1>5, <1>7, <1>8
<1> QED
    BY <1>2, <1>4, <1>8, <1>9, <1>12, <1>13, <1>14, Zenon DEF ValuesFirst, v
(* A key that has as many values as there may be keeps its first ones. *)
LEMMA KeepValues ==
    ASSUME NEW pairs, NEW n \in Nat, NEW k, NEW u, ValuesFirst(pairs, n, k, u),
           At(pairs, n + 1, k) = At(pairs, n, k) \cup {n + 1}, Len(u) >= kMaxValuesPerKey
    PROVE  ValuesFirst(pairs, n + 1, k, u)
<1> DEFINE c == Cardinality(At(pairs, n, k))
           d == Cardinality(At(pairs, n + 1, k))
<1>1. c \in Nat /\ d = c + 1
    BY Positions, FS_AddElement
<1>2. kMaxValuesPerKey \in Nat
    BY QueryAssumption
<1>3. Len(u) = IF c < kMaxValuesPerKey THEN c ELSE kMaxValuesPerKey
    BY Zenon DEF ValuesFirst
<1> HIDE DEF c, d
<1>4. ~(c < kMaxValuesPerKey) /\ ~(d < kMaxValuesPerKey) /\ Len(u) = kMaxValuesPerKey
    BY <1>1, <1>2, <1>3
<1>5. FirstAt(pairs, n + 1, k) = FirstAt(pairs, n, k)
    BY <1>4, FirstSettled, Zenon DEF c
<1> QED
    BY <1>4, <1>5, Zenon DEF ValuesFirst, d

(* The first value of a key. *)
LEMMA FirstValue ==
    ASSUME NEW pairs, NEW n \in Nat, NEW k, At(pairs, n, k) = {}, At(pairs, n + 1, k) = {n + 1}
    PROVE  ValuesFirst(pairs, n + 1, k, <<n + 1>>)
<1>1. Cardinality({n + 1}) = 1 /\ Cardinality({}) = 0
    BY FS_Singleton, FS_EmptySet, Zenon
<1>2. kMaxValuesPerKey \in Nat /\ 0 < kMaxValuesPerKey
    BY QueryAssumption
<1>3. {h \in {n + 1} : h < n + 1} = {}
    OBVIOUS
<1>4. FirstAt(pairs, n + 1, k) = {n + 1}
    BY <1>1, <1>2, <1>3, Zenon DEF FirstAt
<1> DEFINE v == <<n + 1>>
<1>5. v \in Seq(Nat) /\ Len(v) = 1 /\ {v[i] : i \in DOMAIN v} = {n + 1} /\ InOrder(v)
    BY DEF InOrder
<1>6. 1 = IF 1 < kMaxValuesPerKey THEN 1 ELSE kMaxValuesPerKey
    BY <1>2
<1> HIDE DEF v
<1>7. ValuesFirst(pairs, n + 1, k, v)
    BY <1>1, <1>4, <1>5, <1>6, Zenon DEF ValuesFirst
<1> QED
    BY <1>7 DEF v
(* Nothing changes for a key that has no further position. *)
LEMMA SameValues ==
    ASSUME NEW pairs, NEW n \in Nat, NEW k, NEW u, ValuesFirst(pairs, n, k, u),
           At(pairs, n + 1, k) = At(pairs, n, k)
    PROVE  ValuesFirst(pairs, n + 1, k, u)
<1>1. FirstAt(pairs, n + 1, k) = FirstAt(pairs, n, k)
    BY Zenon DEF FirstAt
<1> QED
    BY <1>1, Zenon DEF ValuesFirst

(* A pair whose key was seen, or that is malformed, leaves the entries. *)
LEMMA EntriesStay ==
    ASSUME NEW pairs \in Seq(Spelling \cup {Malformed}), NEW n \in Nat, n < Len(pairs),
           NEW params, EntriesFirst(pairs, n, params),
           Seen(pairs, n + 1) = Seen(pairs, n),
           NEW new, DOMAIN new = DOMAIN params
    PROVE  EntriesFirst(pairs, n + 1, new)
<1>1. \A k \in Seen(pairs, n) : KeysBefore(pairs, n + 1, k) = KeysBefore(pairs, n, k)
    BY EarlierSettled, Zenon DEF Seen
<1> QED
    BY <1>1, Zenon DEF EntriesFirst

(* A pair with a new key gets an entry when there is room for one. *)
LEMMA EntriesGrow ==
    ASSUME NEW pairs \in Seq(Spelling \cup {Malformed}), NEW n \in Nat, n < Len(pairs),
           NEW params, EntriesFirst(pairs, n, params),
           NEW k \in Key, At(pairs, n, k) = {}, At(pairs, n + 1, k) = {n + 1},
           Seen(pairs, n + 1) = Seen(pairs, n) \cup {k},
           NEW new,
           DOMAIN new = IF Cardinality(DOMAIN params) >= kMaxQueryParams THEN DOMAIN params
                        ELSE DOMAIN params \cup {k}
    PROVE  EntriesFirst(pairs, n + 1, new)
<1> DEFINE D == DOMAIN params
           S == Seen(pairs, n)
<1>1. /\ IsFiniteSet(S) /\ D \subseteq S
      /\ D = S \/ Cardinality(D) >= kMaxQueryParams
      /\ \A j \in S : j \in D <=> Cardinality(KeysBefore(pairs, n, j)) < kMaxQueryParams
    BY Zenon DEF EntriesFirst
<1>2. IsFiniteSet(S \cup {k})
    BY <1>1, FS_AddElement, Zenon
<1>3. k \notin S
    BY Zenon DEF Seen
<1>4. KeysBefore(pairs, n + 1, k) = S
    BY EarlierOfNew, Zenon
<1>5. \A j \in S : KeysBefore(pairs, n + 1, j) = KeysBefore(pairs, n, j)
    BY EarlierSettled, Zenon DEF Seen
<1>6. /\ IsFiniteSet(D) /\ Cardinality(D) <= Cardinality(S)
      /\ Cardinality(D) \in Nat /\ Cardinality(S) \in Nat /\ kMaxQueryParams \in Nat
    BY <1>1, FS_Subset, FS_CardinalityType, QueryAssumption, Zenon
<1> HIDE DEF D, S
<1>7. CASE Cardinality(D) >= kMaxQueryParams
    <2>1. DOMAIN new = D
        BY <1>7, Zenon DEF D
    <2>2. ~(Cardinality(S) < kMaxQueryParams)
        BY <1>6, <1>7
    <2>3. k \notin D
        BY <1>1, <1>3, Zenon
    <2>4. \A j \in S \cup {k} :
            j \in D <=> Cardinality(KeysBefore(pairs, n + 1, j)) < kMaxQueryParams
        BY <1>1, <1>4, <1>5, <2>2, <2>3, Zenon
    <2>5. D \subseteq S \cup {k}
        BY <1>1, Zenon
    <2>6. Seen(pairs, n + 1) = S \cup {k}
        BY Zenon DEF S
    <2> QED
        BY <1>2, <1>7, <2>1, <2>4, <2>5, <2>6, Zenon DEF EntriesFirst
<1>8. CASE ~(Cardinality(D) >= kMaxQueryParams)
    <2>1. DOMAIN new = D \cup {k} /\ D = S
        BY <1>1, <1>8, Zenon DEF D
    <2>2. Cardinality(S) < kMaxQueryParams
        BY <1>6, <1>8, <2>1
    <2>3. \A j \in S \cup {k} : Cardinality(KeysBefore(pairs, n + 1, j)) < kMaxQueryParams
        BY <1>1, <1>4, <1>5, <2>1, <2>2, Zenon
    <2>4. Seen(pairs, n + 1) = S \cup {k}
        BY Zenon DEF S
    <2>5. DOMAIN new = S \cup {k}
        BY <2>1, Zenon
    <2> QED
        BY <1>2, <2>3, <2>4, <2>5, Zenon DEF EntriesFirst
<1> QED
    BY <1>7, <1>8, Zenon
(* One turn of the loop, for every query string and every limit. *)
LEMMA OnePair ==
    ASSUME NEW pairs \in Seq(Spelling \cup {Malformed}), NEW n \in Nat, n < Len(pairs),
           NEW params, ParsedSoFar(pairs, n, params),
           NEW p, p = pairs[n + 1],
           NEW new, new = IF p = Malformed THEN params ELSE Store(params, url_decode[p], n + 1)
    PROVE  ParsedSoFar(pairs, n + 1, new)
<1> DEFINE k == url_decode[p]
<1>1. /\ params = [j \in DOMAIN params |-> params[j]]
      /\ EntriesFirst(pairs, n, params)
      /\ \A j \in DOMAIN params : ValuesFirst(pairs, n, j, params[j])
    BY Zenon DEF ParsedSoFar
<1>2. \A j : At(pairs, n + 1, j) = IF p # Malformed /\ k = j
                                   THEN At(pairs, n, j) \cup {n + 1} ELSE At(pairs, n, j)
    BY OneMorePair, Zenon
<1>3. CASE p = Malformed
    <2>1. \A j : At(pairs, n + 1, j) = At(pairs, n, j)
        BY <1>2, <1>3, Zenon
    <2>2. new = params /\ Seen(pairs, n + 1) = Seen(pairs, n)
        BY <1>3, <2>1, Zenon DEF Seen
    <2>3. EntriesFirst(pairs, n + 1, new)
        BY <1>1, <2>2, EntriesStay, Zenon
    <2>4. \A j \in DOMAIN params : ValuesFirst(pairs, n + 1, j, params[j])
        BY <1>1, <2>1, SameValues, Zenon
    <2> QED
        BY <1>1, <2>2, <2>3, <2>4, Zenon DEF ParsedSoFar
<1>4. CASE p # Malformed
    <2>1. k \in Key
        <3>1. p \in Spelling
            BY <1>4
        <3> QED
            BY <3>1, Zenon DEF Key
    <2>2. At(pairs, n + 1, k) = At(pairs, n, k) \cup {n + 1}
        BY <1>2, <1>4, Zenon
    <2>3. \A j : j # k => At(pairs, n + 1, j) = At(pairs, n, j)
        BY <1>2, Zenon
    <2>4. Seen(pairs, n + 1) = Seen(pairs, n) \cup {k}
        BY <2>1, <2>2, <2>3, Zenon DEF Seen
    <2>5. new = Store(params, k, n + 1)
        BY <1>4, Zenon
    <2> HIDE DEF k
    <2>6. CASE k \in DOMAIN params
        <3>1. new = IF Len(params[k]) >= kMaxValuesPerKey THEN params
                    ELSE [params EXCEPT ![k] = Append(@, n + 1)]
            BY <2>5, <2>6, Zenon DEF Store
        <3>2. k \in Seen(pairs, n)
            BY <1>1, <2>6, Zenon DEF EntriesFirst
        <3>3. /\ DOMAIN new = DOMAIN params
              /\ new = [j \in DOMAIN new |-> new[j]]
              /\ \A j \in DOMAIN params : j # k => new[j] = params[j]
            BY <1>1, <3>1
        <3>4. EntriesFirst(pairs, n + 1, new)
            BY <1>1, <2>4, <3>2, <3>3, EntriesStay, Zenon
        <3>5. ValuesFirst(pairs, n + 1, k, new[k])
            <4>1. CASE Len(params[k]) >= kMaxValuesPerKey
                BY <1>1, <2>2, <2>6, <3>1, <4>1, KeepValues, Zenon
            <4>2. CASE ~(Len(params[k]) >= kMaxValuesPerKey)
                <5>1. ValuesFirst(pairs, n, k, params[k])
                    BY <1>1, <2>6, Zenon
                <5>2. params[k] \in Seq(Nat)
                    BY <5>1, Zenon DEF ValuesFirst
                <5>3. Len(params[k]) < kMaxValuesPerKey
                    BY <4>2, <5>2, QueryAssumption
                <5>4. new[k] = Append(params[k], n + 1)
                    BY <1>1, <2>6, <3>1, <4>2
                <5> QED
                    BY <2>2, <5>1, <5>3, <5>4, AddValue, Zenon
            <4> QED
                BY <4>1, <4>2, Zenon
        <3>6. \A j \in DOMAIN params : j # k => ValuesFirst(pairs, n + 1, j, params[j])
            BY <1>1, <2>3, SameValues, Zenon
        <3> QED
            BY <3>3, <3>4, <3>5, <3>6, Zenon DEF ParsedSoFar
    <2>7. CASE k \notin DOMAIN params
        <3>1. \A j \in DOMAIN params : ValuesFirst(pairs, n + 1, j, params[j])
            BY <1>1, <2>3, <2>7, SameValues, Zenon
        <3>2. CASE Cardinality(DOMAIN params) >= kMaxQueryParams
            <4>1. new = params
                BY <2>5, <2>7, <3>2, Zenon DEF Store
            <4>2. EntriesFirst(pairs, n + 1, new)
                <5>1. CASE k \in Seen(pairs, n)
                    <6>1. Seen(pairs, n + 1) = Seen(pairs, n)
                        BY <2>4, <5>1, Zenon
                    <6> QED
                        BY <1>1, <4>1, <6>1, EntriesStay, Zenon
                <5>2. CASE k \notin Seen(pairs, n)
                    <6>1. At(pairs, n, k) = {} /\ At(pairs, n + 1, k) = {n + 1}
                        BY <2>1, <2>2, <5>2, Zenon DEF Seen
                    <6> QED
                        BY <1>1, <2>1, <2>4, <3>2, <4>1, <6>1, EntriesGrow, Zenon
                <5> QED
                    BY <5>1, <5>2, Zenon
            <4> QED
                BY <1>1, <3>1, <4>1, <4>2, Zenon DEF ParsedSoFar
        <3>3. CASE ~(Cardinality(DOMAIN params) >= kMaxQueryParams)
            <4>1. new = [j \in DOMAIN params \cup {k} |->
                           IF j = k THEN <<n + 1>> ELSE params[j]]
                BY <2>5, <2>7, <3>3, Zenon DEF Store
            <4>2. /\ DOMAIN new = DOMAIN params \cup {k} /\ new[k] = <<n + 1>>
                  /\ new = [j \in DOMAIN new |-> new[j]]
                  /\ \A j \in DOMAIN params : new[j] = params[j]
                BY <2>7, <4>1
            <4>3. k \notin Seen(pairs, n)
                BY <1>1, <2>7, <3>3, Zenon DEF EntriesFirst
            <4>4. At(pairs, n, k) = {} /\ At(pairs, n + 1, k) = {n + 1}
                BY <2>1, <2>2, <4>3, Zenon DEF Seen
            <4>5. EntriesFirst(pairs, n + 1, new)
                <5>1. DOMAIN new = IF Cardinality(DOMAIN params) >= kMaxQueryParams
                                   THEN DOMAIN params ELSE DOMAIN params \cup {k}
                    BY <3>3, <4>2, Zenon
                <5>2. EntriesFirst(pairs, n, params)
                    BY <1>1, Zenon
                <5> QED
                    BY <2>1, <2>4, <4>4, <5>1, <5>2, EntriesGrow, Zenon
            <4>6. ValuesFirst(pairs, n + 1, k, new[k])
                <5>1. ValuesFirst(pairs, n + 1, k, <<n + 1>>)
                    BY <4>4, FirstValue, Zenon
                <5>2. new[k] = <<n + 1>>
                    BY <4>2, Zenon
                <5> QED
                    BY <5>1, <5>2, Zenon
            <4> QED
                BY <3>1, <4>2, <4>5, <4>6, Zenon DEF ParsedSoFar
        <3> QED
            BY <3>2, <3>3, Zenon
    <2> QED
        BY <2>6, <2>7, Zenon
<1> QED
    BY <1>3, <1>4, Zenon

(* The loop starts with no pair and no entry. *)
LEMMA NothingParsed ==
    ASSUME NEW pairs
    PROVE  ParsedSoFar(pairs, 0, NoParams)
<1>1. DOMAIN NoParams = {} /\ NoParams = [k \in DOMAIN NoParams |-> NoParams[k]]
    BY DEF NoParams
<1>2. Seen(pairs, 0) = {}
    <2>1. \A k : At(pairs, 0, k) = {}
        BY DEF At
    <2> QED
        BY <2>1, Zenon DEF Seen
<1>3. EntriesFirst(pairs, 0, NoParams)
    BY <1>1, <1>2, FS_EmptySet, Zenon DEF EntriesFirst
<1> QED
    BY <1>1, <1>3, Zenon DEF ParsedSoFar

(* When the loop is over, what it has made of the pairs is what the limits   *)
(* leave of every key.                                                       *)
LEMMA KeptWhenParsed == QueryInv => LimitsKeepFirst
<1> SUFFICES ASSUME QueryInv, Parsed, NEW k \in Key
             PROVE  LET values == get_all(params_, k)
                    IN  /\ {values[i] : i \in DOMAIN values} = KeptOf(raw, total_pairs, k)
                        /\ InOrder(values)
    <2>1. QueryInv /\ Parsed =>
            total_pairs = IF Len(raw) < kMaxTotalPairs THEN Len(raw) ELSE kMaxTotalPairs
        BY QueryAssumption DEF QueryInv, Parsed
    <2> QED
        BY <2>1, Zenon DEF LimitsKeepFirst
<1> DEFINE values == get_all(params_, k)
           n == total_pairs
<1>1. /\ EntriesFirst(raw, n, params_)
      /\ \A j \in DOMAIN params_ : ValuesFirst(raw, n, j, params_[j])
    BY Zenon DEF QueryInv, ParsedSoFar
<1>2. CASE k \in DOMAIN params_
    <2>1. k \in Seen(raw, n) /\ Cardinality(KeysBefore(raw, n, k)) < kMaxQueryParams
        BY <1>1, <1>2, Zenon DEF EntriesFirst
    <2>2. values = params_[k]
        BY <1>2, Zenon DEF get_all
    <2>3. {values[i] : i \in DOMAIN values} = FirstAt(raw, n, k) /\ InOrder(values)
        BY <1>1, <1>2, <2>2, Zenon DEF ValuesFirst
    <2> QED
        BY <2>1, <2>3, Zenon DEF KeptOf
<1>3. CASE k \notin DOMAIN params_
    <2>1. values = << >>
        BY <1>3, Zenon DEF get_all
    <2>2. KeptOf(raw, n, k) = {}
        <3>1. CASE k \in Seen(raw, n)
            BY <1>1, <1>3, <3>1, Zenon DEF EntriesFirst, KeptOf
        <3>2. CASE k \notin Seen(raw, n)
            BY <3>2, Zenon DEF Seen, KeptOf, FirstAt
        <3> QED
            BY <3>1, <3>2, Zenon
    <2>3. {(<< >>)[i] : i \in DOMAIN << >>} = {} /\ InOrder(<< >>)
        BY DEF InOrder
    <2> QED
        BY <2>1, <2>2, <2>3, Zenon
<1> QED
    BY <1>2, <1>3, Zenon

(* The parser keeps, of every query string, the first keys and their first   *)
(* values in order, whatever the limits are: no pair that is skipped changes *)
(* what a later one finds.                                                   *)
THEOREM QueryLimitsKeepFirst == QuerySpec => []LimitsKeepFirst
<1>1. QueryInit => QueryInv
    <2> SUFFICES ASSUME QueryInit PROVE QueryInv
        OBVIOUS
    <2>1. PICK n \in 0..MaxPairs : raw \in [1..n -> Spelling \cup {Malformed}]
        BY Zenon DEF QueryInit, QueryStrings
    <2>2. n \in Nat
        BY QueryAssumption
    <2>3. raw \in Seq(Spelling \cup {Malformed})
        BY <2>1, <2>2
    <2>4. 0 \in 0..Len(raw) /\ 0 <= kMaxTotalPairs
        BY <2>3, QueryAssumption
    <2> QED
        BY <2>3, <2>4, NothingParsed, Zenon DEF QueryInit, QueryInv
<1>2. QueryInv /\ [ParsePair]_queryVars => QueryInv'
    <2> SUFFICES ASSUME QueryInv, [ParsePair]_queryVars PROVE QueryInv'
        OBVIOUS
    <2>1. CASE ParsePair
        <3>1. /\ raw' = raw /\ total_pairs' = total_pairs + 1
              /\ params_' = IF raw[total_pairs + 1] = Malformed THEN params_
                            ELSE Store(params_, url_decode[raw[total_pairs + 1]], total_pairs + 1)
            BY <2>1, Zenon DEF ParsePair
        <3>2. /\ raw \in Seq(Spelling \cup {Malformed}) /\ total_pairs \in Nat
              /\ total_pairs < Len(raw)
              /\ total_pairs + 1 \in 0..Len(raw) /\ total_pairs + 1 <= kMaxTotalPairs
            BY <2>1, QueryAssumption DEF QueryInv, ParsePair, Parsed
        <3>3. ParsedSoFar(raw, total_pairs, params_)
            BY Zenon DEF QueryInv
        <3>4. ParsedSoFar(raw, total_pairs + 1, params_')
            BY <3>1, <3>2, <3>3, OnePair, Zenon
        <3> QED
            BY <3>1, <3>2, <3>4, Zenon DEF QueryInv
    <2>2. CASE UNCHANGED queryVars
        BY <2>2, Zenon DEF QueryInv, queryVars
    <2> QED
        BY <2>1, <2>2, Zenon
<1> QED
    BY <1>1, <1>2, KeptWhenParsed, PTL DEF QuerySpec
===============================================================================
