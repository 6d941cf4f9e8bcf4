---------------------------- MODULE TelegramPath ----------------------------
(***************************************************************************)
(* The way of a value through the conversions: the hex text a client       *)
(* writes, the APDU the write handler builds, the bytes knxd carries, the  *)
(* payload parse_apdu finds, the shared cache, and the key and hex text a  *)
(* reader gets back.  Transport is not the subject here: the bus is a      *)
(* reliable queue (KnxdClient, CacheReader and WriteHandler lose and       *)
(* reorder), and the cache's mutex can be had (ReadHandler and CacheSync   *)
(* lose it).  Of the hash table, SharedGroupCache's subject, what a lookup *)
(* finds is kept: an entry under its address, a free slot under 0.         *)
(*                                                                         *)
(* A hex text is a sequence of nibbles, or of NotHex for any other         *)
(* character.  An address text is a namespace (NoNs when there is no       *)
(* colon) and the sequence of its '/'-separated parts, NotNumber being a   *)
(* part with something other than digits.                                  *)
(***************************************************************************)
EXTENDS Integers, Sequences, FiniteSets

CONSTANTS Values,        \* the hex texts clients write
          Addresses,     \* the address texts clients use
          Foreign,       \* the APDUs of other devices, from the APCI byte, in hex
          default_namespace,
          kMaxSharedValueBytes,  \* 14 in the code
          kSharedCacheCapacity,  \* 2048 in the code
          MaxBus         \* bound: telegrams not yet read by the cache reader

ASSUME TextAssumption ==
    /\ Values \subseteq Seq(Int)
    /\ Foreign \subseteq Seq(Int)
    /\ Addresses \subseteq [ns : STRING, parts : Seq(Int)]
    /\ kMaxSharedValueBytes \in Nat
    /\ kSharedCacheCapacity \in Nat \ {0}

NotHex == -1
NotNumber == -1
NoNs == "no colon"

VARIABLES bus,     \* telegrams the cache reader has not read: bytes, and as
                   \* history the sender, the group and the text it meant
          cache,   \* per 16-bit address that a lookup finds, the payload there
          last,    \* history: per group, the text of the last one pushed
          reply    \* the "d" object of the response just sent to a reader

vars == <<bus, cache, last, reply>>

Octet == 0..255
Group == [main: 0..31, middle: 0..7, sub: Octet]

--------------------------------------------------------------------------
(* Addresses. *)

from_string(parts) ==
    IF /\ Len(parts) = 3
       /\ parts[1] \in 0..31 /\ parts[2] \in 0..7 /\ parts[3] \in 0..255
    THEN {[main |-> parts[1], middle |-> parts[2], sub |-> parts[3]]}
    ELSE {}

to_string(g) == <<g.main, g.middle, g.sub>>

to_eibaddr(g) == (g.main * 2048) + (g.middle * 256) + g.sub

from_eibaddr(a) ==
    [main |-> (a \div 2048) % 32, middle |-> (a \div 256) % 8, sub |-> a % 256]

from_cometvisu(text) ==
    {[ns |-> IF text.ns = NoNs THEN default_namespace ELSE text.ns,
      group |-> g] : g \in from_string(text.parts)}

to_cometvisu(addr) ==
    [ns |-> IF addr.ns = "" THEN NoNs ELSE addr.ns,
     parts |-> to_string(addr.group)]

--------------------------------------------------------------------------
(* Hex text. *)

hex_decode(text) ==
    IF Len(text) % 2 # 0 \/ \E i \in 1..Len(text) : text[i] \notin 0..15
    THEN << >>
    ELSE [i \in 1..(Len(text) \div 2) |-> (16 * text[2 * i - 1]) + text[2 * i]]

hex_encode(bytes) ==
    [i \in 1..(2 * Len(bytes)) |->
        IF i % 2 = 1 THEN (bytes[(i + 1) \div 2] \div 16) % 16
                     ELSE bytes[i \div 2] % 16]

--------------------------------------------------------------------------
(* APDUs. *)

Apci(b) == (b \div 64) * 64

Read == 0
Response == 64
Write == 128

(* Mutant: a third byte does not make the APDU a long one. *)
parse_apdu_packed(apdu) ==
    [type |-> Apci(apdu[2]),
     data |-> IF Apci(apdu[2]) \notin {Response, Write} THEN << >>
              ELSE IF Len(apdu) <= 3 THEN <<apdu[2] % 64>>
              ELSE SubSeq(apdu, 3, Len(apdu))]

parse_apdu(apdu) ==
    [type |-> Apci(apdu[2]),
     data |-> IF Apci(apdu[2]) \notin {Response, Write} THEN << >>
              ELSE IF Len(apdu) = 2 THEN <<apdu[2] % 64>>
              ELSE SubSeq(apdu, 3, Len(apdu))]

(* The APDU the write handler sends for the text v, none if it refuses v. *)
ClientApdu(v) ==
    {<<0>> \o h : h \in {x \in {hex_decode(v)} : x # << >> /\ x[1] >= 128}}

(* Mutant: the address is sent with its low byte first. *)
build_group_packet_swapped(a, apdu) == <<a % 256, a \div 256>> \o apdu

build_group_packet(a, apdu) == <<a \div 256, a % 256>> \o apdu

(* knxd puts an individual address in front and hands the telegram to every *)
(* group connection that reads.                                             *)
Carried(packet) == <<0, 1>> \o packet

Telegram(sender, g, text, apdu) ==
    [bytes |-> Carried(build_group_packet(to_eibaddr(g), apdu)),
     sender |-> sender, group |-> g, text |-> text]

--------------------------------------------------------------------------
Init ==
    /\ bus = << >>
    /\ cache = [a \in {0} |-> << >>]
    /\ last = [g \in {} |-> << >>]
    /\ reply = {}

(* WriteHandler::handle for one address of a request. *)
HandleWrite(text, v) ==
    /\ Len(bus) < MaxBus
    /\ \E addr \in from_cometvisu(text), apdu \in ClientApdu(v) :
         bus' = Append(bus, Telegram("client", addr.group, v, apdu))
    /\ reply' = {}
    /\ UNCHANGED <<cache, last>>

(* Another device of the installation sends a telegram. *)
ForeignTelegram(g, v) ==
    /\ Len(bus) < MaxBus
    /\ bus' = Append(bus, Telegram("device", g, v, <<0>> \o hex_decode(v)))
    /\ reply' = {}
    /\ UNCHANGED <<cache, last>>

out_group_addr(bytes) == (bytes[3] * 256) + bytes[4]

out_apdu(bytes) == SubSeq(bytes, 5, Len(bytes))

Put(f, k, x) == [y \in DOMAIN f \cup {k} |-> IF y = k THEN x ELSE f[y]]

(* The addresses with a slot of their own.  The slots left are the empty    *)
(* ones, whose addr is 0: a lookup of 0/0/0 finds the first of them.        *)
Occupied == DOMAIN cache \ {0}

Full == Cardinality(Occupied) = kSharedCacheCapacity

(* A new address takes an empty slot.  It may be the one that a lookup of   *)
(* 0/0/0 found; the next one holds nothing, and after the last there is no  *)
(* other.                                                                   *)
WithNew(a, value) ==
    LET table == Put(cache, a, value)
    IN  IF Cardinality(Occupied) + 1 = kSharedCacheCapacity
        THEN {[x \in DOMAIN table \ {0} |-> table[x]]}
        ELSE {table, Put(table, 0, << >>)}

(* The tables that insert_locked may leave: an entry is overwritten, a full *)
(* table drops the value of a new address.                                  *)
insert_locked(a, value) ==
    IF a \in DOMAIN cache THEN {Put(cache, a, value)}
    ELSE IF Full THEN {cache}
    ELSE WithNew(a, value)

(* push: value_len = min(value.size(), kMaxSharedValueBytes).               *)
Stored(value) ==
    IF Len(value) <= kMaxSharedValueBytes THEN value
    ELSE SubSeq(value, 1, kMaxSharedValueBytes)

(* poll_group_telegram and the body of drain_telegrams for one message. *)
Drain ==
    /\ bus # << >>
    /\ bus' = Tail(bus)
    /\ reply' = {}
    /\ LET bytes == Head(bus).bytes
           p == parse_apdu(out_apdu(bytes))
       IN  IF Len(bytes) < 6 \/ p.type = Read
           THEN UNCHANGED <<cache, last>>
           ELSE /\ cache' \in insert_locked(out_group_addr(bytes), Stored(p.data))
                /\ last' = Put(last, Head(bus).group, Head(bus).text)

addr_key(a) ==
    to_cometvisu([ns |-> default_namespace, group |-> from_eibaddr(a)])

(* The initial read of ReadHandler::handle for one address, no age limit. *)
HandleRead(text) ==
    /\ from_cometvisu(text) # {}
    /\ reply' = {[asked |-> text, key |-> addr_key(a), value |-> hex_encode(cache[a])] :
                   a \in {to_eibaddr(addr.group) : addr \in from_cometvisu(text)}
                         \cap DOMAIN cache}
    /\ UNCHANGED <<bus, cache, last>>

Groups == UNION {from_string(text.parts) : text \in Addresses}

Next ==
    \/ \E text \in Addresses, v \in Values : HandleWrite(text, v)
    \/ \E g \in Groups, v \in Foreign : ForeignTelegram(g, v)
    \/ Drain
    \/ \E text \in Addresses : HandleRead(text)

Spec == Init /\ [][Next]_vars

--------------------------------------------------------------------------
(* Every step of the conversion stays in range: telegrams and cached        *)
(* payloads are bytes, cache keys are 16-bit addresses of a group.          *)
TypeOK ==
    /\ \A i \in 1..Len(bus) :
         /\ bus[i].group \in Group
         /\ \A k \in 1..Len(bus[i].bytes) : bus[i].bytes[k] \in Octet
    /\ \A a \in DOMAIN cache :
         a \in 0..65535 /\ \A k \in 1..Len(cache[a]) : cache[a][k] \in Octet
    /\ \A g \in DOMAIN last : g \in Group
    /\ \A m \in reply : \A k \in 1..Len(m.value) : m.value[k] \in 0..15

CarriesValue(text) == text[1] \in 4..11

(* The digits of the value in a telegram with this hex text: those after    *)
(* the APCI byte or, when the APCI byte is all there is, its low six bits;  *)
(* none unless it is a write or a response.                                 *)
Digits(text) ==
    IF ~CarriesValue(text) THEN << >>
    ELSE IF Len(text) = 2 THEN <<text[1] % 4, text[2]>>
    ELSE SubSeq(text, 3, Len(text))

(* What a reader sees of them: two for each byte that an entry has room for. *)
Shown(text) ==
    LET digits == Digits(text)
    IN  IF Len(digits) <= 2 * kMaxSharedValueBytes THEN digits
        ELSE SubSeq(digits, 1, 2 * kMaxSharedValueBytes)

(* The two ends agree on addresses, whatever to_eibaddr and the big-endian  *)
(* bytes did in between: a slot is taken only for a group that a telegram   *)
(* was meant for, and every such group is found unless all slots are taken; *)
(* for others than 0/0/0, that is by groups that were sent to earlier.      *)
CachedByGroup ==
    /\ Occupied \subseteq {to_eibaddr(g) : g \in DOMAIN last}
    /\ Cardinality(Occupied) <= kSharedCacheCapacity
    /\ Full \/ \A g \in DOMAIN last : to_eibaddr(g) \in DOMAIN cache

(* The namespace of the keys the server prints. *)
PrintedNs == IF default_namespace = "" THEN NoNs ELSE default_namespace

(* A reader of a group gets what was last sent to that same group: the key  *)
(* of each member of the reply, parsed again, is the group asked for, and   *)
(* the key is what was asked for (up to leading zeros) if that was in the   *)
(* namespace the server prints; the value is the one the sender meant, as   *)
(* far as an entry has room for it (ReadHandler::handle's initial read      *)
(* after WriteHandler::handle and drain_telegrams).  For 0/0/0, whose entry *)
(* is an empty slot, a reader may get nothing instead.                      *)
ReadsWhatWasSent ==
    \A m \in reply :
        \E g \in from_string(m.asked.parts) :
            /\ from_string(m.key.parts) = {g}
            /\ m.asked.ns = PrintedNs => m.key = m.asked
            /\ \/ g \in DOMAIN last /\ m.value = Shown(last[g])
               \/ to_eibaddr(g) = 0 /\ m.value = << >>

(* Only group values are written for clients: whatever text a client sent,  *)
(* what reaches knxd for it is an A_GroupValue_Write APDU, as the comment   *)
(* on the write handler's validation says.                                  *)
OnlyGroupValueWrites ==
    \A i \in 1..Len(bus) :
        bus[i].sender = "client" => Apci(bus[i].bytes[6]) = Write

(* A reply names an address the way the request did, as in the example of   *)
(* the README: the value for a=KNX:1/2/3 comes under the key KNX:1/2/3.     *)
KeyedAsAsked == \A m \in reply : m.key = m.asked
=============================================================================
