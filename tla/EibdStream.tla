----------------------------- MODULE EibdStream -----------------------------
(***************************************************************************)
(* Framing of the eibd protocol: messages with a two-byte length travel    *)
(* over a byte stream that read() may cut anywhere; the client collects    *)
(* bytes in read_buffer_ and extracts messages from its front.             *)
(***************************************************************************)
EXTENDS Integers, Sequences

CONSTANTS B,                    \* number of byte values; 256
          Chunk,                \* size of the buffer given to read(); 4096
          kMaxReadBufferSize,   \* 1048576
          Messages,             \* the messages the daemon may send
          MaxSent               \* bound on the number of messages sent

VARIABLES wire,         \* bytes sent and not read
          buffer,       \* read_buffer_
          stream,       \* all bytes sent so far
          taken,        \* all bytes extracted so far
          sent,         \* the messages sent
          received      \* the messages extracted and parsed

streamVars == <<wire, buffer, stream, taken, sent, received>>

Byte == 0..(B - 1)

ASSUME StreamAssumption ==
  /\ B \in Nat \ {0, 1} /\ Chunk \in Nat \ {0}
  /\ kMaxReadBufferSize \in Nat /\ kMaxReadBufferSize >= (B * B) + Chunk
  /\ MaxSent \in Nat
  /\ \A m \in Messages : m \in [type : 0..((B * B) - 1), data : Seq(Byte)]

-----------------------------------------------------------------------------
(* Messages *)

\* Mutant: a length that counts its own two bytes.
build_eibd_message_total(type, data) ==
  LET payload_size == 4 + Len(data)
  IN  <<(payload_size \div B) % B, payload_size % B, (type \div B) % B, type % B>> \o data

build_eibd_message(type, data) ==
  LET payload_size == 2 + Len(data)
  IN  <<(payload_size \div B) % B, payload_size % B, (type \div B) % B, type % B>> \o data

\* The length in the first two bytes.
payload_len(raw) == (raw[1] * B) + raw[2]

\* try_extract_message: whether the front of the buffer is a whole message.
Complete(buf) == Len(buf) >= 2 /\ Len(buf) >= 2 + payload_len(buf)

\* What is extracted, and what stays.
Front(buf) == SubSeq(buf, 1, 2 + payload_len(buf))
Rest(buf) == SubSeq(buf, 3 + payload_len(buf), Len(buf))

\* parse_eibd_message, of a message that was extracted.
Parsed(raw) == [type |-> (raw[3] * B) + raw[4], data |-> SubSeq(raw, 5, Len(raw))]

-----------------------------------------------------------------------------
StreamInit ==
  /\ wire = <<>> /\ buffer = <<>> /\ stream = <<>> /\ taken = <<>>
  /\ sent = <<>> /\ received = <<>>

Send(m) ==
  /\ Len(sent) < MaxSent
  /\ sent' = Append(sent, m)
  /\ wire' = wire \o build_eibd_message(m.type, m.data)
  /\ stream' = stream \o build_eibd_message(m.type, m.data)
  /\ UNCHANGED <<buffer, taken, received>>

\* What read_some keeps of the buffer when n bytes come in: it makes room at the
\* front if the limit would be passed.
Kept(n) ==
  LET excess == Len(buffer) + n - kMaxReadBufferSize
  IN  IF excess <= 0 THEN buffer
      ELSE IF excess >= Len(buffer) THEN <<>>
      ELSE SubSeq(buffer, excess + 1, Len(buffer))

\* Mutant: read() is called before the buffer is searched for a message.
ReadSomeEager(n) ==
  /\ n <= Len(wire) /\ n <= Chunk
  /\ buffer' = Kept(n) \o SubSeq(wire, 1, n)
  /\ wire' = SubSeq(wire, n + 1, Len(wire))
  /\ UNCHANGED <<stream, taken, sent, received>>

\* read_message reads only when no whole message is buffered.
ReadSome(n) ==
  /\ n <= Len(wire) /\ n <= Chunk /\ ~Complete(buffer)
  /\ buffer' = Kept(n) \o SubSeq(wire, 1, n)
  /\ wire' = SubSeq(wire, n + 1, Len(wire))
  /\ UNCHANGED <<stream, taken, sent, received>>

\* A message of fewer than four bytes does not parse and is dropped.
Extract ==
  /\ Complete(buffer)
  /\ buffer' = Rest(buffer)
  /\ taken' = taken \o Front(buffer)
  /\ received' = IF Len(Front(buffer)) >= 4 THEN Append(received, Parsed(Front(buffer)))
                                            ELSE received
  /\ UNCHANGED <<wire, stream, sent>>

StreamNext ==
  \/ \E m \in Messages : Send(m)
  \/ \E n \in 1..Chunk : ReadSome(n)
  \/ Extract

StreamSpec == StreamInit /\ [][StreamNext]_streamVars

StreamFairSpec == StreamSpec /\ WF_streamVars(Extract) /\ WF_streamVars(\E n \in 1..Chunk : ReadSome(n))

-----------------------------------------------------------------------------
(* Properties *)

\* Bytes are bytes.
StreamTypeOK == wire \in Seq(Byte) /\ buffer \in Seq(Byte) /\ stream \in Seq(Byte) /\ taken \in Seq(Byte)

\* No byte is lost, made up or moved, however the stream is cut: in particular the
\* limit of the read buffer never throws part of a message away.
BytesConserved == stream = (taken \o buffer) \o wire

\* The client gets every message that was sent in the end, in order, whole and
\* unchanged.
AllReceived ==
  \A n \in 1..MaxSent :
    (Len(sent) >= n) ~> (Len(received) >= n /\ received[n] = sent[n])
=============================================================================
