----------------------------- MODULE KnxdClient -----------------------------
(***************************************************************************)
(* One knxd client: a Unix stream socket to the daemon, the group socket   *)
(* handshake on it, and the daemon at the other end, which may die, hang   *)
(* and come back at any time.  The cache reader and the workers each have  *)
(* a client of their own; CacheReader and WriteHandler extend this module. *)
(*                                                                         *)
(* Messages are whole here; that a byte stream cut anywhere yields them is *)
(* the subject of EibdStream.                                              *)
(***************************************************************************)
EXTENDS Integers, Sequences

CONSTANTS MaxTelegram,    \* bound on the telegrams seen on the bus
          MaxFault,       \* bound on the daemon's faults
          FaultKinds,     \* which of "die", "hang" and "refuse"
          Noise,          \* what else than values the daemon sends
          SendBuffer      \* messages the kernel holds for a daemon that does not read

VARIABLES daemon,             \* "up", "hung" (accepts, does not serve) or "down"
          faults,
          bus,                \* number of telegrams seen on the bus so far
          fd,                 \* "none", "open" or "hup" (the daemon is gone)
          nonblocking,        \* O_NONBLOCK
          group_socket_open,
          write_only_,        \* remembered for reconnect()
          want,               \* arguments of the call in progress
          call,               \* progress of connect() and open_group_socket()
          peer,               \* the daemon's view of the connection
          inbox,              \* from the daemon, in the kernel
          outbox,             \* to the daemon, in the kernel
          orphans,            \* packets on closed connections, still to be read
          read_buffer_        \* read from the kernel, not yet extracted

daemonVars == <<daemon, faults, bus>>
linkVars == <<fd, nonblocking, group_socket_open, write_only_, want, call, peer,
              inbox, outbox, orphans, read_buffer_>>

ASSUME ClientAssumption ==
  /\ MaxTelegram \in Nat /\ MaxFault \in Nat /\ SendBuffer \in Nat \ {0}
  /\ FaultKinds \subseteq {"die", "hang", "refuse"}
  /\ Noise \subseteq {"read", "unrelated"}

Telegram == 1..MaxTelegram

\* From the daemon: the handshake's answer or one that refuses it, the n-th telegram
\* carrying a value, a group read, or a message of another type.
Message(type, n) == [type |-> type, n |-> n]
Reply == Message("reply", 0)
Refusal == Message("refusal", 0)
Incoming == {Reply, Refusal}
            \cup {Message(type, n) : type \in {"value", "read", "unrelated"}, n \in Telegram}

\* To the daemon: a request to open a group socket, or a group packet.
OpenRequest(wo) == [type |-> "open", wo |-> wo]
GroupPacket(n) == [type |-> "packet", n |-> n]

LinkTypeOK ==
  /\ daemon \in {"up", "hung", "down"} /\ faults \in 0..MaxFault /\ bus \in 0..MaxTelegram
  /\ fd \in {"none", "open", "hup"}
  /\ nonblocking \in BOOLEAN /\ group_socket_open \in BOOLEAN /\ write_only_ \in BOOLEAN
  /\ want \in [wo : BOOLEAN, nb : BOOLEAN]
  /\ call \in {"idle", "connect", "open", "reply", "ok", "fail"}
  /\ peer \in {"none", "idle", "read_write", "write_only"}
  /\ \A i \in DOMAIN inbox : inbox[i] \in Incoming
  /\ \A i \in DOMAIN read_buffer_ : read_buffer_[i] \in Incoming
  /\ Len(outbox) <= SendBuffer
  /\ \A i \in DOMAIN orphans : orphans[i].type = "packet"

\* A client as its constructor leaves it.
LinkInit ==
  /\ daemon \in {"up", "down"} /\ faults = 0 /\ bus = 0
  /\ fd = "none" /\ nonblocking = FALSE /\ group_socket_open = FALSE
  /\ write_only_ = FALSE /\ want = [wo |-> FALSE, nb |-> FALSE] /\ call = "idle"
  /\ peer = "none" /\ inbox = <<>> /\ outbox = <<>>
  /\ orphans = <<>> /\ read_buffer_ = <<>>

-----------------------------------------------------------------------------
(* The daemon *)

\* The daemon dies: what it did not read is lost, what it sent stays readable.
DaemonDies ==
  /\ "die" \in FaultKinds /\ daemon # "down" /\ faults < MaxFault
  /\ daemon' = "down" /\ faults' = faults + 1
  /\ fd' = IF fd = "open" THEN "hup" ELSE fd
  /\ peer' = "none" /\ outbox' = <<>> /\ orphans' = <<>>
  /\ UNCHANGED <<bus, nonblocking, group_socket_open, write_only_, want, call, inbox,
                 read_buffer_>>

DaemonHangs ==
  /\ "hang" \in FaultKinds /\ daemon = "up" /\ faults < MaxFault
  /\ daemon' = "hung" /\ faults' = faults + 1
  /\ UNCHANGED <<bus, linkVars>>

DaemonRecovers ==
  /\ daemon # "up"
  /\ daemon' = "up"
  /\ UNCHANGED <<faults, bus, linkVars>>

\* A telegram on the bus reaches the client if it has a group socket to read.
BusTelegram(type) ==
  /\ daemon = "up" /\ bus < MaxTelegram
  /\ bus' = bus + 1
  /\ inbox' = IF peer = "read_write" THEN Append(inbox, Message(type, bus'))
                                      ELSE inbox
  /\ UNCHANGED <<daemon, faults, fd, nonblocking, group_socket_open, write_only_, want,
                 call, peer, outbox, orphans, read_buffer_>>

\* The daemon answers OPEN_GROUPCON.
DaemonOpens ==
  /\ daemon = "up" /\ outbox # <<>> /\ Head(outbox).type = "open"
  /\ peer' = IF Head(outbox).wo THEN "write_only" ELSE "read_write"
  /\ inbox' = Append(inbox, Reply)
  /\ outbox' = Tail(outbox)
  /\ UNCHANGED <<daemonVars, fd, nonblocking, group_socket_open, write_only_, want, call,
                 orphans, read_buffer_>>

\* It answers OPEN_GROUPCON with a message of another type, or one that does not parse.
DaemonRefuses ==
  /\ "refuse" \in FaultKinds /\ faults < MaxFault
  /\ daemon = "up" /\ outbox # <<>> /\ Head(outbox).type = "open"
  /\ faults' = faults + 1
  /\ inbox' = Append(inbox, Refusal)
  /\ outbox' = Tail(outbox)
  /\ UNCHANGED <<daemon, bus, fd, nonblocking, group_socket_open, write_only_, want, call,
                 peer, orphans, read_buffer_>>

-----------------------------------------------------------------------------
(* The client *)

\* The packets in the outbox: all of it but the request to open a group socket, which
\* is the first message of a connection.
SentPackets ==
  IF outbox # <<>> /\ Head(outbox).type = "open" THEN Tail(outbox) ELSE outbox

\* disconnect(), with call' and want' left to the caller.  The daemon can still
\* read what was sent before close().
Disconnected ==
  /\ fd' = "none" /\ group_socket_open' = FALSE /\ read_buffer_' = <<>>
  /\ peer' = "none" /\ inbox' = <<>> /\ outbox' = <<>> /\ nonblocking' = FALSE
  /\ orphans' = orphans \o SentPackets

\* Begin connect() and open_group_socket(wo), after closing what was open.
Establish(wo, nb) ==
  /\ Disconnected
  /\ want' = [wo |-> wo, nb |-> nb] /\ call' = "connect"
  /\ UNCHANGED <<daemonVars, write_only_>>

ConnectOk ==
  /\ call = "connect" /\ daemon # "down"
  /\ fd' = "open" /\ peer' = "idle" /\ call' = "open"
  /\ UNCHANGED <<daemonVars, nonblocking, group_socket_open, write_only_, want, inbox,
                 outbox, orphans, read_buffer_>>

\* No daemon, or one whose listen queue is full.
ConnectFails ==
  /\ call = "connect" /\ daemon # "up"
  /\ call' = "fail"
  /\ UNCHANGED <<daemonVars, fd, nonblocking, group_socket_open, write_only_, want, peer,
                 inbox, outbox, orphans, read_buffer_>>

\* open_group_socket sends its request; to a dead daemon that fails.
OpenSend ==
  /\ call = "open"
  /\ write_only_' = want.wo
  /\ \/ /\ fd = "open"
        /\ outbox' = Append(outbox, OpenRequest(want.wo)) /\ call' = "reply"
        /\ UNCHANGED <<daemonVars, fd, nonblocking, group_socket_open, want, peer, inbox,
                       orphans, read_buffer_>>
     \/ /\ fd = "hup"
        /\ Disconnected /\ call' = "fail"
        /\ UNCHANGED <<daemonVars, want>>

\* read_some: the first k messages of the kernel's, after what is buffered.
Buffered(k) == read_buffer_ \o SubSeq(inbox, 1, k)
Unread(k) == SubSeq(inbox, k + 1, Len(inbox))

\* How much read_message reads: nothing while a message is buffered.
ReadSizes == IF read_buffer_ = <<>> THEN 1..Len(inbox) ELSE {0}

\* The answer is there, perhaps with telegrams behind it.
OpenReply(k) ==
  /\ call = "reply" /\ k \in ReadSizes
  /\ Head(Buffered(k)) = Reply
  /\ group_socket_open' = TRUE /\ nonblocking' = want.nb /\ call' = "ok"
  /\ read_buffer_' = Tail(Buffered(k)) /\ inbox' = Unread(k)
  /\ UNCHANGED <<daemonVars, fd, write_only_, want, peer, outbox, orphans>>

\* The answer is another one: open_group_socket fails and the caller disconnects.
OpenRefused(k) ==
  /\ call = "reply" /\ k \in ReadSizes
  /\ Head(Buffered(k)) # Reply
  /\ Disconnected /\ call' = "fail"
  /\ UNCHANGED <<daemonVars, write_only_, want>>

\* EOF, or no answer within handshake_timeout_ms (from a daemon that is up the
\* answer comes in time): the caller disconnects.
OpenTimeout ==
  /\ call = "reply" /\ inbox = <<>> /\ read_buffer_ = <<>>
  /\ fd = "hup" \/ daemon # "up"
  /\ Disconnected /\ call' = "fail"
  /\ UNCHANGED <<daemonVars, write_only_, want>>

LinkStep ==
  \/ ConnectOk \/ ConnectFails \/ OpenSend \/ OpenTimeout
  \/ \E k \in 0..Len(inbox) : OpenReply(k) \/ OpenRefused(k)

Fault == DaemonDies \/ DaemonHangs \/ DaemonRefuses

DaemonStep ==
  \/ Fault \/ DaemonRecovers \/ DaemonOpens
  \/ \E type \in {"value"} \cup Noise : BusTelegram(type)
=============================================================================
