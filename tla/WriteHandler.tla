---------------------------- MODULE WriteHandler ----------------------------
(***************************************************************************)
(* A worker's write path: GET /w, and the worker's own knxd client, which  *)
(* reconnects on demand and retries a failed write once.                   *)
(*                                                                         *)
(* Every call of send_group_packet has a number, so that a packet can be   *)
(* followed from the request to the bus.                                   *)
(***************************************************************************)
EXTENDS KnxdClient, FiniteSets

CONSTANTS MaxAddress,     \* bound on the "a" parameters of a request
          MaxPacket       \* bound on the packets sent in total

VARIABLES pc,             \* where the worker is
          todo,           \* addresses still to write: TRUE if well-formed
          any_valid,
          any_failed,
          status,         \* HTTP status of the last answer, 0 before the first
          packet,         \* number of the packet being sent, or of the last one
          first,          \* number of the request's first packet
          acked,          \* packets for which send_group_packet returned true
          delivered,      \* packets the daemon put on the bus, in order
          lost            \* history: acked packets that died with the daemon

writerVars == <<pc, todo, any_valid, any_failed, status, packet, first, acked, delivered,
                lost>>
vars == <<daemonVars, linkVars, writerVars>>

ASSUME WriterAssumption == MaxAddress \in Nat /\ MaxPacket \in Nat

TypeOK ==
  /\ LinkTypeOK
  /\ pc \in {"spawn", "starting", "accept", "next", "send", "prepare", "write",
             "retry", "rewrite"}
  /\ todo \in UNION {[1..n -> BOOLEAN] : n \in 0..MaxAddress}
  /\ any_valid \in BOOLEAN /\ any_failed \in BOOLEAN
  /\ status \in {0, 200, 401, 404, 503}
  /\ packet \in 0..MaxPacket /\ first \in 1..(MaxPacket + 1)
  /\ acked \subseteq 1..packet
  /\ \A i \in DOMAIN delivered : delivered[i] \in 1..packet
  /\ lost \subseteq acked

Init ==
  /\ LinkInit
  /\ pc = "spawn" /\ todo = <<>> /\ any_valid = FALSE /\ any_failed = FALSE
  /\ status = 0 /\ packet = 0 /\ first = 1 /\ acked = {} /\ delivered = <<>>
  /\ lost = {}

-----------------------------------------------------------------------------
(* The worker starts *)

\* connect() once and open_group_socket(true); the socket stays in blocking mode.
Spawn ==
  /\ pc = "spawn"
  /\ Establish(TRUE, FALSE)
  /\ pc' = "starting"
  /\ UNCHANGED <<todo, any_valid, any_failed, status, packet, first, acked, delivered, lost>>

\* Ready with or without a connection.
Ready ==
  /\ pc = "starting" /\ call \in {"ok", "fail"}
  /\ call' = "idle" /\ pc' = "accept"
  /\ UNCHANGED <<daemonVars, fd, nonblocking, group_socket_open, write_only_, want, peer,
                 inbox, outbox, orphans, read_buffer_, todo, any_valid, any_failed, status,
                 packet, first, acked, delivered, lost>>

-----------------------------------------------------------------------------
(* WriteHandler::handle *)

\* What the checks before the loop answer, or 0 to go on: no addresses or no value,
\* then the session, then a value that is not hex or lacks the Write bit.
Verdict(addresses, session, v) ==
  CASE addresses = <<>> \/ v = "missing" -> 200
    [] session = "invalid" -> 401
    [] v = "bad" -> 200
    [] OTHER -> 0

Handle(addresses, session, v) ==
  /\ pc = "accept" /\ packet + Len(addresses) <= MaxPacket
  /\ IF Verdict(addresses, session, v) # 0
     THEN /\ status' = Verdict(addresses, session, v)
          /\ first' = packet + 1
          /\ UNCHANGED <<pc, todo, any_valid, any_failed>>
     ELSE /\ todo' = addresses /\ any_valid' = FALSE /\ any_failed' = FALSE
          /\ first' = packet + 1
          /\ pc' = "next"
          /\ UNCHANGED status
  /\ UNCHANGED <<daemonVars, linkVars, packet, acked, delivered, lost>>

\* Mutant: an address that does not parse stays at the head of the loop.
NextAddressStuck ==
  /\ pc = "next" /\ todo # <<>>
  /\ IF Head(todo)
     THEN /\ pc' = "send" /\ any_valid' = TRUE /\ packet' = packet + 1
          /\ todo' = Tail(todo)
     ELSE UNCHANGED <<pc, todo, any_valid, packet>>
  /\ UNCHANGED <<daemonVars, linkVars, any_failed, status, first, acked, delivered, lost>>

\* The loop over the addresses: one that does not parse is passed over.
NextAddress ==
  /\ pc = "next" /\ todo # <<>>
  /\ todo' = Tail(todo)
  /\ IF Head(todo)
     THEN pc' = "send" /\ any_valid' = TRUE /\ packet' = packet + 1
     ELSE UNCHANGED <<pc, any_valid, packet>>
  /\ UNCHANGED <<daemonVars, linkVars, any_failed, status, first, acked, delivered, lost>>

Answer ==
  /\ pc = "next" /\ todo = <<>>
  /\ status' = IF ~any_valid THEN 404 ELSE IF any_failed THEN 503 ELSE 200
  /\ pc' = "accept"
  /\ any_valid' = FALSE /\ any_failed' = FALSE
  /\ UNCHANGED <<daemonVars, linkVars, todo, packet, first, acked, delivered, lost>>

-----------------------------------------------------------------------------
(* KnxdClient::send_group_packet *)

\* Mutant: the failure is not noted.
FailedQuietly ==
  /\ pc' = "next"
  /\ UNCHANGED <<todo, any_valid, any_failed, status, packet, first, acked, delivered, lost>>

Failed ==
  /\ any_failed' = TRUE /\ pc' = "next"
  /\ UNCHANGED <<todo, any_valid, status, packet, first, acked, delivered, lost>>

SendReady ==
  /\ pc = "send" /\ fd # "none" /\ group_socket_open
  /\ pc' = "write"
  /\ UNCHANGED <<daemonVars, linkVars, todo, any_valid, any_failed, status, packet, first,
                 acked, delivered, lost>>

\* Mutant: reconnect() opens the group socket in its default mode.
SendReconnectReadable ==
  /\ pc = "send" /\ ~(fd # "none" /\ group_socket_open)
  /\ Establish(FALSE, TRUE)
  /\ pc' = "prepare"
  /\ UNCHANGED <<todo, any_valid, any_failed, status, packet, first, acked, delivered, lost>>

\* Not connected: reconnect() first, with the remembered write_only_.
SendReconnect ==
  /\ pc = "send" /\ ~(fd # "none" /\ group_socket_open)
  /\ Establish(write_only_, TRUE)
  /\ pc' = "prepare"
  /\ UNCHANGED <<todo, any_valid, any_failed, status, packet, first, acked, delivered, lost>>

\* reconnect() has returned.
Established ==
  /\ pc \in {"prepare", "retry"} /\ call \in {"ok", "fail"}
  /\ call' = "idle"
  /\ IF call = "fail" THEN Failed
     ELSE /\ pc' = IF pc = "prepare" THEN "write" ELSE "rewrite"
          /\ UNCHANGED <<todo, any_valid, any_failed, status, packet, first, acked, delivered, lost>>
  /\ UNCHANGED <<daemonVars, fd, nonblocking, group_socket_open, write_only_, want, peer,
                 inbox, outbox, orphans, read_buffer_>>

\* Mutant: a full buffer (EAGAIN) counts as written.
WriteOkWhenFull ==
  /\ pc \in {"write", "rewrite"} /\ fd = "open"
  /\ outbox' = IF Len(outbox) < SendBuffer THEN Append(outbox, GroupPacket(packet))
                                           ELSE outbox
  /\ acked' = acked \cup {packet}
  /\ pc' = "next"
  /\ UNCHANGED <<daemonVars, fd, nonblocking, group_socket_open, write_only_, want, call,
                 peer, inbox, orphans, read_buffer_, todo, any_valid, any_failed, status,
                 packet, first, delivered, lost>>

\* write_all succeeds once the kernel takes the message.
WriteOk ==
  /\ pc \in {"write", "rewrite"} /\ fd = "open" /\ Len(outbox) < SendBuffer
  /\ outbox' = Append(outbox, GroupPacket(packet))
  /\ acked' = acked \cup {packet}
  /\ pc' = "next"
  /\ UNCHANGED <<daemonVars, fd, nonblocking, group_socket_open, write_only_, want, call,
                 peer, inbox, orphans, read_buffer_, todo, any_valid, any_failed, status,
                 packet, first, delivered, lost>>

\* write_all fails: EPIPE, or in non-blocking mode five seconds with a full buffer.
\* In blocking mode write() waits for as long as the buffer is full.  A message of
\* which the kernel took a part is lost with the connection, which is closed next.
CannotWrite ==
  fd = "hup" \/ (fd = "open" /\ nonblocking /\ Len(outbox) = SendBuffer /\ daemon # "up")

\* Mutant: a write is also taken for failed after the daemon has it.
WriteFailsLate ==
  /\ pc = "write"
  /\ \/ CannotWrite /\ Establish(write_only_, TRUE)
     \/ /\ fd = "open" /\ Len(outbox) < SendBuffer
        /\ orphans' = Append(orphans, GroupPacket(packet))
        /\ want' = [wo |-> write_only_, nb |-> TRUE] /\ call' = "connect"
        /\ fd' = "none" /\ group_socket_open' = FALSE /\ read_buffer_' = <<>>
        /\ peer' = "none" /\ inbox' = <<>> /\ outbox' = <<>> /\ nonblocking' = FALSE
        /\ UNCHANGED <<daemonVars, write_only_>>
  /\ pc' = "retry"
  /\ UNCHANGED <<todo, any_valid, any_failed, status, packet, first, acked, delivered, lost>>

WriteFails ==
  /\ pc = "write" /\ CannotWrite
  /\ Establish(write_only_, TRUE)
  /\ pc' = "retry"
  /\ UNCHANGED <<todo, any_valid, any_failed, status, packet, first, acked, delivered, lost>>

\* The retry is the first packet on a fresh connection, whose buffer has room: only a
\* daemon that is gone fails it, and takes no part of the message.
RewriteFails ==
  /\ pc = "rewrite" /\ CannotWrite
  /\ Failed
  /\ UNCHANGED <<daemonVars, linkVars>>

-----------------------------------------------------------------------------
(* The daemon's side of a packet *)

DaemonWrites ==
  /\ daemon = "up" /\ outbox # <<>> /\ Head(outbox).type = "packet"
  /\ delivered' = Append(delivered, Head(outbox).n)
  /\ outbox' = Tail(outbox)
  /\ UNCHANGED <<daemonVars, fd, nonblocking, group_socket_open, write_only_, want, call,
                 peer, inbox, orphans, read_buffer_, pc, todo, any_valid, any_failed,
                 status, packet, first, acked, lost>>

\* A packet on a connection that was closed since; connections are served in no
\* particular order.
DaemonWritesOrphan ==
  /\ daemon = "up" /\ orphans # <<>>
  /\ delivered' = Append(delivered, Head(orphans).n)
  /\ orphans' = Tail(orphans)
  /\ UNCHANGED <<daemonVars, fd, nonblocking, group_socket_open, write_only_, want, call,
                 peer, inbox, outbox, read_buffer_, pc, todo, any_valid, any_failed,
                 status, packet, first, acked, lost>>

Delivered(n) == \E i \in DOMAIN delivered : delivered[i] = n

\* What else happens at the other end.  A daemon that dies takes with it what it
\* has not put on the bus.
DaemonActs ==
  /\ DaemonStep
  /\ lost' = IF daemon # "down" /\ daemon' = "down"
             THEN lost \cup {n \in acked : ~Delivered(n)} ELSE lost
  /\ UNCHANGED <<pc, todo, any_valid, any_failed, status, packet, first, acked, delivered>>

-----------------------------------------------------------------------------
Addresses == UNION {[1..n -> BOOLEAN] : n \in 0..MaxAddress}

Request ==
  \E addresses \in Addresses, session \in {"none", "valid", "invalid"},
     v \in {"missing", "bad", "write"} : Handle(addresses, session, v)

WriterStep ==
  \/ Spawn \/ Ready \/ NextAddress \/ Answer
  \/ SendReady \/ SendReconnect \/ Established
  \/ WriteOk \/ WriteFails \/ RewriteFails

Next ==
  \/ Request \/ WriterStep
  \/ DaemonWrites \/ DaemonWritesOrphan
  \/ LinkStep /\ UNCHANGED writerVars
  \/ DaemonActs

Spec == Init /\ [][Next]_vars

\* The worker runs, and a daemon that is up serves; it may stay down or hang.
FairSpec ==
  /\ Spec
  /\ WF_vars(WriterStep)
  /\ WF_vars(LinkStep /\ UNCHANGED writerVars)
  /\ WF_vars(DaemonOpens /\ UNCHANGED writerVars)
  /\ WF_vars(DaemonWrites)
  /\ WF_vars(DaemonWritesOrphan)

-----------------------------------------------------------------------------
(* Properties *)

\* The retry in send_group_packet writes nothing twice: across broken and closed
\* connections, no packet is put on the bus more than once.  And only packets whose
\* send succeeded get there: a client that is told that its one write failed may
\* repeat it.
DeliveredOnce ==
  \A i \in DOMAIN delivered :
    /\ delivered[i] \in acked
    /\ \A j \in DOMAIN delivered : delivered[i] = delivered[j] => i = j

\* The answer tells what became of the request: after 200 all of its packets were
\* sent, after 503 at least one was not, and 404 means that there was none to send,
\* whatever reconnections and retries the packets went through.
StatusHonest ==
  pc = "accept" =>
    /\ status = 200 => first..packet \subseteq acked
    /\ status = 503 => ~(first..packet \subseteq acked)
    /\ status = 404 => first > packet

\* In blocking mode a write to a daemon that hangs does not return.
Kept ==
  pc = "write" /\ fd = "open" /\ ~nonblocking /\ Len(outbox) = SendBuffer /\ daemon = "hung"

\* Every request is answered: neither the reconnection nor the retry keeps the
\* worker, whether the daemon dies, hangs or stays away.  Only the socket the
\* worker started with, which is in blocking mode, can keep it (see Kept).
RequestsAnswered == (pc = "next") ~> (pc = "accept" \/ Kept)

\* Every request is answered, without exception.
AlwaysAnswered == (pc = "next") ~> (pc = "accept")

\* A packet whose send succeeded gets to the bus or dies with the daemon; one that
\* only hangs, and always resumes, delivers it even when the client gave that
\* connection up in the meantime.
AckedDelivered ==
  ([]<>(daemon # "hung")) =>
    \A n \in 1..MaxPacket : (n \in acked) ~> (Delivered(n) \/ n \in lost)

\* The mode of the group socket outlives the connection: once a worker has asked for
\* a write-only group socket, the daemon never again has a readable one for it,
\* however often and wherever the connection breaks and is made anew.
ModeRemembered == [][write_only_ => write_only_' /\ peer' # "read_write"]_vars

\* "If all valid writes failed, report an error so the client knows the write
\* didn't reach the bus": an error means that nothing was written.
ErrorMeansNothingWritten == status = 503 /\ pc = "accept" => acked \cap (first..packet) = {}

\* "Workers only open write-only knxd connections": the daemon never has a
\* readable group socket for a worker, whose telegrams nobody would read.  (It does
\* not hold: a worker whose first connect failed never asked, see ModeRemembered.)
WorkersOnlyWrite == peer # "read_write"
=============================================================================
