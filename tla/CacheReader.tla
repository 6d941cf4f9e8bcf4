---------------------------- MODULE CacheReader ----------------------------
(***************************************************************************)
(* The cache reader process: run_cache_reader with its knxd client.  It    *)
(* connects, waits for activity on the socket, and pushes every telegram   *)
(* that carries a value into the shared cache.                             *)
(***************************************************************************)
EXTENDS KnxdClient, FiniteSets

VARIABLES place,      \* where the reader is
          connected,  \* the local variable of run_cache_reader
          pushed,     \* telegrams pushed into the cache, in order
          spins,      \* iterations since the reader last blocked, slept or got a message
          cut         \* history: whether an unrelated message ended the last drain

readerVars == <<place, connected, pushed, spins, cut>>
cacheReaderVars == <<daemonVars, linkVars, readerVars>>

MaxSpins == 3

ReaderTypeOK ==
  /\ LinkTypeOK
  /\ place \in {"loop", "connecting", "backoff", "drain", "drained", "reconnecting", "retry"}
  /\ connected \in BOOLEAN
  /\ \A i \in DOMAIN pushed : pushed[i] \in Telegram
  /\ spins \in 0..MaxSpins
  /\ cut \in BOOLEAN

ReaderInit ==
  /\ LinkInit
  /\ place = "loop" /\ connected = FALSE /\ pushed = <<>> /\ spins = 0 /\ cut = FALSE

Spin == spins' = IF spins < MaxSpins THEN spins + 1 ELSE spins

-----------------------------------------------------------------------------
(* Connecting *)

Connect ==
  /\ place = "loop" /\ ~connected
  /\ Establish(FALSE, TRUE)
  /\ place' = "connecting" /\ Spin
  /\ UNCHANGED <<connected, pushed, cut>>

\* "continue": the next iteration waits for activity.
Connected ==
  /\ place = "connecting" /\ call = "ok"
  /\ call' = "idle" /\ connected' = TRUE /\ place' = "loop"
  /\ UNCHANGED <<daemonVars, fd, nonblocking, group_socket_open, write_only_, want, peer,
                 inbox, outbox, orphans, read_buffer_, pushed, spins, cut>>

ConnectFailed ==
  /\ place = "connecting" /\ call = "fail"
  /\ Disconnected /\ call' = "idle" /\ place' = "backoff"
  /\ UNCHANGED <<daemonVars, write_only_, want, connected, pushed, spins, cut>>

\* sleep_interruptible.
Backoff ==
  /\ place = "backoff"
  /\ place' = "loop" /\ spins' = 0
  /\ UNCHANGED <<daemonVars, linkVars, connected, pushed, cut>>

-----------------------------------------------------------------------------
(* wait_for_activity *)

\* Mutants: no connection is reported as a timeout; the reader reconnects only if
\* it did not think it was connected.
WaitErrorAsTimeout ==
  /\ place = "loop" /\ connected /\ fd # "open"
  /\ Spin
  /\ UNCHANGED <<daemonVars, linkVars, place, connected, pushed, cut>>

WaitErrorStillConnected ==
  /\ place = "loop" /\ connected /\ fd # "open"
  /\ Disconnected /\ place' = "backoff" /\ Spin
  /\ UNCHANGED <<daemonVars, write_only_, want, call, connected, pushed, cut>>

\* A dead connection comes before pending data, and no connection is an error.
WaitError ==
  /\ place = "loop" /\ connected /\ fd # "open"
  /\ Disconnected /\ connected' = FALSE /\ place' = "backoff" /\ Spin
  /\ UNCHANGED <<daemonVars, write_only_, want, call, pushed, cut>>

\* poll looks at the socket only, not at read_buffer_.
WaitData ==
  /\ place = "loop" /\ connected /\ fd = "open" /\ inbox # <<>>
  /\ place' = "drain" /\ Spin /\ cut' = FALSE
  /\ UNCHANGED <<daemonVars, linkVars, connected, pushed>>

WaitIdle ==
  /\ place = "loop" /\ connected /\ fd = "open" /\ inbox = <<>>
  /\ spins' = 0
  /\ UNCHANGED <<daemonVars, linkVars, place, connected, pushed, cut>>

-----------------------------------------------------------------------------
(* drain_telegrams and poll_group_telegram *)

\* Mutants: the message stays in the buffer; a group read ends the drain.
DrainMessageKept(k) ==
  LET m == Head(Buffered(k))
  IN  /\ place \in {"drain", "retry"} /\ k \in ReadSizes /\ Len(pushed) < MaxTelegram
      /\ read_buffer_' = Buffered(k) /\ inbox' = Unread(k)
      /\ pushed' = IF m.type = "value" THEN Append(pushed, m.n) ELSE pushed
      /\ place' = IF m.type \in {"value", "read"} THEN "drain" ELSE "loop"
      /\ spins' = 0 /\ cut' = (m.type = "unrelated")
      /\ UNCHANGED <<daemonVars, fd, nonblocking, group_socket_open, write_only_, want,
                     call, peer, outbox, orphans, connected>>

DrainMessageStopping(k) ==
  LET m == Head(Buffered(k))
  IN  /\ place \in {"drain", "retry"} /\ k \in ReadSizes
      /\ read_buffer_' = Tail(Buffered(k)) /\ inbox' = Unread(k)
      /\ pushed' = IF m.type = "value" THEN Append(pushed, m.n) ELSE pushed
      /\ place' = IF m.type = "value" THEN "drain" ELSE "loop"
      /\ spins' = 0 /\ cut' = (m.type = "unrelated")
      /\ UNCHANGED <<daemonVars, fd, nonblocking, group_socket_open, write_only_, want,
                     call, peer, outbox, orphans, connected>>

\* A message: a value is pushed, a group read is skipped, anything else ends the
\* drain.  After a reconnection the same is tried once.
DrainMessage(k) ==
  LET m == Head(Buffered(k))
  IN  /\ place \in {"drain", "retry"} /\ k \in ReadSizes
      /\ read_buffer_' = Tail(Buffered(k)) /\ inbox' = Unread(k)
      /\ pushed' = IF m.type = "value" THEN Append(pushed, m.n) ELSE pushed
      /\ place' = IF m.type \in {"value", "read"} THEN "drain" ELSE "loop"
      /\ spins' = 0 /\ cut' = (m.type = "unrelated")
      /\ UNCHANGED <<daemonVars, fd, nonblocking, group_socket_open, write_only_, want,
                     call, peer, outbox, orphans, connected>>

\* Nothing to read; poll for POLLHUP comes a moment later.
DrainEmpty ==
  /\ place = "drain" /\ inbox = <<>> /\ read_buffer_ = <<>>
  /\ place' = "drained"
  /\ UNCHANGED <<daemonVars, linkVars, connected, pushed, spins, cut>>

DrainEnds ==
  /\ place = "drained" /\ fd = "open"
  /\ place' = "loop"
  /\ UNCHANGED <<daemonVars, linkVars, connected, pushed, spins, cut>>

\* reconnect().
Reconnect ==
  /\ place = "drained" /\ fd = "hup"
  /\ Establish(write_only_, TRUE)
  /\ place' = "reconnecting"
  /\ UNCHANGED <<connected, pushed, spins, cut>>

Reconnected ==
  /\ place = "reconnecting" /\ call \in {"ok", "fail"}
  /\ place' = IF call = "ok" THEN "retry" ELSE "loop"
  /\ call' = "idle"
  /\ UNCHANGED <<daemonVars, fd, nonblocking, group_socket_open, write_only_, want, peer,
                 inbox, outbox, orphans, read_buffer_, connected, pushed, spins, cut>>

RetryEmpty ==
  /\ place = "retry" /\ inbox = <<>> /\ read_buffer_ = <<>>
  /\ place' = "loop"
  /\ UNCHANGED <<daemonVars, linkVars, connected, pushed, spins, cut>>

-----------------------------------------------------------------------------
ReaderStep ==
  \/ Connect \/ Connected \/ ConnectFailed \/ Backoff
  \/ WaitError \/ WaitData \/ WaitIdle
  \/ DrainEmpty \/ DrainEnds \/ Reconnect \/ Reconnected \/ RetryEmpty
  \/ \E k \in 0..Len(inbox) : DrainMessage(k)

ReaderNext ==
  \/ ReaderStep
  \/ LinkStep /\ UNCHANGED readerVars
  \/ DaemonStep /\ UNCHANGED readerVars

ReaderSpec == ReaderInit /\ [][ReaderNext]_cacheReaderVars

\* The reader runs, and a daemon that is up answers; it may stay down forever.
ReaderFairSpec ==
  /\ ReaderSpec
  /\ WF_cacheReaderVars(ReaderStep)
  /\ WF_cacheReaderVars(LinkStep /\ UNCHANGED readerVars)
  /\ WF_cacheReaderVars(DaemonOpens /\ UNCHANGED readerVars)

-----------------------------------------------------------------------------
(* Properties *)

\* Through reconnections, partial reads and hang-ups, the cache gets telegrams in
\* bus order and none twice: the last value pushed for an address is its newest.
PushedInOrder ==
  \A i, j \in DOMAIN pushed : i < j => pushed[i] < pushed[j]

\* "never busy-loops, even when knxd is missing or the connection dies": at most
\* two iterations run without sleeping, blocking in poll or taking a message.
NeverBusyLoops == spins < MaxSpins

\* "retries the connection forever": while the daemon is up, the reader gets a
\* group socket it can read from.
ReaderRecovers == (daemon = "up") ~> (peer = "read_write" \/ daemon # "up")

Pushed(n) == \E i \in DOMAIN pushed : pushed[i] = n
In(n, q) == \E i \in DOMAIN q : q[i] = Message("value", n)

\* A telegram that an unrelated message left behind in read_buffer_, with nothing
\* in the socket that would wake the reader.
LeftBehind(n) == place = "loop" /\ cut /\ In(n, read_buffer_) /\ inbox = <<>>

\* While the connection lasts, a telegram is pushed when it, or anything after it,
\* reaches the socket: drain_telegrams leaves nothing in read_buffer_ except behind
\* an unrelated message, and then only until the next message arrives.
ArrivedIsPushed ==
  \A n \in Telegram :
    (connected /\ inbox # <<>> /\ (In(n, inbox) \/ In(n, read_buffer_)))
      ~> (Pushed(n) \/ fd # "open" \/ LeftBehind(n))

\* "immediately look for pending telegrams": a telegram that came in with the
\* handshake's answer is pushed, or the connection is lost.
BufferedIsPushed ==
  \A n \in Telegram : In(n, read_buffer_) ~> (Pushed(n) \/ fd # "open")
=============================================================================
