# TLA+ models of cometvisu-knxd-fcgi

This directory models the FastCGI backend that connects CometVisu browsers to a
KNX bus through the daemon knxd. TLC checks the models on small instances; TLAPS
proves the safety properties for every value of the constants.

`tlc -config X.cfg M` runs a configuration, `tlapm M.tla` checks a proof module.
`PROJECT.json` lists the runs, the mutants that show that each property can fail,
the source lines behind each definition, and the hazards and findings.

## The system

    browsers --HTTP--> web server --FCGI--> workers --eibd protocol--> knxd --> bus
                                              ^  |                       |
                                   long poll  |  | reads                 | telegrams
                                              |  v                       v
                                        shared group cache <--push-- cache reader
    supervisor (parent): forks and restarts the workers and the cache reader

- The **supervisor** (`main.cpp`) creates the shared memory, forks one cache reader
  and the workers, restarts children that die and forwards SIGTERM.
- A **worker** accepts one request at a time (`fcgi_server.cpp`), takes semaphore
  tokens for reads, and hands it through the router to a handler. `/r` is a long
  poll on the shared cache, `/w` sends group packets, `/l` creates a session.
- The **shared group cache** is a hash table in shared memory under a robust
  process-shared mutex, with a condition variable on which reads wait. Every push
  advances a position; clients send the position they know as `i` and get what is
  newer.
- The **cache reader** owns the only readable connection to knxd and pushes every
  telegram with a value.
- The **knxd client** frames messages, buffers what it reads, reconnects and retries.

## Modules

| Module | Code | What it models |
|---|---|---|
| `CacheIndex` | `shared_group_cache.*`, `group_cache.*` | arithmetic of the index: the 32-bit counter, its wrap at M, the distance and the epoch test |
| `GroupCache` | `group_cache.*` | push, get, get_delta, clear on a map; also the abstract specification of the shared table |
| `DeltaClients` | both caches | clients that poll with the index they got; history variables count pushes without wrapping |
| `SharedGroupCache` | `shared_group_cache.cpp` | the open-addressed table: probing, insertion, full table, address 0 as the empty mark |
| `CacheSync` | `shared_group_cache.cpp` | the same operations split at every step that matters to another process: lock, copy, generation, unlock, broadcast, wait, the death of the process in between, and a query that throws under the mutex |
| `ReadHandler` | `read_handler.cpp` | the handler of `/r` step by step over `GroupCache`, with pushes, restarts of the server, lost requests and deaths inside the cache between any two steps, and a client that keeps polling |
| `PollTime` | `read_handler.cpp`, `shared_group_cache.cpp`, `main.cpp` | `t` and `LONGPOLL_TIMEOUT_SEC` in the integers of the code, and how long the poll loop waits; run in `MCTelegramPath` |
| `WorkerPool` | `fcgi_server.cpp`, `main.cpp` | accept loop, the two semaphores, crashes, `restore_semaphore` |
| `Supervisor` | `main.cpp` | start-up, wait loop, restarts, failing forks, signals, shutdown |
| `RestartBackoff` | `main.cpp` | the delays before restarts, with time; a second state machine of `MCSupervisor` |
| `KnxdClient` | `knxd_client.cpp` | the connection: connect, open, reply, refusal, time-out, hang-up, and a daemon that dies, hangs and recovers |
| `CacheReader` | `cache_reader.cpp` | the reader's loop, composed with `KnxdClient` |
| `WriteHandler` | `write_handler.cpp` | the handler of `/w` with reconnection and retry, composed with `KnxdClient` |
| `EibdStream` | `knxd_protocol.cpp`, `knxd_client.cpp` | framing and the bounded read buffer, byte by byte |
| `TelegramPath` | `knxd_protocol.cpp`, `hex.cpp`, both handlers | every conversion from the text of a write to the key and text of a read, with what the table does to a value on the way: it is cut to the room of an entry, dropped when no slot is left, or put into an empty slot for 0/0/0 |
| `SessionStore` | `session_store.cpp` | one store per worker: login with and without credentials (`login_handler.cpp`), check, expiry, eviction, restart |
| `QueryString` | `query_string.cpp` | the loop of the parser, one action per pair, with its limits on pairs, keys and values; run over all strings of up to six pairs in `MCTelegramPath` |
| `RequestPath` | `fcgi_request.cpp`, `router.cpp` | from the variables that different web servers set to the handler; run in `MCTelegramPath` |

`MC...` modules give constants their values where a configuration file cannot.
`...Proofs` modules hold the theorems; some cover two or three modules that belong
together. Operators marked "Mutant" in a comment are
wrong versions of the definition that follows them; no specification uses them.

`MCSupervisor` and `MCTelegramPath` hold state machines that do not interact. Each
behaviour of theirs runs one machine, or one before the other, while the variables of the others rest:
a counterexample is one of a single machine.

### How state and actions correspond to the code

Actions have the name of the function or of the step they model. A module is as
fine-grained as its question needs. `SharedGroupCache` takes a whole `push` as one
step, since the mutex makes it one; `CacheSync` is where that is questioned.
`ReadHandler` takes each call of the cache as one step, because the handler holds
no lock between calls. Of the mutex it has what a handler can notice (`mutex`): a process
that dies inside a call leaves it to be repaired by the next one (`Lock`), except by
`wait_for_new_data`, which does not repair it (`Relock`); after that every call fails to
lock and gives its default answer. `PushCut` is the death of the cache reader at each step
of `push`; `torn` remembers the addresses whose entry it left half copied. `WorkerPool` and `Supervisor` take each system call as one
step. In `KnxdClient` the socket is two queues (`inbox`, `outbox`) of messages,
`fd` says whether it is open, hung up or closed, and `peer` what the daemon thinks
of it; `EibdStream` looks below the messages, at the bytes.

What is outside the repository is modelled by what the code relies on: the robust
mutex (an owner's death makes the next locker get EOWNERDEAD, an unlock without
`pthread_mutex_consistent` makes the mutex unusable), `wait`, signals, and knxd,
which answers an open request, sends telegrams in order and reads packets.

## Runs

| Run | Shows |
|---|---|
| `delta_clients` | A client at most half the modulus behind loses no change across wraps (`DeltaComplete`); entries it has are repeated only when they are at least W % M pushes old (`DeltaSound`) |
| `shared_cache` | For every address but 0/0/0, the shared table implements `GroupCache` with pushes refused when it is full, and queries on both agree, whatever is pushed for 0/0/0; a full table keeps what it has up to date |
| `cache_sync` | Whole entries, nobody outside the cache keeps the mutex unless its query threw (`HeldOnlyInside`), no lost wake-up, and waits that return, with processes killed at any step; the mutex becomes unusable only through a waiter (`LostOnlyByWaiter`) |
| `read_handler` | A client misses a value only through a push during an initial read, through the age limit of `t` or a lock that failed, or with an index from before a restart; the index covers the values sent with it and nothing is sent twice (`NoDuplicates`); what it shows never goes back, and its index only to 0 when the cache cannot be locked, or after a restart; all this whoever dies inside the cache, except for an entry torn by a death; a client that now and then reads with t <= 0 becomes current |
| `worker_pool` | No read is refused, although workers die with tokens; restored tokens are bounded |
| `supervisor` | One child per slot; at shutdown every child and at most one stale pid is sent SIGTERM (`ChildrenTold`); slots refilled unless `fork` fails; the parent exits last unless a second SIGTERM interrupts it, and exits at all unless a worker took its SIGTERM with the inherited handler (`PoolStops`); the delay of a child that keeps dying is reset only if the child ran long or was kept waiting by the delays of others (`ResetOnlyIfOvertaken`) |
| `cache_reader` | Telegrams reach the cache once, in order; the loop never spins; the connection is found again; while it lasts, what reaches the socket is pushed, at the latest with the next message if an unrelated one left it in the buffer (`ArrivedIsPushed`) |
| `write_handler` | No packet is delivered twice or after its send was reported failed; the status tells what was sent; requests are answered; acknowledged packets arrive or die with the daemon; a worker that has asked for a write-only group socket never opens a readable one (`ModeRemembered`) |
| `session_store` | The worker that issued a session refuses it before its time only if it has issued a storeful of newer ones since (`RefusedOnlyIfCrowdedOut`); a session goes before its time only if it is the oldest of a full store |
| `eibd_stream` | Messages survive any cutting of the stream |
| `telegram_path` | Readers get, under the right address and in the namespace the server prints under the very key they asked with, the digits that were sent, as far as an entry has room for them (`ReadsWhatWasSent`); no two groups share a slot, and all are found until no slot is left (`CachedByGroup`); beyond the limits of a query string the parser keeps what the first pairs say; a request reaches the right handler whatever its web server sets, except that below a mount it needs more than `REQUEST_URI` and gets 404 without (`EndpointReached`); a poll sleeps on every turn and ends within a second of its timeout, however often it is woken for nothing (`PollsInTime`) |
| `read_race` | Fails: a push between the initial reads and `position()` is never delivered (`NothingMissed`) |

### What the code does not do

While the properties were being written, stronger statements turned out not to hold.
Each one is a definition of its module; put into the configuration of the module's run,
with the changes named here, TLC gives a counterexample. The runs above check the
weaker statement that does hold.

| Statement | What happens | What it contradicts |
|---|---|---|
| `ReadHandler!NothingMissed` (run `read_race`) | a push between the initial reads and `position()` (`read_handler.cpp:166-174`) is never delivered | `shared_group_cache.h:54`: "a client that polls at least once every M/2 entries will always get correct deltas" |
| `NothingMissed` with mode "aged" | `t` > 0 is passed to `get_delta` as an age limit, and the index moves past what it filtered | `test_read_handler.cpp:638`: "must never use the poll timeout (t= parameter) as an age filter" |
| `ReadHandler!PollersCatchUp` (`Modes` without "bus" and "cache" will do) | a client that is behind waits for a push before the cache is queried, and gets nothing while the bus is quiet (`read_handler.cpp:212`) | `read_handler.h:77`: "Immediate delivery" |
| `DeltaClients!NoStaleRetransmission` | an entry unchanged for a whole round of the index is sent again | `group_cache.h:20`: "no stale re-transmission of unchanged GAs" |
| `SharedGroupCache!CountWithinCapacity` | each push of group address 0/0/0 is counted as a new entry | `shared_group_cache.h:80`: "current count (≤ kSharedCacheCapacity)" |
| `PollTime!PollsSleep` | for `t` above 2147483 the product `remaining * 1000` overflows; with a result that is not positive `wait_for_new_data` returns at once, and the loop turns without waiting | `read_handler.cpp:210`: "Block on the shared condition variable — zero CPU" |
| `PollTime!PollsWithinMaximum` | a `t` of the request replaces the configured timeout and has no upper limit | `README.md:52`: "Max seconds to wait in long-poll `/r`" |
| `PollTime!SettingClamped` | a value of 2^31 or more is cut to its low bits before it is compared, and may come out negative | `main.cpp:122`: "Returns the parsed value clamped to [min_val, max_val]" |
| `CacheSync!MutexRecovers` | EOWNERDEAD from `pthread_cond_timedwait` (`shared_group_cache.cpp:290`) is not made consistent, and the mutex is lost: `push` then drops every telegram, `get` finds nothing, `get_delta` sends clients back to index 0, and no client sees another value until the server is restarted | `shared_group_cache.cpp:52`: "other processes can recover (EOWNERDEAD)" |
| `WorkerPool!CapacityNeverExceeded` | a token is restored for a worker that held none, and the later release exceeds the pool | `main.cpp:562`: "never exceed the initial capacity" |
| `WorkerPool!BusyReadsShed` | the semaphores are as large as the pool and never refuse a read | `main.cpp:345`: "new read requests return empty immediately instead of queuing" |
| `Supervisor!ShutdownNoticed` | SIGTERM between the test of the flag and `wait` is noticed when a child dies | `main.cpp:202-205`, on why there is no SA_RESTART |
| `Supervisor!ShutdownCompletes` | SIGTERM to a child that still has the inherited handler is lost, and the parent waits for it | `main.cpp:199`: "waits for them to exit, then exits itself" |
| `ExitsLast` without `sigterms' = sigterms` | a second SIGTERM interrupts the `wait` of the last loop | the same |
| `SlotsRefilled` without `pids[s] = 0` | a slot whose restart failed in `fork` stays empty | `main.cpp:535`: "Every dead child is logged and restarted" |
| `RestartBackoff!CrashLoopThrottled` | the time a dead child waits to be reaped, while the parent sleeps for others, counts as time it ran, and its delay is reset | `main.cpp:539`: "a child that dies right after starting is restarted with a growing delay" |
| `CacheReader!BufferedIsPushed` | telegrams read together with the open reply wait for the next one | `cache_reader.cpp:129`: "immediately look for pending telegrams" |
| `WriteHandler!AlwaysAnswered` | a worker's first connection is blocking, and a write to a daemon that hangs does not return | `knxd_client.cpp:21`: "All I/O is non-blocking" |
| `WriteHandler!ErrorMeansNothingWritten` | one failed address of several makes the answer 503 | `write_handler.cpp:108`: "If all valid writes failed, report an error" |
| `WriteHandler!WorkersOnlyWrite` | a worker whose first connect failed later opens a readable socket | `main.cpp:391`: "Workers only open write-only knxd connections" |
| `SessionStore!ValidityCheckCleans` | `is_valid` removes only the session it is asked about | `session_store.h:69`: "Called automatically on create_session() and is_valid()" |
| `TelegramPath!OnlyGroupValueWrites` | a first byte of 0xC0 or more passes the check of the write bit | `write_handler.cpp:70`: "contains the Write APCI (A_GroupValue_Write)" |
| `TelegramPath!KeyedAsAsked` | a reply uses the default namespace, not the one of the request | the example in `README.md:104` |

`TypeOK` of each module (`DeltaTypeOK`, `ReaderTypeOK`, `StoreTypeOK`, `StreamTypeOK` where
modules are proved about together) says what values its variables have. The proofs of
`DeltaClients` and `WorkerPool` establish theirs (theorems `DeltaTypeCorrect` and
`TypeCorrect`), the other proofs establish the types they need as a part of their
invariants; the others hold in the runs of their modules too and need only be added to
the configuration. So does `WorkerPool!CapacityNeverLost`, which is proved and from which
`NeverShed` follows.

## Bounds

- *Index*: M = 6 and W = 16 in `DeltaClients` (3 and 8 for the table), so
  that index and counter wrap several times and W % M is more than half of M, as
  2^32 % 100000 = 67296 is; the counter really wraps, no state constraint stops it.
  `ReadHandler` uses M = 100, which few pushes do not reach: wrapping is the subject
  of `DeltaClients`.
- *Table*: two slots, 0/0/0 and three other addresses, two with the same home slot, so
  that probes pass other entries and wrap at the end, and the table gets full. One
  payload, longer than an entry holds. The proofs have no such bounds.
- *Processes*: two workers and the reader in `CacheSync`, since two waiters are
  needed to tell a broadcast from a signal; three workers in `WorkerPool`, so that
  one can die while a second holds a token and a third takes one. They are symmetric
  there, and no liveness is checked under symmetry.
- *Faults*: `MaxCrash`, `MaxKills`, `MaxDeaths`, `MaxSigterm` and `MaxFault` count
  deaths, signals and faults of the daemon. Two are enough for a fault during the
  recovery from another one; three also for one after a full recovery.
- *Traffic*: `MaxPush`, `MaxTelegram`, `MaxPacket`, `MaxSent`, `MaxLogin`, `MaxBacklog`
  bound what comes from outside. Two messages make an order, three or four put one
  before, during and after a reconnection. Three pushes and two faults (restarts, lost
  requests, deaths) in `ReadHandler` let a new life of the server catch up with an old
  index, and a death inside the cache be followed by a wait that loses the mutex.
- *Bytes*: `EibdStream` has bytes below B = 3, so that a length takes both of its
  bytes, and a chunk shorter than a message. The limit of the read buffer is the
  smallest the assumption on the constants allows; the code's is much larger.
- *Conversions*: `TelegramPath` uses real bytes and 16-bit addresses, with groups that
  differ in one field, the ends of each range and 0/0/0. One telegram at a time is on the
  bus: the conversions have no state beyond the cache. An entry has room for two bytes
  and one value is longer; the table has two slots for more groups, so that it fills up.
- *Query strings*: every sequence of up to six pairs over three keys, one with two
  spellings, and malformed pairs, each an initial state of `MCTelegramPath`; the limits
  are two keys, two values of a key and five pairs, so that each can be passed.
- *Request paths*: four places to mount the server at, known and unknown endpoints, and
  every combination of variables that `path()` tells apart, each an initial state.
- *Polls*: ints end at 15 and a second has 3 ticks, so that the configured maximum of 4 s
  fits and 6 s overflow; settings and timeouts lie on both sides of each limit.
- *Supervisor*: one worker and the cache reader, so that three deaths can leave the
  parent without children. The delays are 1 and 2, against 3 for a child that ran fine,
  with three children: two may sleep one after the other while a third is dead.

`CHECK_DEADLOCK FALSE` is used where the system may stop: after the parent exits,
when all workers are dead and forks have failed, and when all input has been consumed
(`EibdStream`).

## Fairness

- The steps of a process that runs are weakly fair: the scheduler runs every process.
- In `CacheSync` the time-out of a wait and the acquisition of the mutex after it are
  strongly fair, since other processes lock and unlock in between. The reader need
  not push and a worker need not start a query.
- A client that keeps polling is weakly fair in `ReadHandler`; that it also reads with
  t <= 0 time and again is a premise of `EventuallyCurrent`, not of the specification.
- knxd answers an open request and takes packets while it is up. It may stay dead or
  hung; that it does not hang for ever is a premise of `AckedDelivered`.
- Crashes, exceptions, restarts, lost requests, signals, telegrams and failures of `fork`
  are never fair.

## Proofs

| Module, theorems | Statement | Argument |
|---|---|---|
| `ReadHandlerProofs`: `DeltasLoseNothing`, `NothingTwice`, `ClientsGoForward` | `Spec => []MissedOnlyIfRaced`, `[]NoDuplicates`, `NeverBackwards` | What a client lacks depends on an index that the handler read several steps ago. `ReadInv` follows each value from the cache to the client: `CoverInv` says of the index the client has, and of the one about to be sent, that every value it covers is shown, already written to the response, or excused by a race, the age limit or a failed lock; `ValueInv` orders what is shown, written and cached; `IndexInv` says which indices are of the present life of the server. |
| `WriteHandlerProofs`: `PacketsOnceOnTheBus`, `AnswersAreHonest`, `ModeIsRemembered` | `Spec => []DeliveredOnce`, `[]StatusHonest`, `ModeRemembered` | `OnceInv`: a packet is in the outbox, on a closed connection or on the bus, in one of them and once, and the packet in hand is in none until its write succeeds, so the retry cannot double it. `ModeInv` has the open request and the call in progress ask for write-only whenever `write_only_` does. `RequestInv` says which packets of the request in hand were sent at each step. |
| `CacheFeedProofs`: `CacheFedInOrder`, `ReaderNeverSpins` | `ReaderSpec => []PushedInOrder`, `[]NeverBusyLoops` | `OrderInv` takes the read buffer and the kernel's queue as one sequence, which is appended to at one end and taken from at the other: its values rise, above those pushed and up to the last one on the bus. `SpinInv` says at which places of the loop iterations can have been counted; in the drain only while there is a message to take, which the daemon never takes back. |
| `CacheFeedProofs`: `EntriesReadWhole`, `WakeupsNotLost`, `MutexHeldOnlyInside`, `MutexLostOnlyByWaiter` | `Spec => []ReadsWholeEntry`, `[]NoLostWakeup`, `[]HeldOnlyInside`, `LostOnlyByWaiter` (`CacheSync`) | `Owned` ties the owner of the mutex to the places in the code that hold it, `Inherited` says who can have got it from a dead owner, `Copied` how far the push in the critical section has come. |
| `SharedGroupCacheProofs`: `TableImplementsMap`, `QueriesAlwaysAgree`, `AddressesKept` | `ImplementsGroupCache` (a refinement), `[]QueriesAgree`, `PresentAddressesKept` | The refinement mapping chooses the slot of an address, so there must be only one. `Reachable` says that linear probing for the address of a taken slot ends at that slot; it gives uniqueness, and a push keeps it since slots are never emptied. |
| `LongPollProofs`: `DeltaNeverLoses`, `DeltaRepeatsOnlyOldEntries` | `DeltaSpec => []DeltaComplete`, `[]DeltaSound` | `DeltaComplete` speaks of wrapped numbers and is not inductive. `StampInv` says that each stamp and index is the wrapped image of an unwrapped count; the arithmetic lemmas of `CacheIndexProofs` then compare distances. |
| `LongPollProofs`: `TokensSurviveCrashes`, `ReadsNeverRefused`, `TokensBounded` | `Spec => []CapacityNeverLost`, `[]NeverShed`, `[]RestoreBounded` (`WorkerPool`) | `Places` says at which step a worker can hold which token, and `Settled` what `sem_getvalue` has established until the decision to post is carried out. Without `Settled` the two steps of the restoration do not preserve the sum of tokens. |
| `LongPollProofs`: `PollsEndInTime` | `PollSpec => []PollsInTime` | `PollInv` also bounds the time passed by the timeout and a second, without which the difference in the loop might overflow; within it the products and conversions of the loop are exact (`RemainingExact`). |
| `ProcessProofs`: `SlotsHaveOneProcess`, `SignalsReachChildren`, `ParentExitsLast` | `Spec => []OnePerSlot`, `[]ChildrenTold`, `ExitsLast` (`Supervisor`) | `Registered`: the parent has the pid of every living child in its array. `Filling` and `Vacant` say which slots are empty at which step, `Telling` which children have had their signal. `TableInv`: no two slots have the same pid, and a pid that was reaped is still in the table only at the steps between `wait` and the restart, or when these were cut short by the shutdown. |
| `ProcessProofs`: `DelayResets` | `BackoffSpec => ResetOnlyIfOvertaken` | For a dead child the time since its start, with what is left of the present sleep, is at most the time it ran and a full delay for every other child restarted meanwhile. |
| `ProcessProofs`: `LoginsKept`, `OldestMakesRoom` | `StoreSpec => []RefusedOnlyIfCrowdedOut`, `[]OnlyOldestEvicted` | `StoreInv`: a store holds only ids its process issued in its lifetime, and no session was created in the future. If a session was lost before its time none in the store is older, so none is expired, and neither the clean-up nor `is_valid` can shrink the store below its limit: the sessions that are no older and fill the store are those that crowded it out. |
| `CacheFeedProofs`: `StreamConserved`, `ReadBufferBounded` | `StreamSpec => []BytesConserved`, `[]BufferBounded` | `read_message` reads only when no message is complete, so the buffer holds less than one message and one chunk, and the trimming in `read_some` is never reached. |
| `TextProofs`: `ValuesArriveUnchanged`, `GroupsNeverConfused` | `Spec => []ReadsWhatWasSent`, `[]CachedByGroup` (`TelegramPath`) | Round-trip lemmas for addresses, hex and packets; the invariant relates telegrams on the bus and cached values to the text they came from, and the slots taken to the groups sent to. Cutting a value to an entry's room cuts the text of its digits (`CutDigits`). |
| `TextProofs`: `RoutedByName` | `request \in Requests => EndpointReached` | Where the first `?` and the last `/` of each variable are follows from how the web server puts it together, so `find` and `rfind` are evaluated without an induction over the text. With only `REQUEST_URI` the mount stays in the path, which then is the name of no endpoint (`PathWithMount`). |
| `TextProofs`: `QueryLimitsKeepFirst` | `QuerySpec => []LimitsKeepFirst` | `QueryInv` says what the loop has made of the pairs so far. Until the limit of keys is reached the entries are all keys seen; after it, those before which fewer keys occurred (`EntriesFirst`). An entry has the first positions of its key in order, and all of them while it is short of the limit of values (`ValuesFirst`). So the two tests of the loop, which count entries and values, decide as if they counted keys and positions in the string. |

Assumptions are the named `ASSUME`s of the modules, which TLC evaluates in the runs:
`IndexAssumption` (W at least twice M and W % M above M/2), `TimeAssumption`,
`PollerAssumption` (there is a client), `ReadAssumption` (fewer pushes than half the
modulus, so that the index of `ReadHandler` does not wrap), `ClientAssumption` and
`WriterAssumption` (bounds are numbers, and the kernel holds at least one message),
`PollAssumption` (the configured maximum fits into an int, as 3600 s do; texts that are
present are numbers), `StoreAssumption` (limits are numbers), `PoolAssumption` (a finite, non-empty pool), `StreamAssumption`
(the buffer limit is at least the longest message and a chunk: 1048576 against
65538 + 4096 in the code), `TextAssumption` (what texts consist of; the table and its entries have some room),
`RequestAssumption` (mounts and names have no `?`, names no `/`, and a query starts with
`?`), `QueryAssumption` (limits are numbers, and a key may have a value), `TableAssumption`
(at least one slot; addresses are numbers), `SyncAssumption` (the reader is no worker),
`SupervisorAssumption` (at least one worker) and `BackoffAssumption` (a base delay that
is positive and not above the largest).

`IndexAssumption` is not idle: with a modulus for which W % M is at most half of M,
a delta loses entries when the 32-bit counter wraps.

Only model-checked:

- all liveness: `WaitReturns`, `EventuallyCurrent`, `SlotsRefilled`, `PoolStops`,
  `ReaderRecovers`, `ArrivedIsPushed`, `RequestsAnswered`, `AckedDelivered` and
  `AllReceived`. Fairness and ENABLED are beyond the backends used here. Every other
  property of the passing runs has a theorem.

## Not modelled

- FastCGI input and output, JSON, logging, version: formatting and transport.
- The single-process mode and the resource limits: run once, before anything is
  concurrent. `connect_knxd_with_retry` is a bounded loop.
- The 50 ms between writes, a sleep that delays no one but its own worker. Outside
  `PollTime` and `RestartBackoff` time-outs may happen at any moment where the code waits.
- The index `i` of a request that no server has sent.
- Reuse of a process id, and signals sent to a child by anyone but the parent.
- `SessionStore::remove` and `count`, which nothing in the program calls.
- The whole way from the bus to a browser in one model: its parts are checked against the
  same cache operations, `CacheReader` up to the push, `CacheSync` and `SharedGroupCache`
  for the cache, `ReadHandler` from the cache on; their product is beyond TLC with faults
  in each part.
