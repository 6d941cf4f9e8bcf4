----------------------------- MODULE ReadHandler -----------------------------
(***************************************************************************)
(* Clients that follow a set of group addresses through GET /r, and the    *)
(* handler that serves each request in a worker process.  A request first  *)
(* looks every address up in the shared cache (only if it has no index),   *)
(* then waits for a push and queries the delta.  Each cache call is one    *)
(* critical section; pushes of the cache reader fall between any two.      *)
(* A process may die inside one: whoever takes the mutex next repairs it,  *)
(* but a handler that wakes up with it in wait_for_new_data gives it back  *)
(* unrepaired, and from then on no call of the cache can lock it           *)
(* (CacheSync has the details).                                            *)
(*                                                                         *)
(* The n-th push carries the value n, and nothing wraps: the index counts  *)
(* the pushes since the server was started.  A restart of the server gives *)
(* a new cache with a new count, while browsers keep the index they have.  *)
(* Wrapping is the subject of DeltaClients.                                *)
(***************************************************************************)
EXTENDS GroupCache

CONSTANTS Client,
          Subscribed,     \* the addresses every client asks for
          Modes,          \* the kinds of request clients make, a subset of AllModes
          MaxPush,        \* bound on the number of pushes
          MaxFault        \* bound on the number of faults and lost requests

VARIABLES idx,        \* idx[c]: the index the client will send as i
          held,       \* held[c][a]: the value the client shows, 0 for none
          pc,         \* pc[c]: where the handler serving c's request is
          mode,       \* mode[c]: the t parameter of the request, see AllModes
          lastpos,    \* lastpos[c]: the local of handle()
          todo,       \* todo[c]: addresses the initial read has yet to get
          out,        \* out[c]: the values written to the response so far, a
                      \* function on already_written
          fresh,      \* fresh[c]: the generation changed since the request's
                      \* last call of wait_for_new_data
          mutex,      \* of the cache: "ok", "ownerdead" or "notrecoverable"
          pushes,     \* number of pushes counted, over all lives of the server
          faults,     \* number of faults and lost requests
          old,        \* history, old[c]: an earlier life of the server gave out
                      \* the index that c has
          renewed,    \* history, renewed[c]: lastpos[c] was read from the cache
          raced,      \* history, raced[c]: addresses pushed after c's initial
                      \* read of them and before it took its index, or while
                      \* old[c], until c shows the last value again
          dropped,    \* history, dropped[c]: addresses whose entry the age limit
                      \* or a failed lock kept from c, until c shows the last
                      \* value again
          torn        \* history: addresses the entry of which was half copied when
                      \* the cache reader died, in this life of the server

requestVars == <<pc, mode, lastpos, todo, out, fresh>>
ghostVars == <<pushes, faults, old, renewed, torn>>
vars == <<cacheVars, idx, held, requestVars, mutex, ghostVars, raced, dropped>>

\* t absent: long poll; t = 0: read from the bus; t < 0: cache only;
\* t > 0: poll for t seconds and skip entries t seconds old.
AllModes == {"poll", "bus", "cache", "aged"}

\* t of an "aged" request.
AgeLimit == 1

ASSUME ReadAssumption ==
  /\ Subscribed \subseteq Address /\ Address \subseteq Nat
  /\ Modes \subseteq AllModes
  /\ MaxPush \in Nat /\ MaxPush < M \div 2
  /\ MaxFault \in Nat
  /\ Value = 0..MaxPush       \* 0: the empty value of a slot never written

PcSet == {"client", "initial", "position", "busread", "loop", "waiting", "delta", "respond"}

TypeOK ==
  /\ CacheTypeOK
  /\ idx \in [Client -> 0..MaxPush]
  /\ held \in [Client -> [Subscribed -> 0..MaxPush]]
  /\ pc \in [Client -> PcSet]
  /\ mode \in [Client -> AllModes]
  /\ lastpos \in [Client -> 0..MaxPush]
  /\ todo \in [Client -> SUBSET Subscribed]
  /\ \A c \in Client : out[c] \in [DOMAIN out[c] -> 0..MaxPush] /\ DOMAIN out[c] \subseteq Subscribed
  /\ mutex \in {"ok", "ownerdead", "notrecoverable"}
  /\ fresh \in [Client -> BOOLEAN]
  /\ pushes \in 0..MaxPush /\ faults \in 0..MaxFault
  /\ old \in [Client -> BOOLEAN] /\ renewed \in [Client -> BOOLEAN]
  /\ raced \in [Client -> SUBSET Subscribed]
  /\ dropped \in [Client -> SUBSET Subscribed]
  /\ torn \subseteq Address

Nothing == [a \in {} |-> 0]

Init ==
  /\ CacheInit
  /\ idx = [c \in Client |-> 0]
  /\ held = [c \in Client |-> [a \in Subscribed |-> 0]]
  /\ pc = [c \in Client |-> "client"]
  /\ mode = [c \in Client |-> "poll"]
  /\ lastpos = [c \in Client |-> 0]
  /\ todo = [c \in Client |-> {}]
  /\ out = [c \in Client |-> Nothing]
  /\ fresh = [c \in Client |-> FALSE]
  /\ mutex = "ok"
  /\ pushes = 0 /\ faults = 0
  /\ old = [c \in Client |-> FALSE]
  /\ renewed = [c \in Client |-> FALSE]
  /\ raced = [c \in Client |-> {}]
  /\ dropped = [c \in Client |-> {}]
  /\ torn = {}

\* already_written
Written(c) == DOMAIN out[c]

\* The response with the values of the entries of S added.
With(written, S) ==
  [a \in DOMAIN written \cup S |-> IF a \in S THEN entries[a].value ELSE written[a]]

\* max_age_sec
MaxAge(c) == IF mode[c] = "aged" THEN AgeLimit ELSE NoAge

-----------------------------------------------------------------------------
(* The mutex of the cache *)

\* pthread_mutex_lock fails only for a mutex that was given back unrepaired.
CanLock == mutex # "notrecoverable"

\* Every call of the cache makes a dead owner's mutex consistent.
Lock == mutex' = IF CanLock THEN "ok" ELSE mutex

\* So does not the return of pthread_cond_timedwait, before the unlock.
Relock == mutex' = IF mutex = "ownerdead" THEN "notrecoverable" ELSE mutex

-----------------------------------------------------------------------------
(* The cache reader *)

\* The requests that have read a and have yet to take their index, and those with an
\* index from before a restart.
Race(a) ==
  raced' = [c \in Client |->
              IF /\ a \in Subscribed
                 /\ old[c] \/ (pc[c] \in {"initial", "position"} /\ a \notin todo[c])
              THEN raced[c] \cup {a} ELSE raced[c]]

\* Every waiting handler sees the generation change.
Bump == fresh' = [c \in Client |-> fresh[c] \/ pc[c] = "waiting"]

\* A telegram from the bus is pushed, possibly the answer to a GroupValueRead; push()
\* returns without a trace if it cannot lock.
BusPush(a) ==
  /\ CanLock /\ pushes < MaxPush
  /\ Lock
  /\ pushes' = pushes + 1
  /\ Push(a, pushes')
  /\ Race(a)
  /\ Bump
  /\ UNCHANGED <<idx, held, pc, mode, lastpos, todo, out, faults, old, renewed, torn, dropped>>

\* The entries that a copy cut short may leave: any of the fields may be new.
HalfCopied(a) ==
  LET slot == IF a \in DOMAIN entries THEN entries[a]
              ELSE [value |-> 0, timestamp |-> 0, pushed_at |-> 0]
      entry == PushEntry(a, pushes + 1)[a]
  IN  [value : {slot.value, entry.value}, timestamp : {slot.timestamp, entry.timestamp},
       pushed_at : {slot.pushed_at, entry.pushed_at}]

\* The cache reader dies inside push(): before the counter advances, after it, while
\* the entry is copied, after that or after the generation was incremented.
PushCut(a) ==
  /\ CanLock /\ pushes < MaxPush /\ faults < MaxFault
  /\ faults' = faults + 1
  /\ mutex' = "ownerdead"
  /\ \/ UNCHANGED <<entries, position, pushes, fresh, raced, torn>>
     \/ /\ position' = FetchAdd(position) /\ pushes' = pushes + 1
        /\ \/ UNCHANGED <<entries, fresh, raced, torn>>
           \/ /\ \E e \in HalfCopied(a) :
                   entries' = [b \in DOMAIN entries \cup {a} |-> IF b = a THEN e ELSE entries[b]]
              /\ torn' = torn \cup {a}
              /\ UNCHANGED <<fresh, raced>>
           \/ /\ entries' = PushEntry(a, pushes')
              /\ Race(a)
              /\ UNCHANGED fresh \/ Bump
              /\ UNCHANGED torn
  /\ UNCHANGED <<now, idx, held, pc, mode, lastpos, todo, out, old, renewed, dropped>>

\* The server goes down, with the requests it has, and comes up with an empty
\* cache.  Clients keep what they show and the index they have.
Restart ==
  /\ faults < MaxFault
  /\ faults' = faults + 1
  /\ Clear
  /\ old' = [c \in Client |-> idx[c] # 0]
  /\ pc' = [c \in Client |-> "client"]
  /\ mode' = [c \in Client |-> "poll"]
  /\ lastpos' = [c \in Client |-> 0]
  /\ todo' = [c \in Client |-> {}]
  /\ out' = [c \in Client |-> Nothing]
  /\ fresh' = [c \in Client |-> FALSE]
  /\ renewed' = [c \in Client |-> FALSE]
  /\ raced' = [c \in Client |-> {}]
  /\ dropped' = [c \in Client |-> {}]
  /\ torn' = {}
  /\ mutex' = "ok"
  /\ UNCHANGED <<idx, held, pushes>>

ClockTick ==
  /\ Tick
  /\ UNCHANGED <<idx, held, requestVars, mutex, ghostVars, raced, dropped>>

-----------------------------------------------------------------------------
(* handle() *)

\* Mutant: t <= 0 keeps the client's index.
RequestKeepingIndex(c, m) ==
  /\ pc[c] = "client"
  /\ mode' = [mode EXCEPT ![c] = m]
  /\ lastpos' = [lastpos EXCEPT ![c] = idx[c]]
  /\ out' = [out EXCEPT ![c] = Nothing]
  /\ fresh' = [fresh EXCEPT ![c] = FALSE]
  /\ todo' = [todo EXCEPT ![c] = IF idx[c] = 0 THEN Subscribed ELSE {}]
  /\ pc' = [pc EXCEPT ![c] = IF idx[c] = 0 THEN "initial" ELSE "loop"]
  /\ UNCHANGED <<cacheVars, idx, held, mutex, ghostVars, raced, dropped>>

\* A request with valid addresses, session and t; t <= 0 forces an initial read.
Request(c, m) ==
  /\ pc[c] = "client"
  /\ mode' = [mode EXCEPT ![c] = m]
  /\ lastpos' = [lastpos EXCEPT ![c] = IF m \in {"bus", "cache"} THEN 0 ELSE idx[c]]
  /\ out' = [out EXCEPT ![c] = Nothing]
  /\ fresh' = [fresh EXCEPT ![c] = FALSE]
  /\ IF lastpos'[c] = 0
     THEN /\ todo' = [todo EXCEPT ![c] = Subscribed]
          /\ pc' = [pc EXCEPT ![c] = "initial"]
     ELSE /\ UNCHANGED todo
          /\ pc' = [pc EXCEPT ![c] = "loop"]
  /\ UNCHANGED <<cacheVars, idx, held, mutex, ghostVars, raced, dropped>>

\* cache_.get(addr, max_age_sec) for the next address in ascending order, which gives
\* nothing if it cannot lock.
InitialGet(c) ==
  /\ pc[c] = "initial"
  /\ Lock
  /\ \E a \in todo[c] :
       /\ \A b \in todo[c] : a <= b
       /\ LET got == CanLock /\ Get(a, MaxAge(c)) # {}
          IN  /\ out' = [out EXCEPT ![c] = With(@, IF got THEN {a} ELSE {})]
              /\ dropped' = [dropped EXCEPT ![c] =
                               IF ~got /\ a \in DOMAIN entries THEN @ \cup {a} ELSE @]
       /\ todo' = [todo EXCEPT ![c] = @ \ {a}]
       /\ pc' = [pc EXCEPT ![c] = IF todo[c] = {a} THEN "position" ELSE "initial"]
  /\ UNCHANGED <<cacheVars, idx, held, mode, lastpos, fresh, ghostVars, raced>>

\* Mutant: lastpos is not assigned.
InitialPositionForgotten(c) ==
  /\ pc[c] = "position"
  /\ pc' = [pc EXCEPT ![c] = IF mode[c] = "bus" THEN "busread" ELSE "loop"]
  /\ UNCHANGED <<cacheVars, idx, held, mode, lastpos, todo, out, fresh, mutex, ghostVars, raced, dropped>>

\* lastpos = cache_.position(), which takes no lock.
InitialPosition(c) ==
  /\ pc[c] = "position"
  /\ lastpos' = [lastpos EXCEPT ![c] = Wrapped(position)]
  /\ renewed' = [renewed EXCEPT ![c] = TRUE]
  /\ pc' = [pc EXCEPT ![c] = IF mode[c] = "bus" THEN "busread" ELSE "loop"]
  /\ UNCHANGED <<cacheVars, idx, held, mode, todo, out, fresh, mutex, pushes, faults,
                 old, torn, raced, dropped>>

\* t = 0: a GroupValueRead for each address without a value, which the bus may or may
\* not answer.
BusRead(c) ==
  /\ pc[c] = "busread"
  /\ pc' = [pc EXCEPT ![c] = "loop"]
  /\ UNCHANGED <<cacheVars, idx, held, mode, lastpos, todo, out, fresh, mutex, ghostVars, raced, dropped>>

\* The head of the poll loop: a response with data, t < 0 and a timeout that has
\* run out during an earlier round leave it.
LoopLeave(c) ==
  /\ pc[c] = "loop"
  /\ Written(c) # {} \/ mode[c] = "cache" \/ fresh[c]
  /\ pc' = [pc EXCEPT ![c] = "respond"]
  /\ UNCHANGED <<cacheVars, idx, held, mode, lastpos, todo, out, fresh, mutex, ghostVars, raced, dropped>>

\* Otherwise wait_for_new_data notes the generation and sleeps, or returns false at
\* once if it cannot lock.
LoopWait(c) ==
  /\ pc[c] = "loop"
  /\ mode[c] # "cache" /\ Written(c) = {}
  /\ Lock
  /\ pc' = [pc EXCEPT ![c] = IF CanLock THEN "waiting" ELSE "respond"]
  /\ fresh' = [fresh EXCEPT ![c] = FALSE]
  /\ UNCHANGED <<cacheVars, idx, held, mode, lastpos, todo, out, ghostVars, raced, dropped>>

\* wait_for_new_data returns: true if the generation changed, or on timeout.
WaitEnd(c) ==
  /\ pc[c] = "waiting"
  /\ Relock
  /\ pc' = [pc EXCEPT ![c] = IF fresh[c] THEN "delta" ELSE "respond"]
  /\ UNCHANGED <<cacheVars, idx, held, mode, lastpos, todo, out, fresh, ghostVars, raced, dropped>>

\* Mutant: the delta is queried from index 0.
QueryDeltaFromZero(c) ==
  /\ pc[c] = "delta" /\ CanLock
  /\ Lock
  /\ LET new == DeltaAddresses(0, Subscribed, MaxAge(c)) \ Written(c)
         all == DeltaAddresses(0, Subscribed, NoAge)
     IN  /\ out' = [out EXCEPT ![c] = With(@, new)]
         /\ dropped' = [dropped EXCEPT ![c] = @ \cup (all \ new)]
  /\ lastpos' = [lastpos EXCEPT ![c] = Wrapped(position)]
  /\ renewed' = [renewed EXCEPT ![c] = TRUE]
  /\ pc' = [pc EXCEPT ![c] = "loop"]
  /\ UNCHANGED <<cacheVars, idx, held, mode, todo, fresh, pushes, faults, old, torn, raced>>

\* get_delta(lastpos, eib_addrs, max_age_sec)
QueryDelta(c) ==
  /\ pc[c] = "delta" /\ CanLock
  /\ Lock
  /\ LET new == DeltaAddresses(lastpos[c], Subscribed, MaxAge(c)) \ Written(c)
         all == DeltaAddresses(lastpos[c], Subscribed, NoAge)
     IN  /\ out' = [out EXCEPT ![c] = With(@, new)]
         /\ dropped' = [dropped EXCEPT ![c] = @ \cup (all \ new)]
  /\ lastpos' = [lastpos EXCEPT ![c] = Wrapped(position)]
  /\ renewed' = [renewed EXCEPT ![c] = TRUE]
  /\ pc' = [pc EXCEPT ![c] = "loop"]
  /\ UNCHANGED <<cacheVars, idx, held, mode, todo, fresh, pushes, faults, old, torn, raced>>

\* get_delta cannot lock: no values, and the position of a Delta{} is 0.
QueryDeltaFails(c) ==
  /\ pc[c] = "delta" /\ ~CanLock
  /\ lastpos' = [lastpos EXCEPT ![c] = 0]
  /\ renewed' = [renewed EXCEPT ![c] = TRUE]
  /\ pc' = [pc EXCEPT ![c] = "loop"]
  /\ UNCHANGED <<cacheVars, idx, held, mode, todo, out, fresh, mutex, pushes, faults, old,
                 torn, raced, dropped>>

-----------------------------------------------------------------------------
(* The end of a request *)

\* The locals of handle() are gone.
Forget(c) ==
  /\ pc' = [pc EXCEPT ![c] = "client"]
  /\ mode' = [mode EXCEPT ![c] = "poll"]
  /\ lastpos' = [lastpos EXCEPT ![c] = 0]
  /\ out' = [out EXCEPT ![c] = Nothing]
  /\ fresh' = [fresh EXCEPT ![c] = FALSE]
  /\ renewed' = [renewed EXCEPT ![c] = FALSE]

\* The addresses of S whose last value client c will not be showing.
Behind(c, S) == {a \in S \cap DOMAIN entries : held'[c][a] # entries[a].value}

\* Mutant: the response carries the index of the moment it is sent.
RespondWithCurrentIndex(c) ==
  /\ pc[c] = "respond"
  /\ held' = [held EXCEPT ![c] = [a \in Subscribed |->
                                    IF a \in Written(c) THEN out[c][a] ELSE @[a]]]
  /\ idx' = [idx EXCEPT ![c] = Wrapped(position)]
  /\ old' = [old EXCEPT ![c] = @ /\ ~renewed[c]]
  /\ raced' = [raced EXCEPT ![c] = Behind(c, @)]
  /\ dropped' = [dropped EXCEPT ![c] = Behind(c, @)]
  /\ Forget(c)
  /\ UNCHANGED <<cacheVars, todo, mutex, pushes, faults, torn>>

\* The response reaches the client, which shows the values and keeps the index.
Respond(c) ==
  /\ pc[c] = "respond"
  /\ held' = [held EXCEPT ![c] = [a \in Subscribed |->
                                    IF a \in Written(c) THEN out[c][a] ELSE @[a]]]
  /\ idx' = [idx EXCEPT ![c] = lastpos[c]]
  /\ old' = [old EXCEPT ![c] = @ /\ ~renewed[c]]
  /\ raced' = [raced EXCEPT ![c] = Behind(c, @)]
  /\ dropped' = [dropped EXCEPT ![c] = Behind(c, @)]
  /\ Forget(c)
  /\ UNCHANGED <<cacheVars, todo, mutex, pushes, faults, torn>>

\* The worker dies, perhaps inside a call of the cache, or the connection to the browser
\* breaks: the client asks again with the index it has.
Lost(c) ==
  /\ pc[c] # "client" /\ faults < MaxFault
  /\ faults' = faults + 1
  /\ \/ UNCHANGED mutex
     \/ pc[c] \in {"initial", "loop", "waiting", "delta"} /\ CanLock /\ mutex' = "ownerdead"
  /\ todo' = [todo EXCEPT ![c] = {}]
  /\ Forget(c)
  /\ UNCHANGED <<cacheVars, idx, held, pushes, old, torn, raced, dropped>>

-----------------------------------------------------------------------------

HandlerStep(c) ==
  InitialGet(c) \/ InitialPosition(c) \/ BusRead(c) \/ LoopLeave(c) \/ LoopWait(c)
    \/ WaitEnd(c) \/ QueryDelta(c) \/ QueryDeltaFails(c) \/ Respond(c)

NextRequest(c) == \E m \in Modes : Request(c, m)

Next ==
  \/ \E a \in Address : BusPush(a) \/ PushCut(a)
  \/ ClockTick
  \/ Restart
  \/ \E c \in Client : NextRequest(c) \/ HandlerStep(c) \/ Lost(c)

Spec == Init /\ [][Next]_vars

\* Clients poll again after every answer, workers go on with their requests, and
\* every wait has a finite timeout.  Nothing makes the bus send.
FairSpec ==
  /\ Spec
  /\ \A c \in Client : WF_vars(NextRequest(c)) /\ WF_vars(HandlerStep(c))

-----------------------------------------------------------------------------
(* Properties *)

\* Client c lacks the last value of a, and its index says that it has it: the next
\* delta will not bring that value.
Missed(c, a) ==
  /\ pc[c] = "client" /\ idx[c] # 0
  /\ a \in DOMAIN entries /\ held[c][a] # entries[a].value
  /\ a \notin DeltaAddresses(idx[c], Subscribed, NoAge)

\* There are four ways to miss an update: a push between the initial read of the
\* address and the call of position(); an entry that the age limit of a request
\* with t > 0 keeps back while the index moves past it; an initial read that cannot
\* lock the cache and finds nothing, while position(), which takes no lock,
\* acknowledges everything; and a push since a restart of the server, for a client
\* that has an index from before and does not ask again until as many telegrams were
\* received.  Otherwise the deltas lose nothing, whoever dies where, except for an
\* address the entry of which a death left with the value of one push and the stamp
\* of another.
MissedOnlyIfRaced ==
  \A c \in Client : \A a \in Subscribed \ torn : Missed(c, a) => a \in raced[c] \cup dropped[c]

\* shared_group_cache.h:54: "a client that polls at least once every M/2 entries
\* will always get correct deltas".
NothingMissed == \A c \in Client : \A a \in Subscribed : ~Missed(c, a)

\* The index that came with a value pushed in the present life of the server.
Stamp(v) == v - (pushes - position)

\* read_handler.h: "No duplicate delivery".  The values of a response are not ahead
\* of the index sent with them, or the next delta would deliver them again, and the
\* answer to a request with an index holds only values pushed after that index, as
\* long as that index is one of this server and the entry was not torn by a death.
NoDuplicates ==
  \A c \in Client : pc[c] = "respond" =>
    \A a \in Written(c) \ torn :
      /\ Stamp(out[c][a]) <= lastpos[c]
      /\ (mode[c] \in {"poll", "aged"} /\ idx[c] # 0 /\ ~old[c])
            => Stamp(out[c][a]) > idx[c]

\* A client never replaces what it shows by an older value, whichever requests it
\* mixes and whoever dies, unless the entry was torn by a death.  Its index goes back
\* in two cases: one from before a restart of the server is replaced by one of the
\* new count, and a delta that could not lock the cache sends the client back to 0.
NeverBackwards ==
  [][\A c \in Client :
        /\ idx'[c] >= idx[c] \/ old[c] \/ (idx'[c] = 0 /\ ~CanLock)
        /\ \A a \in Subscribed \ torn : held'[c][a] >= held[c][a]]_vars

\* read_handler.h:77: "Immediate delivery".  In the end a client that makes requests
\* with t <= 0 time and again, among others, shows the last value of each address,
\* unless the mutex of the cache is beyond repair.  (One that only polls with its
\* index does not, once the bus is quiet: see PollersCatchUp.)
EventuallyCurrent ==
  (\A c \in Client : []<>(pc[c] = "respond" /\ mode[c] \in {"bus", "cache"}))
    => <>[](\A c \in Client : \A a \in Subscribed :
              a \in DOMAIN entries /\ CanLock => held[c][a] = entries[a].value)

\* A client that has an index of this server and lacks a value gets it in the end,
\* or has missed it for good.  It does not hold: a value pushed between the end of
\* one poll and the wait of the next is not delivered until something else is pushed,
\* since the handler waits for a push before it looks at the cache.
PollersCatchUp ==
  \A c \in Client : \A a \in Subscribed :
    []<>(\/ a \in DOMAIN entries => held[c][a] = entries[a].value
         \/ Missed(c, a) \/ old[c] \/ ~CanLock)
=============================================================================
