---------------------------- MODULE DeltaClients ----------------------------
(***************************************************************************)
(* Clients that follow a group cache through get_delta: each remembers the *)
(* index of its last answer and passes it to the next query.  The module   *)
(* asks whether the index arithmetic hands every client what it has not    *)
(* seen, and only that, also when the index or the counter behind it wraps.*)
(*                                                                         *)
(* lag and age are history variables: they count pushes without wrapping   *)
(* and say what a client has missed independently of the stamps.           *)
(***************************************************************************)
EXTENDS GroupCache

CONSTANT Poller    \* the clients

VARIABLES since,    \* since[c]: the index c passes as since_pos
          lag,      \* lag[c]: pushes since the answer that gave c its index
          age       \* age[a]: pushes since the last push of a, up to AgeCap

clientVars == <<since, lag, age>>
deltaVars == <<cacheVars, clientVars>>

ASSUME PollerAssumption == Poller # {}

\* The half-range rule of shared_group_cache.h: a client "polls at least once
\* every M/2 entries".
HalfRange == M \div 2

\* Ages at and beyond the index modulus are not told apart.
AgeCap == M

DeltaTypeOK ==
  /\ CacheTypeOK
  /\ since \in [Poller -> 0..(M - 1)]
  /\ lag \in [Poller -> 0..HalfRange]
  /\ age \in [Address -> 0..AgeCap]

DeltaInit ==
  /\ CacheInit
  /\ since = [c \in Poller |-> 0]
  /\ lag = [c \in Poller |-> 0]
  /\ age = [a \in Address |-> AgeCap]

\* A push, while every client still keeps to the half-range rule.
ClientPush(a, v) ==
  /\ \A c \in Poller : lag[c] < HalfRange
  /\ Push(a, v)
  /\ lag' = [c \in Poller |-> lag[c] + 1]
  /\ age' = [b \in Address |-> IF b = a THEN 0
                               ELSE IF age[b] < AgeCap THEN age[b] + 1 ELSE AgeCap]
  /\ UNCHANGED since

\* Client c queries with its index and keeps the index of the answer.
Poll(c) ==
  /\ since' = [since EXCEPT ![c] = Wrapped(position)]
  /\ lag' = [lag EXCEPT ![c] = 0]
  /\ UNCHANGED <<cacheVars, age>>

DeltaNext ==
  \/ \E a \in Address, v \in Value : ClientPush(a, v)
  \/ \E c \in Poller : Poll(c)

DeltaSpec == DeltaInit /\ [][DeltaNext]_deltaVars

-----------------------------------------------------------------------------
(* Properties *)

\* What c has not seen: the addresses pushed since its last answer.
Unseen(c) == {a \in DOMAIN entries : age[a] < lag[c]}

\* What a query of c without age filter would return now.
Delta(c) == DeltaAddresses(since[c], Address, NoAge)

\* shared_group_cache.h:54: a client that keeps to the half-range rule gets
\* every entry pushed since its last answer, whatever has wrapped meanwhile:
\* the index at M, or the uint32_t counter behind it.
DeltaComplete == \A c \in Poller : Unseen(c) \subseteq Delta(c)

\* The other direction, as far as the code achieves it: outside a full refresh
\* and for a client with an index, an entry that is handed out again although
\* c has seen it was last pushed at least W % M pushes ago.
DeltaSound ==
  \A c \in Poller :
    (since[c] # 0 /\ ~EpochMismatch(Wrapped(position), since[c]))
       => \A a \in Delta(c) \ Unseen(c) : age[a] >= W % M

\* The stamps and the clients' indices are the wrapped values of the counts
\* the history variables keep; this is what makes DeltaComplete inductive.
StampInv ==
  /\ \A c \in Poller : since[c] = Wrapped(UInt(position - lag[c]))
  /\ \A a \in DOMAIN entries :
       age[a] < AgeCap => entries[a].pushed_at = Wrapped(UInt(position - age[a]))

\* group_cache.h:21: get_delta "returns only entries whose push position is
\* strictly greater than since_pos -- guaranteeing no duplicate delivery and
\* no stale re-transmission of unchanged GAs", for a client with an index that
\* gets a delta and not a full refresh.
NoStaleRetransmission ==
  \A c \in Poller :
    (since[c] # 0 /\ ~EpochMismatch(Wrapped(position), since[c]))
       => Delta(c) \subseteq Unseen(c)
=============================================================================
