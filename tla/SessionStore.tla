---------------------------- MODULE SessionStore ----------------------------
(***************************************************************************)
(* The login sessions: GET /l, and every worker process's own store, empty *)
(* when the process is forked, with a time to live and a maximum size.     *)
(*                                                                         *)
(* Session ids are fresh (generate_id draws 64 random bits).  No handler   *)
(* removes a session, so remove() is not an action.                        *)
(***************************************************************************)
EXTENDS Integers, FiniteSets

CONSTANTS Worker,
          NoWorker,
          session_ttl_sec_,
          max_sessions_,
          MaxLogin,       \* bound on the ids drawn
          MaxTime         \* bound on the clock, in seconds

VARIABLES sessions_,  \* sessions_[w]: the ids in w's store
          created,    \* created[id]: when and by which process it was issued
          born,       \* born[w]: number of ids drawn before w's process was forked
          drawn,      \* number of ids drawn
          now,
          verdict     \* the last answer of is_valid

storeVars == <<sessions_, created, born, drawn, now, verdict>>

ASSUME StoreAssumption ==
  /\ session_ttl_sec_ \in Nat /\ max_sessions_ \in Nat
  /\ MaxLogin \in Nat /\ MaxTime \in Nat /\ NoWorker \notin Worker

Anonymous == 0
Id == 1..MaxLogin
NoVerdict == [worker |-> NoWorker, id |-> Anonymous, valid |-> FALSE]

StoreTypeOK ==
  /\ sessions_ \in [Worker -> SUBSET (1..drawn)]
  /\ created \in [Id -> [by : Worker \cup {NoWorker}, at : 0..MaxTime]]
  /\ born \in [Worker -> 0..drawn]
  /\ drawn \in 0..MaxLogin /\ now \in 0..MaxTime
  /\ verdict \in [worker : Worker \cup {NoWorker}, id : {Anonymous} \cup Id, valid : BOOLEAN]

StoreInit ==
  /\ sessions_ = [w \in Worker |-> {}]
  /\ created = [id \in Id |-> [by |-> NoWorker, at |-> 0]]
  /\ born = [w \in Worker |-> 0]
  /\ drawn = 0 /\ now = 0
  /\ verdict = NoVerdict

Expired(id) == now - created[id].at >= session_ttl_sec_

\* cleanup_expired.
Fresh(store) == {id \in store : ~Expired(id)}

\* Mutant: room is made one session too early.
WithRoomEarly(store) ==
  IF store # {} /\ Cardinality(store) + 1 >= max_sessions_
  THEN {store \ {oldest} : oldest \in {id \in store :
          \A other \in store : created[id].at <= created[other].at}}
  ELSE {store}

\* Mutant: the newest session makes room.
WithRoomNewest(store) ==
  IF store # {} /\ Cardinality(store) >= max_sessions_
  THEN {store \ {newest} : newest \in {id \in store :
          \A other \in store : created[id].at >= created[other].at}}
  ELSE {store}

\* The stores that eviction may leave: at the limit one of the oldest sessions goes,
\* which one of several depends on the order of the hash table.
WithRoom(store) ==
  IF store # {} /\ Cardinality(store) >= max_sessions_
  THEN {store \ {oldest} : oldest \in {id \in store :
          \A other \in store : created[id].at <= created[other].at}}
  ELSE {store}

\* An anonymous session is no session: the store is not touched.
CreateAnonymous ==
  UNCHANGED <<sessions_, created, drawn>>

\* Expired sessions go, then the oldest if there is no room, and a new id is issued.
CreateSession(w) ==
  /\ drawn < MaxLogin
  /\ drawn' = drawn + 1
  /\ created' = [created EXCEPT ![drawn'] = [by |-> w, at |-> now]]
  /\ \E store \in WithRoom(Fresh(sessions_[w])) :
       sessions_' = [sessions_ EXCEPT ![w] = store \cup {drawn'}]

\* GET /l with a user ("u"), a password ("p"), both or neither; either makes the
\* session a named one.
Login(w, given) ==
  /\ IF given = {} THEN CreateAnonymous ELSE CreateSession(w)
  /\ verdict' = NoVerdict
  /\ UNCHANGED <<born, now>>

\* is_valid, by /r and /w with a session parameter: an expired session is erased.
IsValid(w, id) ==
  LET valid == id = Anonymous \/ (id \in sessions_[w] /\ ~Expired(id))
  IN  /\ verdict' = [worker |-> w, id |-> id, valid |-> valid]
      /\ sessions_' = IF valid THEN sessions_
                      ELSE [sessions_ EXCEPT ![w] = @ \ {id}]
      /\ UNCHANGED <<created, born, drawn, now>>

\* The process dies and its replacement starts with an empty store.
Restart(w) ==
  /\ sessions_' = [sessions_ EXCEPT ![w] = {}]
  /\ born' = [born EXCEPT ![w] = drawn]
  /\ verdict' = NoVerdict
  /\ UNCHANGED <<created, drawn, now>>

Tick ==
  /\ now < MaxTime
  /\ now' = now + 1
  /\ verdict' = NoVerdict
  /\ UNCHANGED <<sessions_, created, born, drawn>>

StoreNext ==
  \/ \E w \in Worker, given \in SUBSET {"u", "p"} : Login(w, given)
  \/ \E w \in Worker : Restart(w)
  \/ \E w \in Worker, id \in {Anonymous} \cup 1..drawn : IsValid(w, id)
  \/ Tick

StoreSpec == StoreInit /\ [][StoreNext]_storeVars

-----------------------------------------------------------------------------
(* Properties *)

\* The other sessions that w's process issued, and no earlier than id.
NoOlder(w, id) ==
  {other \in (1..drawn) \ {id} :
     created[other].by = w /\ other > born[w] /\ created[other].at >= created[id].at}

\* A client whose session is refused before its time by the living process that issued
\* it was crowded out: since it logged in, that process has issued as many sessions as
\* a store holds.  What other processes issue or check, and what is_valid erases, never
\* costs anyone a session.
RefusedOnlyIfCrowdedOut ==
  LET w == verdict.worker
      id == verdict.id
  IN  w # NoWorker /\ ~verdict.valid =>
        \/ created[id].by # w \/ id <= born[w] \/ Expired(id)
        \/ Cardinality(NoOlder(w, id)) >= max_sessions_

\* The store keeps its bound, and what it gives up for it is the oldest: a session is
\* lost before its time only when the store is full of sessions that are no older.
OnlyOldestEvicted ==
  \A w \in Worker :
    /\ Cardinality(sessions_[w]) <= IF max_sessions_ = 0 THEN 1 ELSE max_sessions_
    /\ \A id \in 1..drawn :
         (created[id].by = w /\ id > born[w] /\ ~Expired(id) /\ id \notin sessions_[w]) =>
           /\ Cardinality(sessions_[w]) >= max_sessions_
           /\ \A other \in sessions_[w] : created[other].at >= created[id].at

\* "Remove all expired sessions. Called automatically on create_session() and
\* is_valid()": after is_valid the store has no expired session.
ValidityCheckCleans ==
  verdict.worker # NoWorker /\ verdict.id # Anonymous =>
    \A id \in sessions_[verdict.worker] : ~Expired(id)
=============================================================================
