------------------------------ MODULE CacheSync ------------------------------
(***************************************************************************)
(* The synchronisation of the shared cache: a robust process-shared mutex, *)
(* a condition variable, one cache reader process that pushes and workers  *)
(* that query and wait.  Any of them may be killed at any point and is     *)
(* restarted by the supervisor; the kernel then releases the mutex of a    *)
(* dead owner and hands EOWNERDEAD to the next one to take it.  A query    *)
(* allocates under the mutex: an exception leaves the method with the      *)
(* mutex held, and the request loop answers 500 and goes on.               *)
(*                                                                         *)
(* The table is abstracted to the one entry being written: its stamp and   *)
(* its value, which for the n-th push are both n.  Copying the struct into *)
(* the slot is not atomic, so a kill may leave only one of them written.   *)
(***************************************************************************)
EXTENDS Integers, FiniteSets

CONSTANTS Worker,       \* worker processes
          Reader,       \* the cache reader process
          Nobody,       \* no owner
          MaxPush,      \* bound on the number of pushes
          MaxCrash      \* bound on the number of kills

VARIABLES owner,          \* process holding the mutex, or Nobody
          mutex,          \* "ok", "ownerdead" or "notrecoverable"
          position,       \* number of fetch_adds of the push counter
          generation,     \* the generation counter
          stamp, value,   \* pushed_at and value of the entry
          pc,             \* where each process is
          gen_before,     \* gen_before[w]: the local of wait_for_new_data
          rc,             \* rc[w]: what pthread_cond_timedwait returned
          crashes,        \* number of kills so far
          thrown,         \* history: the live workers a query of which threw
          torn,           \* history: the reader died while copying an entry
          unannounced     \* history: the reader died between bump and broadcast

vars == <<owner, mutex, position, generation, stamp, value, pc, gen_before, rc,
          crashes, thrown, torn, unannounced>>

mutexVars == <<owner, mutex>>
dataVars == <<position, generation, stamp, value>>
waitVars == <<gen_before, rc>>
ghostVars == <<crashes, thrown, torn, unannounced>>

ASSUME SyncAssumption ==
  /\ Reader \notin Worker
  /\ Nobody \notin Worker \cup {Reader}
  /\ MaxPush \in Nat /\ MaxCrash \in Nat

Process == Worker \cup {Reader}

ReaderPc == {"idle", "advance", "copy", "copyStamp", "copyValue", "bump", "unlock", "notify"}
WorkerPc == {"idle", "query", "enter", "loop", "blocked", "relock", "leave"}

TypeOK ==
  /\ owner \in Process \cup {Nobody}
  /\ mutex \in {"ok", "ownerdead", "notrecoverable"}
  /\ position \in 0..MaxPush /\ generation \in 0..MaxPush
  /\ stamp \in 0..MaxPush /\ value \in 0..MaxPush
  /\ pc \in [Process -> ReaderPc \cup WorkerPc]
  /\ pc[Reader] \in ReaderPc /\ \A w \in Worker : pc[w] \in WorkerPc
  /\ gen_before \in [Worker -> 0..MaxPush]
  /\ rc \in [Worker -> {"0", "timedout", "error"}]
  /\ crashes \in 0..MaxCrash /\ thrown \subseteq Worker
  /\ torn \in BOOLEAN /\ unannounced \in BOOLEAN

\* The state create() leaves, with every process forked and idle.
Init ==
  /\ owner = Nobody /\ mutex = "ok"
  /\ position = 0 /\ generation = 0 /\ stamp = 0 /\ value = 0
  /\ pc = [p \in Process |-> "idle"]
  /\ gen_before = [w \in Worker |-> 0]
  /\ rc = [w \in Worker |-> "0"]
  /\ crashes = 0 /\ thrown = {} /\ torn = FALSE /\ unannounced = FALSE

Goto(p, l) == pc' = [pc EXCEPT ![p] = l]

-----------------------------------------------------------------------------
(* The mutex *)

\* Mutant: EOWNERDEAD is taken for success.
LockInconsistent(p, locked) ==
  /\ owner = Nobody
  /\ IF mutex = "notrecoverable"
     THEN UNCHANGED mutexVars /\ Goto(p, "idle")
     ELSE owner' = p /\ UNCHANGED mutex /\ Goto(p, locked)

\* pthread_mutex_lock as every method calls it: EOWNERDEAD is answered by
\* pthread_mutex_consistent, any other error makes the method return.
Lock(p, locked) ==
  /\ owner = Nobody
  /\ IF mutex = "notrecoverable"
     THEN UNCHANGED mutexVars /\ Goto(p, "idle")
     ELSE owner' = p /\ mutex' = "ok" /\ Goto(p, locked)

\* pthread_mutex_unlock: the unlock of a mutex acquired with EOWNERDEAD and not
\* made consistent makes it unusable for ever; by a process that does not own
\* it, it fails and does nothing.
Unlock(p) ==
  IF owner = p
  THEN /\ owner' = Nobody
       /\ mutex' = IF mutex = "ownerdead" THEN "notrecoverable" ELSE mutex
  ELSE UNCHANGED mutexVars

-----------------------------------------------------------------------------
(* The cache reader: push *)

PushLock ==
  /\ pc[Reader] = "idle" /\ position < MaxPush
  /\ Lock(Reader, "advance")
  /\ UNCHANGED <<dataVars, waitVars, ghostVars>>

\* position.fetch_add(1)
PushAdvance ==
  /\ pc[Reader] = "advance"
  /\ position' = position + 1
  /\ Goto(Reader, "copy")
  /\ UNCHANGED <<mutexVars, generation, stamp, value, waitVars, ghostVars>>

\* insert_locked copies the entry; in which order is up to the compiler.
PushCopyStamp ==
  /\ pc[Reader] \in {"copy", "copyStamp"}
  /\ stamp' = position
  /\ Goto(Reader, IF pc[Reader] = "copy" THEN "copyValue" ELSE "bump")
  /\ UNCHANGED <<mutexVars, position, generation, value, waitVars, ghostVars>>

PushCopyValue ==
  /\ pc[Reader] \in {"copy", "copyValue"}
  /\ value' = position
  /\ Goto(Reader, IF pc[Reader] = "copy" THEN "copyStamp" ELSE "bump")
  /\ UNCHANGED <<mutexVars, position, generation, stamp, waitVars, ghostVars>>

\* generation.fetch_add(1)
PushBump ==
  /\ pc[Reader] = "bump"
  /\ generation' = generation + 1
  /\ torn' = FALSE
  /\ Goto(Reader, "unlock")
  /\ UNCHANGED <<mutexVars, position, stamp, value, waitVars, crashes, thrown, unannounced>>

PushUnlock ==
  /\ pc[Reader] = "unlock"
  /\ Unlock(Reader)
  /\ Goto(Reader, "notify")
  /\ UNCHANGED <<dataVars, waitVars, ghostVars>>

\* Mutant: pthread_cond_signal in place of the broadcast.
PushNotifyOne ==
  /\ pc[Reader] = "notify"
  /\ \/ \E w \in Worker :
          /\ pc[w] = "blocked"
          /\ pc' = [pc EXCEPT ![Reader] = "idle", ![w] = "relock"]
          /\ rc' = [rc EXCEPT ![w] = "0"]
     \/ /\ \A w \in Worker : pc[w] # "blocked"
        /\ Goto(Reader, "idle")
        /\ UNCHANGED rc
  /\ unannounced' = FALSE
  /\ UNCHANGED <<mutexVars, dataVars, gen_before, crashes, thrown, torn>>

\* notify_all: pthread_cond_broadcast, without the mutex.
PushNotify ==
  /\ pc[Reader] = "notify"
  /\ pc' = [p \in Process |-> IF p = Reader THEN "idle"
                              ELSE IF pc[p] = "blocked" THEN "relock" ELSE pc[p]]
  /\ rc' = [w \in Worker |-> IF pc[w] = "blocked" THEN "0" ELSE rc[w]]
  /\ unannounced' = FALSE
  /\ UNCHANGED <<mutexVars, dataVars, gen_before, crashes, thrown, torn>>

-----------------------------------------------------------------------------
(* A worker: get or get_delta *)

\* Mutant: the query does not take the mutex.
QueryLockSkipped(w) ==
  /\ pc[w] = "idle"
  /\ Goto(w, "query")
  /\ UNCHANGED <<mutexVars, dataVars, waitVars, ghostVars>>

QueryLock(w) ==
  /\ pc[w] = "idle"
  /\ Lock(w, "query")
  /\ UNCHANGED <<dataVars, waitVars, ghostVars>>

\* The entry is read, the mutex released.
QueryUnlock(w) ==
  /\ pc[w] = "query"
  /\ Unlock(w)
  /\ Goto(w, "idle")
  /\ UNCHANGED <<dataVars, waitVars, ghostVars>>

\* Copying the value throws: nothing releases the mutex on the way out.  The
\* bound leaves a kill for every worker that keeps the mutex this way.
QueryThrow(w) ==
  /\ pc[w] = "query" /\ crashes + Cardinality(thrown) < MaxCrash
  /\ thrown' = thrown \cup {w}
  /\ Goto(w, "idle")
  /\ UNCHANGED <<mutexVars, dataVars, waitVars, crashes, torn, unannounced>>

-----------------------------------------------------------------------------
(* A worker: wait_for_new_data *)

WaitLock(w) ==
  /\ pc[w] = "idle"
  /\ Lock(w, "enter")
  /\ UNCHANGED <<dataVars, waitVars, ghostVars>>

\* gen_before is read; a timeout of zero or less leaves without waiting.
WaitEnter(w) ==
  /\ pc[w] = "enter"
  /\ gen_before' = [gen_before EXCEPT ![w] = generation]
  /\ rc' = [rc EXCEPT ![w] = "0"]
  /\ Goto(w, "loop") \/ Goto(w, "leave")
  /\ UNCHANGED <<mutexVars, dataVars, ghostVars>>

\* The loop's condition, then pthread_cond_timedwait up to its release of the
\* mutex, which is atomic with going to sleep.
WaitLoop(w) ==
  /\ pc[w] = "loop"
  /\ IF generation = gen_before[w] /\ rc[w] = "0"
     THEN Unlock(w) /\ Goto(w, "blocked")
     ELSE UNCHANGED mutexVars /\ Goto(w, "leave")
  /\ UNCHANGED <<dataVars, waitVars, ghostVars>>

\* The timeout expires.
WaitTimeout(w) ==
  /\ pc[w] = "blocked"
  /\ rc' = [rc EXCEPT ![w] = "timedout"]
  /\ Goto(w, "relock")
  /\ UNCHANGED <<mutexVars, dataVars, gen_before, ghostVars>>

\* A wakeup without a cause.
WaitSpurious(w) ==
  /\ pc[w] = "blocked"
  /\ rc' = [rc EXCEPT ![w] = "0"]
  /\ Goto(w, "relock")
  /\ UNCHANGED <<mutexVars, dataVars, gen_before, ghostVars>>

\* Mutant: an error of pthread_cond_timedwait is taken for a spurious wakeup.
WaitRelockRetrying(w) ==
  /\ pc[w] = "relock"
  /\ owner = Nobody
  /\ owner' = IF mutex = "notrecoverable" THEN Nobody ELSE w
  /\ rc' = [rc EXCEPT ![w] = IF mutex = "ok" THEN @ ELSE "0"]
  /\ Goto(w, "loop")
  /\ UNCHANGED <<mutex, dataVars, gen_before, ghostVars>>

\* pthread_cond_timedwait takes the mutex back before it returns.  It reports
\* EOWNERDEAD and ENOTRECOVERABLE like pthread_mutex_lock does, and the loop
\* leaves on either as on an unknown error.
WaitRelock(w) ==
  /\ pc[w] = "relock"
  /\ owner = Nobody
  /\ owner' = IF mutex = "notrecoverable" THEN Nobody ELSE w
  /\ rc' = [rc EXCEPT ![w] = IF mutex = "ok" THEN @ ELSE "error"]
  /\ Goto(w, IF mutex = "ok" THEN "loop" ELSE "leave")
  /\ UNCHANGED <<mutex, dataVars, gen_before, ghostVars>>

\* Mutant: a wait that saw nothing new returns without the unlock.
WaitLeaveEarly(w) ==
  /\ pc[w] = "leave"
  /\ IF generation = gen_before[w] THEN UNCHANGED mutexVars ELSE Unlock(w)
  /\ Goto(w, "idle")
  /\ UNCHANGED <<dataVars, waitVars, ghostVars>>

\* gen_after is read and the mutex released; the result says whether it changed.
WaitLeave(w) ==
  /\ pc[w] = "leave"
  /\ Unlock(w)
  /\ Goto(w, "idle")
  /\ UNCHANGED <<dataVars, waitVars, ghostVars>>

-----------------------------------------------------------------------------
(* Kills *)

\* A process is killed and restarted; the kernel marks a mutex it held.
Kill(p) ==
  /\ crashes + Cardinality(thrown \ {p}) < MaxCrash
  /\ crashes' = crashes + 1
  /\ thrown' = thrown \ {p}
  /\ owner' = IF owner = p THEN Nobody ELSE owner
  /\ mutex' = IF owner = p THEN "ownerdead" ELSE mutex
  /\ Goto(p, "idle")
  /\ torn' = (torn \/ (p = Reader /\ pc[p] \in {"copyStamp", "copyValue"}))
  /\ unannounced' = (unannounced \/ (p = Reader /\ pc[p] \in {"unlock", "notify"}))
  /\ UNCHANGED <<dataVars, waitVars>>

-----------------------------------------------------------------------------

PushStep == PushLock \/ PushAdvance \/ PushCopyStamp \/ PushCopyValue \/ PushBump
              \/ PushUnlock \/ PushNotify

QueryStep(w) == QueryLock(w) \/ QueryUnlock(w) \/ QueryThrow(w)

WaitStep(w) == WaitLock(w) \/ WaitEnter(w) \/ WaitLoop(w) \/ WaitTimeout(w)
                 \/ WaitSpurious(w) \/ WaitRelock(w) \/ WaitLeave(w)

Next ==
  \/ PushStep
  \/ \E w \in Worker : QueryStep(w) \/ WaitStep(w)
  \/ \E p \in Process : Kill(p)

Spec == Init /\ [][Next]_vars

\* A process that is not killed goes on with what it began.  The deadline of a
\* wait is absolute, so wakeups do not put it off; the kernel does not starve a
\* process that waits for a mutex others keep releasing.
Fairness ==
  /\ WF_vars(PushAdvance \/ PushCopyStamp \/ PushCopyValue \/ PushBump
                \/ PushUnlock \/ PushNotify)
  /\ \A w \in Worker :
       /\ WF_vars(QueryUnlock(w) \/ QueryThrow(w))
       /\ WF_vars(WaitEnter(w) \/ WaitLoop(w) \/ WaitLeave(w))
       /\ SF_vars(WaitTimeout(w))
       /\ SF_vars(WaitRelock(w))

FairSpec == Spec /\ Fairness

-----------------------------------------------------------------------------
(* Properties *)

\* The places at which a process has the mutex.
Holds(l) == l \in {"advance", "copy", "copyStamp", "copyValue", "bump", "unlock",
                   "query", "enter", "loop", "leave"}

\* A query never reads an entry half written by a live push; one torn by a kill
\* stays until the next push.
ReadsWholeEntry ==
  \A w \in Worker : pc[w] = "query" => stamp = value \/ torn

\* No wakeup is lost: if a waiter sleeps although the generation it waits on has
\* passed, the push has yet to broadcast, or was killed before it could.
NoLostWakeup ==
  \A w \in Worker : pc[w] = "blocked" /\ generation # gen_before[w]
                      => pc[Reader] \in {"unlock", "notify"} \/ unannounced

\* A process outside the cache's methods never keeps the mutex, whatever was killed
\* where, unless a query of its own threw: then nobody gets past the mutex, the
\* process itself included, until it dies.
HeldOnlyInside ==
  owner # Nobody => owner \in thrown \/ Holds(pc[owner])

\* wait_for_new_data returns, whatever else is killed and in whatever state that
\* leaves the mutex, unless a live process keeps it for good.
WaitReturns ==
  \A w \in Worker : pc[w] = "blocked" ~> pc[w] = "idle" \/ owner \in thrown

\* A death in a critical section is repaired by whoever locks the mutex next; only
\* a waiter that pthread_cond_timedwait made the owner of a dead process's mutex
\* makes it unusable.
LostOnlyByWaiter ==
  [][(mutex # "notrecoverable" /\ mutex' = "notrecoverable") =>
       \E w \in Worker : owner = w /\ pc[w] = "leave" /\ rc[w] = "error"]_vars

\* shared_group_cache.cpp:52: "Use robust mutex so that if the cache reader crashes
\* while holding the lock, other processes can recover (EOWNERDEAD)".
MutexRecovers == mutex # "notrecoverable"
=============================================================================
