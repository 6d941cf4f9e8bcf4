----------------------------- MODULE WorkerPool -----------------------------
(***************************************************************************)
(* The pre-forked pool: workers that accept requests from one listen       *)
(* socket, two counting semaphores meant to limit long-poll reads, and the *)
(* supervisor's part in them: it gives a dead worker's tokens back and     *)
(* forks a replacement.                                                    *)
(*                                                                         *)
(* Only GET /r takes tokens, one of each semaphore, in a fixed order; the  *)
(* SemToken destructors give them back in the opposite order at the end of *)
(* the request.  A killed worker gives nothing back: its tokens stay in    *)
(* held, where they count as lost until the supervisor makes up for them.  *)
(***************************************************************************)
EXTENDS Integers, FiniteSets

CONSTANTS Worker,         \* the slots of worker_pids
          Nobody,         \* the supervisor is handling no worker
          MaxKills,       \* bound on the number of kills
          MaxBacklog      \* bound on the listen backlog

VARIABLES value,      \* value[s]: the semaphore's value
          held,       \* held[w]: semaphores of which w took a token
          pc,         \* where each worker is
          reap,       \* the supervisor: what it is doing and for which worker
          backlog,    \* waiting connections by kind, see Kind
          late,       \* late[w]: w's request had found every worker busy
          kills       \* number of kills so far

vars == <<value, held, pc, reap, backlog, late, kills>>

ASSUME PoolAssumption ==
  /\ IsFiniteSet(Worker) /\ Worker # {} /\ Nobody \notin Worker
  /\ MaxKills \in Nat /\ MaxBacklog \in Nat

num_workers == Cardinality(Worker)

Sem == {"concurrency", "load_shed"}

\* A read, a read that arrived while every worker was serving a read, and a
\* request of another kind.
Kind == {"read", "late", "other"}

Idle == [step |-> "wait", sem |-> "concurrency", worker |-> Nobody, low |-> FALSE]

PcSet == {"accept", "concurrency", "load_shed", "serve", "finish", "dead", "gone"}

TypeOK ==
  /\ value \in [Sem -> Nat]
  /\ held \in [Worker -> SUBSET Sem]
  /\ pc \in [Worker -> PcSet]
  /\ reap \in [step : {"wait", "get", "post", "spawn"}, sem : Sem,
               worker : Worker \cup {Nobody}, low : BOOLEAN]
  /\ backlog \in [Kind -> 0..MaxBacklog]
  /\ late \in [Worker -> BOOLEAN]
  /\ kills \in 0..MaxKills

Init ==
  /\ value = [s \in Sem |-> num_workers]
  /\ held = [w \in Worker |-> {}]
  /\ pc = [w \in Worker |-> "accept"]
  /\ reap = Idle
  /\ backlog = [k \in Kind |-> 0]
  /\ late = [w \in Worker |-> FALSE]
  /\ kills = 0

Goto(w, l) == pc' = [pc EXCEPT ![w] = l]

Alive(w) == pc[w] \notin {"dead", "gone"}

-----------------------------------------------------------------------------
(* Requests and workers *)

AllBusyReading == \A w \in Worker : pc[w] = "serve" /\ held[w] = Sem

\* A connection enters the listen backlog.
Arrive(read) ==
  LET k == IF ~read THEN "other" ELSE IF AllBusyReading THEN "late" ELSE "read"
  IN  /\ backlog[k] < MaxBacklog
      /\ backlog' = [backlog EXCEPT ![k] = @ + 1]
      /\ UNCHANGED <<value, held, pc, reap, late, kills>>

\* FCGX_Accept_r: one of the idle workers takes a waiting connection.
Accept(w, k) ==
  /\ pc[w] = "accept" /\ backlog[k] > 0
  /\ backlog' = [backlog EXCEPT ![k] = @ - 1]
  /\ late' = [late EXCEPT ![w] = (k = "late")]
  /\ Goto(w, IF k = "other" THEN "serve" ELSE "concurrency")
  /\ UNCHANGED <<value, held, reap, kills>>

\* sem_trywait on the semaphore s; without a token the answer is 503, and the end
\* of the iteration gives back what was taken before.
TryWait(w, s, next) ==
  /\ pc[w] = s
  /\ IF value[s] > 0
     THEN /\ value' = [value EXCEPT ![s] = @ - 1]
          /\ held' = [held EXCEPT ![w] = @ \cup {s}]
          /\ Goto(w, next)
     ELSE /\ UNCHANGED <<value, held>>
          /\ Goto(w, "finish")
  /\ UNCHANGED <<reap, backlog, late, kills>>

TryConcurrency(w) == TryWait(w, "concurrency", "load_shed")
TryLoadShed(w) == TryWait(w, "load_shed", "serve")

\* The handler returns or throws, and the response is written.
Serve(w) ==
  /\ pc[w] = "serve"
  /\ Goto(w, "finish")
  /\ UNCHANGED <<value, held, reap, backlog, late, kills>>

\* The destructors at the end of the iteration, load_shed_token first.
Release(w, s) ==
  /\ pc[w] = "finish"
  /\ s \in held[w] /\ (s = "concurrency" => "load_shed" \notin held[w])
  /\ value' = [value EXCEPT ![s] = @ + 1]
  /\ held' = [held EXCEPT ![w] = @ \ {s}]
  /\ UNCHANGED <<pc, reap, backlog, late, kills>>

Finish(w) ==
  /\ pc[w] = "finish" /\ held[w] = {}
  /\ Goto(w, "accept")
  /\ late' = [late EXCEPT ![w] = FALSE]
  /\ UNCHANGED <<value, held, reap, backlog, kills>>

\* A worker dies, its tokens with it.
Kill(w) ==
  /\ Alive(w) /\ kills < MaxKills
  /\ kills' = kills + 1
  /\ Goto(w, "dead")
  /\ late' = [late EXCEPT ![w] = FALSE]
  /\ UNCHANGED <<value, held, reap, backlog>>

-----------------------------------------------------------------------------
(* The supervisor *)

\* wait() returns the pid of a dead worker.
Reap(w) ==
  /\ reap.step = "wait" /\ pc[w] = "dead"
  /\ reap' = [Idle EXCEPT !.step = "get", !.worker = w]
  /\ UNCHANGED <<value, held, pc, backlog, late, kills>>

\* restore_semaphore: sem_getvalue, and later sem_post if the value was low.
RestoreGet ==
  /\ reap.step = "get"
  /\ reap' = [reap EXCEPT !.step = "post", !.low = (value[reap.sem] < num_workers)]
  /\ UNCHANGED <<value, held, pc, backlog, late, kills>>

\* Mutants: a token given back without looking at the value, and none given back.
RestorePostAlways ==
  /\ reap.step = "post"
  /\ value' = [value EXCEPT ![reap.sem] = @ + 1]
  /\ held' = [held EXCEPT ![reap.worker] = @ \ {reap.sem}]
  /\ reap' = IF reap.sem = "concurrency"
             THEN [reap EXCEPT !.step = "get", !.sem = "load_shed"]
             ELSE [reap EXCEPT !.step = "spawn", !.low = FALSE]
  /\ UNCHANGED <<pc, backlog, late, kills>>

RestorePostNever ==
  /\ reap.step = "post"
  /\ held' = [held EXCEPT ![reap.worker] = @ \ {reap.sem}]
  /\ reap' = IF reap.sem = "concurrency"
             THEN [reap EXCEPT !.step = "get", !.sem = "load_shed"]
             ELSE [reap EXCEPT !.step = "spawn", !.low = FALSE]
  /\ UNCHANGED <<value, pc, backlog, late, kills>>

RestorePost ==
  /\ reap.step = "post"
  /\ value' = IF reap.low THEN [value EXCEPT ![reap.sem] = @ + 1] ELSE value
  /\ held' = [held EXCEPT ![reap.worker] = @ \ {reap.sem}]
  /\ reap' = IF reap.sem = "concurrency"
             THEN [reap EXCEPT !.step = "get", !.sem = "load_shed"]
             ELSE [reap EXCEPT !.step = "spawn", !.low = FALSE]
  /\ UNCHANGED <<pc, backlog, late, kills>>

\* spawn_worker after the back-off.
Spawn ==
  /\ reap.step = "spawn"
  /\ Goto(reap.worker, "accept")
  /\ reap' = Idle
  /\ UNCHANGED <<value, held, backlog, late, kills>>

\* fork() fails: worker_pids[i] is -1, which no later wait() returns.
SpawnFails ==
  /\ reap.step = "spawn"
  /\ Goto(reap.worker, "gone")
  /\ reap' = Idle
  /\ UNCHANGED <<value, held, backlog, late, kills>>

-----------------------------------------------------------------------------
WorkerStep(w) ==
  \/ \E k \in Kind : Accept(w, k)
  \/ TryConcurrency(w)
  \/ TryLoadShed(w)
  \/ Serve(w)
  \/ \E s \in Sem : Release(w, s)
  \/ Finish(w)

Restart ==
  \/ \E w \in Worker : Reap(w)
  \/ RestoreGet
  \/ RestorePost
  \/ Spawn
  \/ SpawnFails

Next ==
  \/ \E read \in BOOLEAN : Arrive(read)
  \/ \E w \in Worker : WorkerStep(w) \/ Kill(w)
  \/ Restart

Spec == Init /\ [][Next]_vars

-----------------------------------------------------------------------------
(* Properties *)

Holders(s) == {w \in Worker : s \in held[w]}
LiveHolders(s) == {w \in Holders(s) : Alive(w)}

\* The pool never shrinks: every token is in the semaphore, in the hands of a
\* worker, or owed to it by the supervisor.  A worker killed at any point of a
\* request, while sem_getvalue and sem_post of the restore race the other
\* workers, never costs a token for good.
CapacityNeverLost == \A s \in Sem : value[s] + Cardinality(Holders(s)) >= num_workers

\* sem_trywait of the accept loop never fails, so the 503 branches of
\* FcgiServer::run are never taken: a process that handles one request at a time
\* holds no token when it asks for one, and there is a token for every process.
NeverShed == \A w \in Worker : pc[w] \in Sem => value[pc[w]] > 0

\* However often workers die, restoring tokens never lets the tokens in use and
\* in the semaphore add up to twice the size of the pool.
RestoreBounded ==
  \A s \in Sem : value[s] + Cardinality(LiveHolders(s)) < 2 * num_workers

\* What the comment on restore_semaphore says: "never exceed the initial
\* capacity".  A worker that dies without a token, while another holds one, is
\* given a token it never took.
CapacityNeverExceeded == \A s \in Sem : value[s] <= num_workers

\* What the comments on the semaphores say: a read that comes in while every
\* worker is in a long-poll read is answered at once and never gets a handler.
BusyReadsShed == \A w \in Worker : late[w] => pc[w] # "serve"
=============================================================================
