------------------------------ MODULE LongPollProofs ------------------------------
(***************************************************************************)
(* Proofs about long polls: the tokens a worker needs to serve one, what   *)
(* the clients that poll with an index are told, and the time it takes.    *)
(***************************************************************************)
EXTENDS WorkerPool, DeltaClients, PollTime, CacheIndexProofs, FiniteSetTheorems

(***************************************************************************)
(* No token is ever lost, the accept loop never meets an empty semaphore,  *)
(* and restoring tokens stays within twice the pool, for any number of     *)
(* workers and kills.                                                      *)
(***************************************************************************)

\* Who may hold what: a worker outside a read holds nothing, and what the
\* supervisor has settled for a dead worker is no longer counted.
Places ==
  /\ \A w \in Worker :
       /\ pc[w] \in {"accept", "concurrency", "gone"} => held[w] = {}
       /\ pc[w] = "load_shed" => "load_shed" \notin held[w]
  /\ reap.step # "wait" => reap.worker \in Worker /\ pc[reap.worker] = "dead"
  /\ reap.step \in {"get", "post"} /\ reap.sem = "load_shed"
       => "concurrency" \notin held[reap.worker]
  /\ reap.step = "spawn" => held[reap.worker] = {}

\* Between sem_getvalue and the decision to post: if the value was at capacity,
\* the dead worker's token is not needed; if it was low, there is room for one.
Settled ==
  /\ reap.step = "post" /\ ~reap.low
       => value[reap.sem] + Cardinality(Holders(reap.sem) \ {reap.worker}) >= num_workers
  /\ reap.step = "post" /\ reap.low
       => value[reap.sem] + Cardinality(LiveHolders(reap.sem)) < 2 * num_workers - 1

Sums == CapacityNeverLost /\ RestoreBounded /\ Settled

IInv == TypeOK /\ Places /\ Sums

-----------------------------------------------------------------------------
\* The pool has at least one worker.
LEMMA PoolSize == num_workers \in Nat \ {0}
BY PoolAssumption, FS_CardinalityType, FS_EmptySet, Zenon DEF num_workers

\* Subsets of the workers have a size, at most that of the pool.
LEMMA WorkerSets ==
  ASSUME NEW S, S \subseteq Worker
  PROVE  /\ IsFiniteSet(S) /\ Cardinality(S) \in Nat
         /\ Cardinality(S) <= num_workers
<1>1. IsFiniteSet(S) /\ Cardinality(S) <= Cardinality(Worker)
  BY PoolAssumption, FS_Subset, Zenon
<1> QED  BY <1>1, FS_CardinalityType, Zenon DEF num_workers

\* A set that leaves a worker out is smaller than the pool.
LEMMA ProperWorkerSets ==
  ASSUME NEW w \in Worker, NEW S, S \subseteq Worker, w \notin S
  PROVE  Cardinality(S) < num_workers
<1>1. S \subseteq Worker /\ S # Worker
  BY Zenon
<1>2. Cardinality(S) # Cardinality(Worker)
  BY <1>1, PoolAssumption, FS_Subset, Zenon
<1> QED  BY <1>2, WorkerSets, PoolSize DEF num_workers

\* A subset of a set of workers is no larger.
LEMMA WorkerSubsets ==
  ASSUME NEW S, S \subseteq Worker, NEW T, T \subseteq S
  PROVE  Cardinality(T) <= Cardinality(S)
BY WorkerSets, FS_Subset, Zenon

\* Taking and giving back a token moves one worker in or out of a set.
LEMMA AddWorker ==
  ASSUME NEW S, S \subseteq Worker, NEW w, w \notin S
  PROVE  Cardinality(S \cup {w}) = Cardinality(S) + 1
BY WorkerSets, FS_AddElement, Zenon

\* Removing a worker from a set of them.
LEMMA RemoveWorker ==
  ASSUME NEW S, S \subseteq Worker, NEW w, w \in S
  PROVE  Cardinality(S \ {w}) = Cardinality(S) - 1
BY WorkerSets, FS_RemoveElement, Zenon

\* The two sets of token holders, before and after a step.
LEMMA HolderSets ==
  ASSUME NEW s
  PROVE  /\ Holders(s) \subseteq Worker /\ LiveHolders(s) \subseteq Holders(s)
         /\ (Holders(s))' \subseteq Worker /\ (LiveHolders(s))' \subseteq (Holders(s))'
BY Zenon DEF Holders, LiveHolders

\* The initial state: all tokens in the semaphores.
LEMMA InitIInv == Init => IInv
<1> SUFFICES ASSUME Init PROVE IInv
  BY Zenon
<1>1. TypeOK
  BY PoolAssumption, PoolSize DEF Init, TypeOK, Idle, Sem, Kind, PcSet
<1>2. Places
  BY Zenon DEF Init, Places, Idle
<1>3. \A s \in Sem : Cardinality(Holders(s)) = 0 /\ Cardinality(LiveHolders(s)) = 0
  <2> SUFFICES ASSUME NEW s \in Sem
               PROVE  Holders(s) = {} /\ LiveHolders(s) = {}
    BY FS_EmptySet, Zenon
  <2> QED  BY Zenon DEF Init, Holders, LiveHolders
<1>4. \A s \in Sem : value[s] = num_workers
  BY Zenon DEF Init
<1>5. CapacityNeverLost /\ RestoreBounded
  BY <1>3, <1>4, PoolSize DEF CapacityNeverLost, RestoreBounded
<1>6. Settled
  BY Zenon DEF Init, Settled, Idle
<1> QED  BY <1>1, <1>2, <1>5, <1>6, Zenon DEF IInv, Sums

\* Every step keeps the types.
LEMMA NextType ==
  ASSUME TypeOK, Places, [Next]_vars
  PROVE  TypeOK'
<1> USE PoolAssumption DEF TypeOK, Sem, Kind, PcSet
<1>1. ASSUME NEW read \in BOOLEAN, Arrive(read) PROVE TypeOK'
  BY <1>1 DEF Arrive
<1>2. ASSUME NEW w \in Worker, NEW k \in Kind, Accept(w, k) PROVE TypeOK'
  BY <1>2 DEF Accept, Goto
<1>3. ASSUME NEW w \in Worker, TryConcurrency(w) PROVE TypeOK'
  BY <1>3 DEF TryConcurrency, TryWait, Goto
<1>4. ASSUME NEW w \in Worker, TryLoadShed(w) PROVE TypeOK'
  BY <1>4 DEF TryLoadShed, TryWait, Goto
<1>5. ASSUME NEW w \in Worker, Serve(w) PROVE TypeOK'
  BY <1>5, Zenon DEF Serve, Goto
<1>6. ASSUME NEW w \in Worker, NEW s \in Sem, Release(w, s) PROVE TypeOK'
  BY <1>6 DEF Release
<1>7. ASSUME NEW w \in Worker, Finish(w) PROVE TypeOK'
  BY <1>7, Zenon DEF Finish, Goto
<1>8. ASSUME NEW w \in Worker, Kill(w) PROVE TypeOK'
  BY <1>8 DEF Kill, Goto
<1>9. ASSUME NEW w \in Worker, Reap(w) PROVE TypeOK'
  <2>1. reap' = [step |-> "get", sem |-> "concurrency", worker |-> w, low |-> FALSE]
    BY <1>9, Zenon DEF Reap, Idle
  <2> QED  BY <2>1, <1>9 DEF Reap
<1>10. CASE RestoreGet
  <2> DEFINE low == value[reap.sem] < num_workers
  <2>1. low \in BOOLEAN
    OBVIOUS
  <2>2. reap' = [step |-> "post", sem |-> reap.sem, worker |-> reap.worker, low |-> low]
    BY <1>10, Zenon DEF RestoreGet
  <2> HIDE DEF low
  <2> QED  BY <2>1, <2>2, <1>10 DEF RestoreGet
<1>11. CASE RestorePost
  <2>1. PICK l \in BOOLEAN, s \in Sem, n \in {"get", "spawn"} :
          reap' = [step |-> n, sem |-> s, worker |-> reap.worker, low |-> l]
    BY <1>11, Zenon DEF RestorePost
  <2>2. value' \in [Sem -> Nat]
    <3>1. CASE reap.low
      BY <3>1, <1>11 DEF RestorePost
    <3>2. CASE ~reap.low
      BY <3>2, <1>11, Zenon DEF RestorePost
    <3> QED  BY <3>1, <3>2, Zenon
  <2>3. held' \in [Worker -> SUBSET Sem]
    BY <1>11, Zenon DEF RestorePost
  <2> QED  BY <2>1, <2>2, <2>3, <1>11 DEF RestorePost
<1>12. CASE Spawn \/ SpawnFails
  <2>1. reap' = [step |-> "wait", sem |-> "concurrency", worker |-> Nobody, low |-> FALSE]
    BY <1>12, Zenon DEF Spawn, SpawnFails, Idle
  <2>2. pc' \in [Worker -> PcSet]
    BY <1>12, Zenon DEF Spawn, SpawnFails, Goto
  <2> QED  BY <2>1, <2>2, <1>12, Zenon DEF Spawn, SpawnFails
<1>13. CASE UNCHANGED vars
  BY <1>13, SMTT(30) DEF vars
<1> QED
  BY <1>1, <1>2, <1>3, <1>4, <1>5, <1>6, <1>7, <1>8, <1>9, <1>10, <1>11, <1>12, <1>13
     DEF Next, WorkerStep, Restart

\* Every step keeps the tokens in their places.
LEMMA NextPlaces ==
  ASSUME TypeOK, Places, [Next]_vars
  PROVE  Places'
<1> USE DEF TypeOK, Places, Sem
<1>1. ASSUME NEW read \in BOOLEAN, Arrive(read) PROVE Places'
  BY <1>1, Zenon DEF Arrive
<1>2. ASSUME NEW w \in Worker, NEW k \in Kind, Accept(w, k) PROVE Places'
  BY <1>2, Zenon DEF Accept, Goto
<1>3. ASSUME NEW w \in Worker, TryConcurrency(w) PROVE Places'
  BY <1>3 DEF TryConcurrency, TryWait, Goto
<1>4. ASSUME NEW w \in Worker, TryLoadShed(w) PROVE Places'
  BY <1>4 DEF TryLoadShed, TryWait, Goto
<1>5. ASSUME NEW w \in Worker, Serve(w) PROVE Places'
  BY <1>5, Zenon DEF Serve, Goto
<1>6. ASSUME NEW w \in Worker, NEW s \in Sem, Release(w, s) PROVE Places'
  BY <1>6, Zenon DEF Release
<1>7. ASSUME NEW w \in Worker, Finish(w) PROVE Places'
  BY <1>7, Zenon DEF Finish, Goto
<1>8. ASSUME NEW w \in Worker, Kill(w) PROVE Places'
  BY <1>8, Zenon DEF Kill, Goto, Alive
<1>9. ASSUME NEW w \in Worker, Reap(w) PROVE Places'
  BY <1>9, Zenon DEF Reap, Idle
<1>10. CASE RestoreGet
  BY <1>10, Zenon DEF RestoreGet
<1>11. CASE RestorePost
  BY <1>11 DEF RestorePost
<1>12. CASE Spawn \/ SpawnFails
  BY <1>12 DEF Spawn, SpawnFails, Goto, Idle
<1>13. CASE UNCHANGED vars
  BY <1>13, Zenon DEF vars
<1> QED
  BY <1>1, <1>2, <1>3, <1>4, <1>5, <1>6, <1>7, <1>8, <1>9, <1>10, <1>11, <1>12, <1>13
     DEF Next, WorkerStep, Restart

\* A step that moves no token, at most loses live holders to a kill, and leaves
\* the supervisor where it is keeps the sums.
LEMMA QuietSums ==
  ASSUME TypeOK, Places, Sums, value' = value, reap' = reap,
         \A s \in Sem : /\ Holders(s)' = Holders(s)
                        /\ LiveHolders(s)' \subseteq LiveHolders(s)
  PROVE  Sums'
<1>1. \A s \in Sem : /\ value[s] \in Nat
                     /\ Cardinality(LiveHolders(s)) \in Nat
                     /\ Cardinality(LiveHolders(s)') \in Nat
                     /\ Cardinality(LiveHolders(s)') <= Cardinality(LiveHolders(s))
  <2> SUFFICES ASSUME NEW s \in Sem
               PROVE  /\ value[s] \in Nat
                      /\ Cardinality(LiveHolders(s)) \in Nat
                      /\ Cardinality(LiveHolders(s)') \in Nat
                      /\ Cardinality(LiveHolders(s)') <= Cardinality(LiveHolders(s))
    BY Zenon
  <2>1. LiveHolders(s) \subseteq Worker /\ LiveHolders(s)' \subseteq Worker
    BY HolderSets, Zenon
  <2>2. value[s] \in Nat
    BY Zenon DEF TypeOK
  <2> QED  BY <2>1, <2>2, WorkerSets, WorkerSubsets, Zenon
<1>2. reap.sem \in Sem
  BY Zenon DEF TypeOK
<1>3. CapacityNeverLost'
  BY Zenon DEF Sums, CapacityNeverLost, num_workers
<1>4. RestoreBounded'
  <2> SUFFICES ASSUME NEW s \in Sem
               PROVE  value[s] + Cardinality(LiveHolders(s)') < 2 * num_workers
    BY Zenon DEF RestoreBounded, num_workers
  <2>1. value[s] + Cardinality(LiveHolders(s)) < 2 * num_workers
    BY Zenon DEF Sums, RestoreBounded
  <2> QED  BY <1>1, <2>1, PoolSize
<1>5. Settled'
  <2>0. PICK r \in Sem : r = reap.sem
    BY <1>2, Zenon
  <2>1. PICK d : d = reap.worker
    BY Zenon
  <2>2. ASSUME reap.step = "post", ~reap.low
        PROVE  value[r] + Cardinality(Holders(r)' \ {d}) >= num_workers
    BY <2>0, <2>1, <2>2, Zenon DEF Sums, Settled
  <2>3. ASSUME reap.step = "post", reap.low
        PROVE  value[r] + Cardinality(LiveHolders(r)') < 2 * num_workers - 1
    <3>1. value[r] + Cardinality(LiveHolders(r)) < 2 * num_workers - 1
      BY <2>0, <2>1, <2>3, Zenon DEF Sums, Settled
    <3> QED  BY <3>1, <1>1, PoolSize
  <2> QED  BY <2>0, <2>1, <2>2, <2>3, Zenon DEF Settled, num_workers
<1> QED  BY <1>3, <1>4, <1>5, Zenon DEF Sums

\* A live worker that takes or gives back one token changes no sum.
LEMMA MoveSums ==
  ASSUME TypeOK, Places, Sums, reap' = reap, TypeOK',
         NEW w \in Worker, NEW s \in Sem, Alive(w), Alive(w)',
         \A u \in Worker \ {w} : pc'[u] = pc[u] /\ held'[u] = held[u],
         \A r \in Sem \ {s} : value'[r] = value[r] /\ (r \in held'[w] <=> r \in held[w]),
         \/ value'[s] = value[s] - 1 /\ s \notin held[w] /\ s \in held'[w]
         \/ value'[s] = value[s] + 1 /\ s \in held[w] /\ s \notin held'[w]
  PROVE  Sums'
<1>1. \A r \in Sem \ {s} : Holders(r)' = Holders(r) /\ LiveHolders(r)' = LiveHolders(r)
  BY DEF Holders, LiveHolders, Alive
<1>2. \A r \in Sem : value[r] \in Nat /\ value'[r] \in Nat
  BY Zenon DEF TypeOK

\* One set of holders, with or without dead workers: it moves against the value.
<1>3. ASSUME NEW S, NEW T, S \subseteq Worker, T \subseteq Worker,
             s \in held[w] => w \in S /\ T = S \ {w},
             s \notin held[w] => w \notin S /\ T = S \cup {w}
      PROVE  /\ value'[s] + Cardinality(T) = value[s] + Cardinality(S)
             /\ Cardinality(S) \in Nat
  <2>1. CASE s \in held[w]
    <3>1. value'[s] = value[s] + 1 /\ Cardinality(T) = Cardinality(S) - 1
      BY <2>1, <1>3, RemoveWorker
    <3> QED  BY <3>1, <1>2, <1>3, WorkerSets
  <2>2. CASE s \notin held[w]
    <3>1. value'[s] = value[s] - 1 /\ Cardinality(T) = Cardinality(S) + 1
      BY <2>2, <1>3, AddWorker
    <3> QED  BY <3>1, <1>2, <1>3, WorkerSets
  <2> QED  BY <2>1, <2>2, Zenon
<1>4. value'[s] + Cardinality(Holders(s)') = value[s] + Cardinality(Holders(s))
  <2>1. /\ s \in held[w] => w \in Holders(s) /\ Holders(s)' = Holders(s) \ {w}
        /\ s \notin held[w] => w \notin Holders(s) /\ Holders(s)' = Holders(s) \cup {w}
    BY DEF Holders
  <2> QED  BY <2>1, <1>3, HolderSets, Zenon
<1>5. value'[s] + Cardinality(LiveHolders(s)') = value[s] + Cardinality(LiveHolders(s))
  <2>1. /\ s \in held[w] => w \in LiveHolders(s) /\ LiveHolders(s)' = LiveHolders(s) \ {w}
        /\ s \notin held[w] => w \notin LiveHolders(s) /\ LiveHolders(s)' = LiveHolders(s) \cup {w}
    BY DEF Holders, LiveHolders, Alive
  <2>2. LiveHolders(s) \subseteq Worker /\ LiveHolders(s)' \subseteq Worker
    BY HolderSets, Zenon
  <2> QED  BY <2>1, <2>2, <1>3, Zenon
<1>6. ASSUME NEW d, d # w
      PROVE  value'[s] + Cardinality(Holders(s)' \ {d}) = value[s] + Cardinality(Holders(s) \ {d})
  <2>1. /\ s \in held[w] => w \in Holders(s) \ {d} /\ Holders(s)' \ {d} = (Holders(s) \ {d}) \ {w}
        /\ s \notin held[w] => w \notin Holders(s) \ {d} /\ Holders(s)' \ {d} = (Holders(s) \ {d}) \cup {w}
    BY <1>6 DEF Holders
  <2>2. Holders(s) \ {d} \subseteq Worker /\ Holders(s)' \ {d} \subseteq Worker
    BY HolderSets, Zenon
  <2> QED  BY <2>1, <2>2, <1>3, Zenon
<1>7. CapacityNeverLost'
  BY <1>1, <1>4, Zenon DEF Sums, CapacityNeverLost, num_workers
<1>8. RestoreBounded'
  BY <1>1, <1>5, Zenon DEF Sums, RestoreBounded, num_workers
<1>9. Settled'
  <2>0. PICK r \in Sem : r = reap.sem
    <3>1. reap.sem \in Sem
      BY Zenon DEF TypeOK
    <3> QED  BY <3>1, Zenon
  <2>1. PICK d : d = reap.worker
    BY Zenon
  <2>2. ASSUME reap.step = "post", ~reap.low
        PROVE  value'[r] + Cardinality(Holders(r)' \ {d}) >= num_workers
    <3>1. value[r] + Cardinality(Holders(r) \ {d}) >= num_workers
      BY <2>0, <2>1, <2>2, Zenon DEF Sums, Settled
    <3>2. w # d
      BY <2>0, <2>1, <2>2, Zenon DEF Places, Alive
    <3>3. CASE r = s
      BY <3>1, <3>2, <3>3, <1>6, Zenon
    <3>4. CASE r # s
      BY <3>1, <3>4, <1>1, Zenon
    <3> QED  BY <3>3, <3>4, Zenon
  <2>3. ASSUME reap.step = "post", reap.low
        PROVE  value'[r] + Cardinality(LiveHolders(r)') < 2 * num_workers - 1
    <3>1. value[r] + Cardinality(LiveHolders(r)) < 2 * num_workers - 1
      BY <2>0, <2>1, <2>3, Zenon DEF Sums, Settled
    <3>2. CASE r = s
      BY <3>1, <3>2, <1>5, Zenon
    <3>3. CASE r # s
      BY <3>1, <3>3, <1>1, Zenon
    <3> QED  BY <3>2, <3>3, Zenon
  <2> QED  BY <2>0, <2>1, <2>2, <2>3 DEF Settled, num_workers
<1> QED  BY <1>7, <1>8, <1>9, Zenon DEF Sums

\* A step of the supervisor that moves no token and leaves no decision pending.
LEMMA SupervisorSums ==
  ASSUME Sums, value' = value, reap'.step # "post",
         \A s \in Sem : Holders(s)' = Holders(s) /\ LiveHolders(s)' = LiveHolders(s)
  PROVE  Sums'
BY Zenon DEF Sums, CapacityNeverLost, RestoreBounded, Settled, num_workers

\* sem_getvalue: what it returns settles whether the token is needed.
LEMMA RestoreGetSums ==
  ASSUME TypeOK, Places, Sums, RestoreGet
  PROVE  Sums'
<1>1. PICK r \in Sem, d \in Worker : r = reap.sem /\ d = reap.worker
  BY Zenon DEF RestoreGet, Places, TypeOK
<1>2. \A s \in Sem : Holders(s)' = Holders(s) /\ LiveHolders(s)' = LiveHolders(s)
  BY Zenon DEF RestoreGet, Holders, LiveHolders, Alive
<1>3. CapacityNeverLost' /\ RestoreBounded'
  BY <1>2, Zenon DEF RestoreGet, Sums, CapacityNeverLost, RestoreBounded, num_workers
<1>4. /\ reap'.sem = r /\ reap'.worker = d /\ reap'.low = (value[r] < num_workers)
      /\ value' = value
  BY <1>1, Zenon DEF RestoreGet, TypeOK
<1>5. d \notin LiveHolders(r)
  BY <1>1, Zenon DEF RestoreGet, Places, LiveHolders, Alive
<1>6. /\ value[r] \in Nat /\ Cardinality(Holders(r) \ {d}) \in Nat
      /\ Cardinality(LiveHolders(r)) \in Nat /\ Cardinality(LiveHolders(r)) < num_workers
  <2>1. /\ Holders(r) \ {d} \subseteq Worker /\ LiveHolders(r) \subseteq Worker
    BY HolderSets, Zenon
  <2>2. value[r] \in Nat
    BY Zenon DEF TypeOK
  <2> QED  BY <1>5, <2>1, <2>2, WorkerSets, ProperWorkerSets, Zenon
<1>7. ~(value[r] < num_workers) => value[r] + Cardinality(Holders(r) \ {d}) >= num_workers
  BY <1>6, PoolSize
<1>8. value[r] < num_workers => value[r] + Cardinality(LiveHolders(r)) < 2 * num_workers - 1
  BY <1>6, PoolSize
<1>9. Settled'
  BY <1>2, <1>4, <1>7, <1>8, Zenon DEF Settled, num_workers
<1> QED  BY <1>3, <1>9, Zenon DEF Sums

\* sem_post, or nothing: the dead worker's claim to the token ends.
LEMMA RestorePostSums ==
  ASSUME TypeOK, Places, Sums, RestorePost
  PROVE  Sums'
<1>1. PICK r \in Sem, d \in Worker : r = reap.sem /\ d = reap.worker
  BY Zenon DEF RestorePost, Places, TypeOK
<1>2. \A s \in Sem \ {r} : /\ Holders(s)' = Holders(s) /\ LiveHolders(s)' = LiveHolders(s)
                            /\ value'[s] = value[s]
  BY <1>1, Zenon DEF RestorePost, TypeOK, Holders, LiveHolders, Alive
<1>3. Holders(r)' = Holders(r) \ {d} /\ LiveHolders(r)' = LiveHolders(r)
  BY <1>1 DEF RestorePost, Places, TypeOK, Holders, LiveHolders, Alive
<1>4. /\ value[r] \in Nat /\ Cardinality(Holders(r)) \in Nat
      /\ Cardinality(Holders(r) \ {d}) \in Nat /\ Cardinality(LiveHolders(r)) \in Nat
      /\ Cardinality(Holders(r) \ {d}) >= Cardinality(Holders(r)) - 1
  <2>1. /\ Holders(r) \subseteq Worker /\ Holders(r) \ {d} \subseteq Worker
        /\ LiveHolders(r) \subseteq Worker
    BY HolderSets, Zenon
  <2>2. d \notin Holders(r) => Holders(r) \ {d} = Holders(r)
    BY Zenon
  <2>3. value[r] \in Nat
    BY Zenon DEF TypeOK
  <2>4. d \in Holders(r) => Cardinality(Holders(r) \ {d}) = Cardinality(Holders(r)) - 1
    BY <2>1, RemoveWorker, Zenon
  <2>5. /\ Cardinality(Holders(r)) \in Nat /\ Cardinality(Holders(r) \ {d}) \in Nat
        /\ Cardinality(LiveHolders(r)) \in Nat
    BY <2>1, WorkerSets, Zenon
  <2> QED  BY <2>2, <2>3, <2>4, <2>5
<1>5. value[r] + Cardinality(Holders(r)) >= num_workers
  BY Zenon DEF Sums, CapacityNeverLost
<1>6. value[r] + Cardinality(LiveHolders(r)) < 2 * num_workers
  BY Zenon DEF Sums, RestoreBounded
<1>7. /\ value'[r] + Cardinality(Holders(r)') >= num_workers
      /\ value'[r] + Cardinality(LiveHolders(r)') < 2 * num_workers
  <2>1. CASE reap.low
    <3>1. value'[r] = value[r] + 1
      BY <2>1, <1>1, Zenon DEF RestorePost, TypeOK
    <3>2. value[r] + Cardinality(LiveHolders(r)) < 2 * num_workers - 1
      BY <2>1, <1>1, Zenon DEF RestorePost, Sums, Settled
    <3> QED  BY <3>1, <3>2, <1>3, <1>4, <1>5, PoolSize
  <2>2. CASE ~reap.low
    <3>1. value'[r] = value[r]
      BY <2>2, <1>1, Zenon DEF RestorePost, TypeOK
    <3>2. value[r] + Cardinality(Holders(r) \ {d}) >= num_workers
      BY <2>2, <1>1, Zenon DEF RestorePost, Sums, Settled
    <3> QED  BY <3>1, <3>2, <1>3, <1>6, Zenon
  <2> QED  BY <2>1, <2>2, Zenon
<1>8. CapacityNeverLost'
  BY <1>2, <1>7, Zenon DEF Sums, CapacityNeverLost, num_workers
<1>9. RestoreBounded'
  BY <1>2, <1>7, Zenon DEF Sums, RestoreBounded, num_workers
<1>10. Settled'
  <2>1. reap'.step # "post"
    BY Zenon DEF RestorePost, TypeOK
  <2> QED  BY <2>1, Zenon DEF Settled
<1> QED  BY <1>8, <1>9, <1>10, Zenon DEF Sums

-----------------------------------------------------------------------------
\* The inductive step: one case per action.
LEMMA NextIInv == IInv /\ [Next]_vars => IInv'
<1> SUFFICES ASSUME IInv, [Next]_vars PROVE IInv'
  BY Zenon
<1>0. TypeOK /\ Places /\ Sums
  BY Zenon DEF IInv
<1>1. TypeOK' /\ Places'
  BY <1>0, NextType, NextPlaces, Zenon
<1>2. ASSUME NEW read \in BOOLEAN, Arrive(read) PROVE Sums'
  BY <1>0, <1>2, QuietSums, Zenon DEF Arrive, Holders, LiveHolders, Alive
<1>3. ASSUME NEW w \in Worker, NEW k \in Kind, Accept(w, k) PROVE Sums'
  BY <1>0, <1>3, QuietSums, Zenon DEF Accept, Goto, TypeOK, Holders, LiveHolders, Alive
<1>4. ASSUME NEW w \in Worker, NEW s \in Sem, NEW next \in {"load_shed", "serve"},
             TryWait(w, s, next)
      PROVE  Sums'
  <2>1. CASE value[s] > 0
    <3>1. s \notin held[w] /\ Alive(w) /\ Alive(w)'
      BY <1>0, <1>4, <2>1 DEF TryWait, Goto, Places, TypeOK, Alive, Sem
    <3>2. reap' = reap /\ value'[s] = value[s] - 1 /\ s \in held'[w]
      BY <1>0, <1>4, <2>1 DEF TryWait, TypeOK
    <3>3. \A u \in Worker \ {w} : pc'[u] = pc[u] /\ held'[u] = held[u]
      BY <1>0, <1>4, <2>1, Zenon DEF TryWait, Goto, TypeOK
    <3>4. \A r \in Sem \ {s} : value'[r] = value[r] /\ (r \in held'[w] <=> r \in held[w])
      BY <1>0, <1>4, <2>1 DEF TryWait, TypeOK
    <3> QED  BY <1>0, <1>1, <3>1, <3>2, <3>3, <3>4, MoveSums
  <2>2. CASE ~(value[s] > 0)
    BY <1>0, <1>4, <2>2, QuietSums, Zenon DEF TryWait, Goto, TypeOK, Holders, LiveHolders, Alive, Sem
  <2> QED  BY <2>1, <2>2, Zenon
<1>5. ASSUME NEW w \in Worker, Serve(w) PROVE Sums'
  BY <1>0, <1>5, QuietSums, Zenon DEF Serve, Goto, TypeOK, Holders, LiveHolders, Alive
<1>6. ASSUME NEW w \in Worker, NEW s \in Sem, Release(w, s) PROVE Sums'
  <2>1. s \in held[w] /\ Alive(w) /\ Alive(w)'
    BY <1>0, <1>6, Zenon DEF Release, TypeOK, Alive
  <2>2. reap' = reap /\ value'[s] = value[s] + 1 /\ s \notin held'[w]
    BY <1>0, <1>6, Zenon DEF Release, TypeOK
  <2>3. \A u \in Worker \ {w} : pc'[u] = pc[u] /\ held'[u] = held[u]
    BY <1>0, <1>6, Zenon DEF Release, TypeOK
  <2>4. \A r \in Sem \ {s} : value'[r] = value[r] /\ (r \in held'[w] <=> r \in held[w])
    BY <1>0, <1>6, Zenon DEF Release, TypeOK
  <2> QED  BY <1>0, <1>1, <2>1, <2>2, <2>3, <2>4, MoveSums
<1>7. ASSUME NEW w \in Worker, Finish(w) PROVE Sums'
  BY <1>0, <1>7, QuietSums, Zenon DEF Finish, Goto, TypeOK, Holders, LiveHolders, Alive
<1>8. ASSUME NEW w \in Worker, Kill(w) PROVE Sums'
  BY <1>0, <1>8, QuietSums, Zenon DEF Kill, Goto, TypeOK, Holders, LiveHolders, Alive
<1>9. ASSUME NEW w \in Worker, Reap(w) PROVE Sums'
  BY <1>0, <1>9, SupervisorSums, Zenon DEF Reap, Idle, Holders, LiveHolders, Alive
<1>10. ASSUME RestoreGet PROVE Sums'
  BY <1>0, <1>10, RestoreGetSums, Zenon
<1>11. ASSUME RestorePost PROVE Sums'
  BY <1>0, <1>11, RestorePostSums, Zenon
<1>12. ASSUME Spawn \/ SpawnFails PROVE Sums'
  <2>1. /\ value' = value /\ held' = held /\ reap'.step # "post"
        /\ held[reap.worker] = {} /\ \A u \in Worker \ {reap.worker} : pc'[u] = pc[u]
    BY <1>0, <1>12 DEF Spawn, SpawnFails, Goto, Idle, Places, TypeOK
  <2>2. \A s \in Sem : Holders(s)' = Holders(s) /\ LiveHolders(s)' = LiveHolders(s)
    BY <2>1, Zenon DEF Holders, LiveHolders, Alive
  <2> QED  BY <1>0, <2>1, <2>2, SupervisorSums, Zenon
<1>13. ASSUME UNCHANGED vars PROVE Sums'
  BY <1>0, <1>13, QuietSums, Zenon DEF vars, Holders, LiveHolders, Alive
<1>14. Sums'
  BY <1>2, <1>3, <1>4, <1>5, <1>6, <1>7, <1>8, <1>9, <1>10, <1>11, <1>12, <1>13, Zenon
     DEF Next, WorkerStep, Restart, TryConcurrency, TryLoadShed, Sem
<1> QED  BY <1>1, <1>14, Zenon DEF IInv

\* The invariant holds throughout.
LEMMA Inductive == Spec => []IInv
BY InitIInv, NextIInv, PTL DEF Spec

\* The state stays within its types: no semaphore goes negative.
THEOREM TypeCorrect == Spec => []TypeOK
<1>1. IInv => TypeOK
  BY Zenon DEF IInv
<1> QED  BY <1>1, Inductive, PTL

\* Kills at any point of a request, with the supervisor's sem_getvalue and
\* sem_post interleaved with the other workers, never cost the pool a token.
THEOREM TokensSurviveCrashes == Spec => []CapacityNeverLost
<1>1. IInv => CapacityNeverLost
  BY Zenon DEF IInv, Sums
<1> QED  BY <1>1, Inductive, PTL

\* The accept loop never finds a semaphore empty: no read is answered with 503.
THEOREM ReadsNeverRefused == Spec => []NeverShed
<1>1. IInv => NeverShed
  <2> SUFFICES ASSUME IInv, NEW w \in Worker, pc[w] \in Sem
               PROVE  value[pc[w]] > 0
    BY Zenon DEF NeverShed
  <2>1. PICK s \in Sem : s = pc[w]
    BY Zenon
  <2>2. w \notin Holders(s)
    BY <2>1, Zenon DEF IInv, Places, Holders, Sem
  <2>3. Cardinality(Holders(s)) < num_workers /\ Cardinality(Holders(s)) \in Nat
    BY <2>2, HolderSets, WorkerSets, ProperWorkerSets, Zenon
  <2>4. value[s] \in Nat /\ value[s] + Cardinality(Holders(s)) >= num_workers
    BY Zenon DEF IInv, Sums, TypeOK, CapacityNeverLost
  <2> QED  BY <2>1, <2>3, <2>4, PoolSize
<1> QED  BY <1>1, Inductive, PTL

\* Over-restoring is bounded: fewer than two tokens per worker, ever.
THEOREM TokensBounded == Spec => []RestoreBounded
<1>1. IInv => RestoreBounded
  BY Zenon DEF IInv, Sums
<1> QED  BY <1>1, Inductive, PTL

-----------------------------------------------------------------------------
(***************************************************************************)
(* Clients that keep to the half-range rule get every entry they have not  *)
(* seen, for every modulus, counter range, and number of addresses and     *)
(* clients.  The inductive invariant is DeltaTypeOK with StampInv: the     *)
(* stamps and indices are the wrapped images of the unwrapped push counts. *)
(***************************************************************************)

DeltaInv == DeltaTypeOK /\ StampInv

\* The empty cache satisfies the invariant.
LEMMA DeltaInitInv == DeltaInit => DeltaInv
<1> SUFFICES ASSUME DeltaInit PROVE DeltaInv
  BY Zenon
<1> USE IndexAssumption, TimeAssumption
<1>1. DeltaTypeOK
  BY DEF DeltaInit, CacheInit, DeltaTypeOK, CacheTypeOK, HalfRange, AgeCap
<1>2. StampInv
  BY ModSmall DEF DeltaInit, CacheInit, StampInv, Wrapped, UInt
<1> QED
  BY <1>1, <1>2, Zenon DEF DeltaInv

\* A push keeps the types.
LEMMA PushType ==
  ASSUME DeltaTypeOK, NEW a \in Address, NEW v \in Value, ClientPush(a, v)
  PROVE  DeltaTypeOK'
<1> USE IndexAssumption DEF DeltaTypeOK, CacheTypeOK
<1>1. position' \in 0..(W - 1) /\ Wrapped(FetchAdd(position)) \in 0..(M - 1)
  BY IndexRange DEF ClientPush, Push, FetchAdd
<1>2. /\ DOMAIN entries' = DOMAIN entries \cup {a}
      /\ entries'[a] = [value |-> v, timestamp |-> now,
                        pushed_at |-> Wrapped(FetchAdd(position))]
      /\ \A b \in DOMAIN entries : b # a => entries'[b] = entries[b]
  BY Zenon DEF ClientPush, Push, PushEntry
<1>3. \A b \in DOMAIN entries' : entries'[b] \in Entry
  BY <1>1, <1>2 DEF Entry
<1>4. lag' \in [Poller -> 0..HalfRange]
  BY DEF ClientPush, HalfRange
<1>5. age' \in [Address -> 0..AgeCap]
  BY DEF ClientPush, AgeCap
<1> QED
  BY <1>1, <1>2, <1>3, <1>4, <1>5 DEF ClientPush, Push

\* A push keeps stamps and indices equal to the counts.
LEMMA PushStamps ==
  ASSUME DeltaInv, NEW a \in Address, NEW v \in Value, ClientPush(a, v)
  PROVE  StampInv'
<1> USE IndexAssumption DEF DeltaInv, DeltaTypeOK, CacheTypeOK
<1>1. position' = FetchAdd(position) /\ FetchAdd(position) \in 0..(W - 1)
  BY IndexRange DEF ClientPush, Push, FetchAdd
<1>2. /\ DOMAIN entries' = DOMAIN entries \cup {a}
      /\ entries'[a].pushed_at = Wrapped(FetchAdd(position))
      /\ \A b \in DOMAIN entries : b # a => entries'[b] = entries[b]
  BY Zenon DEF ClientPush, Push, PushEntry
<1>3. ASSUME NEW c \in Poller
      PROVE  since'[c] = Wrapped(UInt(position' - lag'[c]))
  <2>1. lag[c] \in Nat /\ lag'[c] = lag[c] + 1 /\ since'[c] = since[c]
    BY DEF ClientPush, HalfRange
  <2> QED
    BY <1>1, <2>1, BackOneMore, Zenon DEF StampInv
<1>4. ASSUME NEW b \in DOMAIN entries', age'[b] < AgeCap
      PROVE  entries'[b].pushed_at = Wrapped(UInt(position' - age'[b]))
  <2>1. CASE b = a
    <3>1. age'[b] = 0
      BY <2>1, Zenon DEF ClientPush
    <3>2. UInt(position' - 0) = position'
      BY <1>1, BackNone, Zenon
    <3> QED
      BY <1>1, <1>2, <2>1, <3>1, <3>2, Zenon
  <2>2. CASE b # a
    <3>1. b \in DOMAIN entries /\ b \in Address /\ entries'[b] = entries[b]
      BY <1>2, <2>2, Zenon
    <3>2. age[b] \in Nat /\ age[b] < AgeCap /\ age'[b] = age[b] + 1
      BY <1>4, <2>2, <3>1 DEF ClientPush, AgeCap
    <3> QED
      BY <1>1, <3>1, <3>2, BackOneMore, Zenon DEF StampInv
  <2> QED
    BY <2>1, <2>2, Zenon
<1> QED
  BY <1>3, <1>4, Zenon DEF StampInv

\* A query sets the index to the current one and the count to zero.
LEMMA PollDeltaInv ==
  ASSUME DeltaInv, NEW c \in Poller, Poll(c)
  PROVE  DeltaInv'
<1> USE IndexAssumption DEF DeltaInv, DeltaTypeOK, CacheTypeOK
<1>1. UNCHANGED <<entries, position, now, age>>
  BY Zenon DEF Poll, cacheVars
<1>2. Wrapped(position) \in 0..(M - 1) /\ UInt(position - 0) = position
  BY IndexRange, BackNone
<1>3. DeltaTypeOK'
  BY <1>1, <1>2 DEF Poll, HalfRange
<1>4. ASSUME NEW d \in Poller
      PROVE  since'[d] = Wrapped(UInt(position' - lag'[d]))
  BY <1>1, <1>2, Zenon DEF Poll, StampInv
<1>5. StampInv'
  BY <1>1, <1>4, Zenon DEF StampInv
<1> QED
  BY <1>3, <1>5, Zenon

\* Every step preserves the invariant.
LEMMA DeltaNextInv == DeltaInv /\ [DeltaNext]_deltaVars => DeltaInv'
<1> SUFFICES ASSUME DeltaInv, [DeltaNext]_deltaVars PROVE DeltaInv'
  BY Zenon
<1>1. ASSUME NEW a \in Address, NEW v \in Value, ClientPush(a, v)
      PROVE  DeltaInv'
  BY <1>1, PushType, PushStamps, Zenon DEF DeltaInv
<1>2. ASSUME NEW c \in Poller, Poll(c)
      PROVE  DeltaInv'
  BY <1>2, PollDeltaInv, Zenon
<1>3. CASE UNCHANGED deltaVars
  BY <1>3, Zenon DEF deltaVars, cacheVars, clientVars, DeltaInv, DeltaTypeOK, CacheTypeOK, StampInv
<1> QED
  BY <1>1, <1>2, <1>3, Zenon DEF DeltaNext

-----------------------------------------------------------------------------

\* The invariant implies that no entry is missed.
LEMMA DeltaInvComplete == DeltaInv => DeltaComplete
<1> SUFFICES ASSUME DeltaInv, NEW c \in Poller, NEW a \in Unseen(c)
             PROVE  a \in Delta(c)
  BY Zenon DEF DeltaComplete
<1> USE IndexAssumption
<1>1. /\ a \in DOMAIN entries /\ a \in Address
      /\ lag[c] \in 0..(M \div 2) /\ age[a] \in 0..(lag[c] - 1) /\ age[a] < AgeCap
      /\ position \in 0..(W - 1)
  BY DEF DeltaInv, DeltaTypeOK, CacheTypeOK, Unseen, HalfRange, AgeCap
<1>2. /\ since[c] = Wrapped(UInt(position - lag[c]))
      /\ entries[a].pushed_at = Wrapped(UInt(position - age[a]))
  BY <1>1, Zenon DEF DeltaInv, StampInv
<1>3. InDelta(entries[a].pushed_at, since[c], Wrapped(position))
  BY <1>1, <1>2, NewEntryInDelta, Zenon
<1> QED
  BY <1>1, <1>3 DEF Delta, DeltaAddresses, TooOld, NoAge

\* The invariant implies that only old entries are repeated.
LEMMA DeltaInvSound == DeltaInv => DeltaSound
<1> SUFFICES ASSUME DeltaInv, NEW c \in Poller,
                    since[c] # 0, ~EpochMismatch(Wrapped(position), since[c]),
                    NEW a \in Delta(c) \ Unseen(c), ~(age[a] >= W % M)
             PROVE  FALSE
  BY Zenon DEF DeltaSound
<1> USE IndexAssumption
<1>1. /\ a \in DOMAIN entries /\ a \in Address
      /\ InDelta(entries[a].pushed_at, since[c], Wrapped(position))
  BY Zenon DEF Delta, DeltaAddresses
<1>2. /\ lag[c] \in 0..(M \div 2) /\ age[a] \in lag[c]..((W % M) - 1)
      /\ position \in 0..(W - 1)
  BY <1>1, IndexRange DEF DeltaInv, DeltaTypeOK, CacheTypeOK, Unseen, HalfRange, AgeCap
<1>3. /\ since[c] = Wrapped(UInt(position - lag[c]))
      /\ entries[a].pushed_at = Wrapped(UInt(position - age[a]))
  BY <1>1, <1>2, IndexRange DEF DeltaInv, StampInv, AgeCap
<1>4. /\ Wrapped(UInt(position - lag[c])) # 0
      /\ ~EpochMismatch(Wrapped(position), Wrapped(UInt(position - lag[c])))
  BY <1>3, Zenon
<1>5. ~InDelta(Wrapped(UInt(position - age[a])), Wrapped(UInt(position - lag[c])),
               Wrapped(position))
  BY <1>2, <1>4, SeenEntryNotInDelta, Zenon
<1> QED
  BY <1>1, <1>3, <1>5, Zenon

\* Type correctness of the cache and its clients.
THEOREM DeltaTypeCorrect == DeltaSpec => []DeltaTypeOK
<1>1. DeltaInv => DeltaTypeOK
  BY Zenon DEF DeltaInv
<1> QED
  BY DeltaInitInv, DeltaNextInv, <1>1, PTL DEF DeltaSpec

\* get_delta loses nothing: DeltaComplete holds for every M, W, set of
\* addresses and set of clients.
THEOREM DeltaNeverLoses == DeltaSpec => []DeltaComplete
  BY DeltaInitInv, DeltaNextInv, DeltaInvComplete, PTL DEF DeltaSpec

\* get_delta repeats only entries last pushed W % M or more pushes ago.
THEOREM DeltaRepeatsOnlyOldEntries == DeltaSpec => []DeltaSound
  BY DeltaInitInv, DeltaNextInv, DeltaInvSound, PTL DEF DeltaSpec

-----------------------------------------------------------------------------
(***************************************************************************)
(* A poll ends in time.  The inductive invariant PollInv bounds what has   *)
(* passed as well, so that no difference of the loop overflows.            *)
(***************************************************************************)

\* The milliseconds of the timeout fit into an int.
Fits == timeout_sec > 0 /\ timeout_sec * Second <= IntMax

PollInv ==
  /\ timeout_sec \in IntRange /\ elapsed \in Nat /\ deadline \in Int
  /\ timeout_sec <= 0 => ~spun /\ pollPc # "waiting"
  /\ Fits => ~spun /\ elapsed <= (timeout_sec + 1) * Second
  /\ (Fits /\ pollPc = "waiting") => deadline < (timeout_sec + 1) * Second

\* Every timeout that a request can poll with is an int.
LEMMA TimeoutsAreInts ==
  ASSUME NEW setting \in Settings, NEW text \in Timeouts
  PROVE  PollTimeouts(setting, text) \subseteq IntRange
<1> USE PollAssumption
<1>1. IntMax \in Nat /\ MaxSec \in 0..IntMax /\ DefaultSec \in 0..IntMax
  <2>1. \A m, s \in Nat : s # 0 => m <= m * s
    OBVIOUS
  <2> QED
    BY <2>1
<1>2. longpoll_timeout(setting) \in IntRange
  <2>1. setting # None => ToInt(setting) \in IntRange
    <3> SUFFICES ASSUME setting # None PROVE ToInt(setting) \in IntRange
      BY Zenon
    <3>1. setting + IntMax + 1 \in Int /\ 2 * (IntMax + 1) \in Nat \ {0}
      BY <1>1
    <3>2. (setting + IntMax + 1) % (2 * (IntMax + 1)) \in 0..(2 * (IntMax + 1) - 1)
      BY <3>1, ModRange, Zenon
    <3> HIDE PollAssumption
    <3> QED
      BY <1>1, <3>2 DEF ToInt, IntRange
  <2> QED
    BY <1>1, <2>1 DEF longpoll_timeout, parse_env_int, IntRange
<1>3. \A t \in parse_timeout(text) : TimeoutOf(t) \in IntRange
  BY <1>1 DEF parse_timeout, TimeoutOf, IntRange
<1> QED
  BY <1>2, <1>3, Zenon DEF PollTimeouts

\* While the loop runs in time, what remains is the exact difference, and the wait ends
\* within the last second.
LEMMA RemainingExact ==
  ASSUME NEW T \in Nat, NEW e \in Nat, NEW S \in Nat \ {0}, e <= (T + 1) * S
  PROVE  /\ e \div S \in 0..(T + 1)
         /\ T - e \div S > 0 =>
              /\ (T - e \div S) * S \in 1..(T * S)
              /\ e + (T - e \div S) * S \in Int
              /\ e + (T - e \div S) * S < (T + 1) * S
<1> DEFINE q == e \div S
           r == e % S
<1>1. r \in 0..(S - 1) /\ q \in Int /\ e = S * q + r
  OBVIOUS
<1> HIDE DEF q, r
<1>2. q >= 0
  <2>1. \A k \in Int : k < 0 => S * k <= -S
    OBVIOUS
  <2> QED
    BY <1>1, <2>1
<1>3. q <= T + 1
  <2>1. q > T + 1 => S * q >= S * (T + 2)
    BY <1>1, <1>2
  <2>2. S * (T + 2) = (T + 1) * S + S
    OBVIOUS
  <2> QED
    BY <1>1, <2>1, <2>2
<1>4. ASSUME T - q > 0
      PROVE  /\ (T - q) * S \in 1..(T * S)
             /\ e + (T - q) * S \in Int
             /\ e + (T - q) * S < (T + 1) * S
  <2>1. (T - q) * S = T * S - S * q /\ (T + 1) * S = T * S + S
    BY <1>1
  <2>2. S * q \in Nat /\ T * S \in Nat
    BY <1>1, <1>2
  <2>3. (T - q) * S >= 1 /\ (T - q) * S \in Int
    BY <1>1, <1>4
  <2> QED
    BY <1>1, <2>1, <2>2, <2>3
<1> QED
  BY <1>1, <1>2, <1>3, <1>4 DEF q

\* What the loop computes is an int, overflow or not.
LEMMA LoopInts ==
  ASSUME PollInv, NEW remaining \in Remaining
  PROVE  remaining \in Int /\ IntResult(remaining * Second) \subseteq Int
<1>1. \A x \in Int : IntResult(x) \subseteq Int
  BY PollAssumption DEF IntResult, IntRange
<1>2. timeout_sec - elapsed \div Second \in Int
  BY PollAssumption DEF PollInv, IntRange
<1>3. remaining \in Int
  BY <1>1, <1>2, Zenon DEF Remaining
<1>4. remaining * Second \in Int
  BY <1>3, PollAssumption
<1> QED
  BY <1>1, <1>3, <1>4, Zenon

\* What the loop computes for a timeout that fits.
LEMMA LoopTurn ==
  ASSUME PollInv, Fits, NEW remaining \in Remaining, remaining > 0,
         NEW timeout_ms \in IntResult(remaining * Second)
  PROVE  /\ timeout_ms > 0 /\ elapsed + timeout_ms \in Int
         /\ elapsed + timeout_ms < (timeout_sec + 1) * Second
<1> USE PollAssumption
<1>1. timeout_sec \in Nat /\ elapsed \in Nat /\ Second \in Nat \ {0} /\ IntMax \in Nat
      /\ elapsed <= (timeout_sec + 1) * Second /\ timeout_sec * Second \in 0..IntMax
  BY DEF PollInv, Fits, IntRange
<1>2. timeout_sec <= IntMax
  BY DEF PollInv, IntRange
<1> HIDE PollAssumption
<1>3. elapsed \div Second \in 0..(timeout_sec + 1)
  BY <1>1, RemainingExact, Zenon
<1>4. remaining = timeout_sec - elapsed \div Second
  BY <1>1, <1>2, <1>3 DEF Remaining, IntResult, IntRange
<1>5. /\ remaining * Second \in 1..(timeout_sec * Second)
      /\ elapsed + remaining * Second \in Int
      /\ elapsed + remaining * Second < (timeout_sec + 1) * Second
  BY <1>1, <1>4, RemainingExact, Zenon
<1>6. timeout_ms = remaining * Second
  BY <1>1, <1>5 DEF IntResult, IntRange
<1> QED
  BY <1>1, <1>5, <1>6

\* A poll begins in the invariant.
LEMMA PollInitInv == PollInit \/ PollNone => PollInv
<1> SUFFICES ASSUME PollInit \/ PollNone PROVE PollInv
  BY Zenon
<1>1. timeout_sec \in IntRange
  BY TimeoutsAreInts, PollAssumption DEF PollInit, PollNone, IntRange
<1>2. elapsed = 0 /\ deadline = 0 /\ spun = FALSE /\ pollPc # "waiting"
  BY Zenon DEF PollInit, PollNone
<1>3. Fits => 0 <= (timeout_sec + 1) * Second
  BY <1>1, PollAssumption DEF Fits, IntRange
<1> QED
  BY <1>1, <1>2, <1>3 DEF PollInv

\* Every step of a poll keeps it.
LEMMA PollNextInv == PollInv /\ [PollNext]_pollVars => PollInv'
<1> SUFFICES ASSUME PollInv, [PollNext]_pollVars PROVE PollInv'
  BY Zenon
<1>1. CASE PollLeave
  BY <1>1, Zenon DEF PollLeave, PollInv, Fits
<1>2. CASE PollWait
  <2>1. PICK remaining \in Remaining : remaining > 0 /\
          \E timeout_ms \in IntResult(remaining * Second) :
            timeout_ms > 0 /\ deadline' = elapsed + timeout_ms
    BY <1>2, Zenon DEF PollWait
  <2>2. PICK timeout_ms \in IntResult(remaining * Second) :
          timeout_ms > 0 /\ deadline' = elapsed + timeout_ms
    BY <2>1, Zenon
  <2>3. timeout_ms \in Int
    BY LoopInts, Zenon
  <2>4. deadline' \in Int
    BY <2>2, <2>3 DEF PollInv
  <2>5. Fits => deadline' < (timeout_sec + 1) * Second
    BY <2>1, <2>2, LoopTurn, Zenon
  <2>6. Fits' <=> Fits
    BY <1>2, Zenon DEF PollWait, Fits
  <2>7. ~(timeout_sec <= 0)
    BY <1>2, PollAssumption DEF PollWait, PollInv, IntRange
  <2> QED
    BY <1>2, <2>4, <2>5, <2>6, <2>7, Zenon DEF PollWait, PollInv
<1>3. ASSUME NEW pushed \in BOOLEAN, PollNoWait(pushed) PROVE PollInv'
  <2>1. ~Fits
    <3> SUFFICES ASSUME Fits PROVE FALSE
      BY Zenon
    <3>1. PICK remaining \in Remaining : remaining > 0 /\
            \E timeout_ms \in IntResult(remaining * Second) : timeout_ms <= 0
      BY <1>3, Zenon DEF PollNoWait
    <3>2. PICK timeout_ms \in IntResult(remaining * Second) : timeout_ms <= 0
      BY <3>1, Zenon
    <3>3. timeout_ms > 0 /\ elapsed + timeout_ms \in Int
      BY <3>1, LoopTurn, Zenon
    <3>4. timeout_ms \in Int
      BY LoopInts, Zenon
    <3> QED
      BY <3>2, <3>3, <3>4
  <2>2. pollPc' # "waiting" /\ timeout_sec > 0
    BY <1>3, Zenon DEF PollNoWait
  <2> QED
    BY <1>3, <2>1, <2>2, PollAssumption DEF PollNoWait, PollInv, Fits, IntRange
<1>4. ASSUME NEW mine \in BOOLEAN, PollWoken(mine) PROVE PollInv'
  BY <1>4 DEF PollWoken, PollInv, Fits
<1>5. CASE PollTimedOut
  BY <1>5 DEF PollTimedOut, PollInv, Fits
<1>6. CASE PollTick
  <2>1. elapsed' \in Nat
    BY <1>6 DEF PollTick, PollInv
  <2>2. Fits => elapsed' <= (timeout_sec + 1) * Second
    <3> SUFFICES ASSUME Fits PROVE elapsed' <= (timeout_sec + 1) * Second
      BY Zenon
    <3>1. timeout_sec * Second \in Int /\ (timeout_sec + 1) * Second = timeout_sec * Second + Second
      BY PollAssumption DEF PollInv, IntRange
    <3>2. Second \in Nat \ {0}
      BY PollAssumption, Zenon
    <3> QED
      BY <1>6, <3>1, <3>2 DEF PollTick, PollInv
  <2> QED
    BY <1>6, <2>1, <2>2, Zenon DEF PollTick, PollInv, Fits
<1>7. CASE PollAnswer
  BY <1>7, PollAssumption DEF PollAnswer, PollInv, Fits, IntRange
<1>8. CASE UNCHANGED pollVars
  BY <1>8, Zenon DEF pollVars, PollInv, Fits
<1> QED
  BY <1>1, <1>2, <1>3, <1>4, <1>5, <1>6, <1>7, <1>8, Zenon DEF PollNext

\* A poll whose milliseconds fit into an int sleeps on each turn of the loop of
\* handle_read, and its last wait ends less than a second after its timeout: for every
\* width of int and every setting.
THEOREM PollsEndInTime == PollSpec => []PollsInTime
<1>1. PollInv => PollsInTime
  BY PollAssumption DEF PollInv, PollsInTime, Fits, IntRange
<1> QED
  BY PollInitInv, PollNextInv, <1>1, PTL DEF PollSpec
=============================================================================
