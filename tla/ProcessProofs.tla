------------------------------- MODULE ProcessProofs -------------------------------
(***************************************************************************)
(* Proofs about the processes of the server: the parent and its children,  *)
(* the delays before it restarts one, and the sessions each worker keeps.  *)
(***************************************************************************)
EXTENDS Supervisor, RestartBackoff, SessionStore, FiniteSetTheorems, TLAPS

(***************************************************************************)
(* The supervisor, for every number of workers, deaths and SIGTERMs, and   *)
(* the restart delays for every set of children and all delays.            *)
(*                                                                         *)
(* The invariant of the processes is Registered: the parent knows the pid  *)
(* of every child that lives.  A slot is filled again only when the child  *)
(* it named is dead (Vacant), so no child is ever dropped from the table,  *)
(* and the loop over the table at shutdown reaches them all.               *)
(***************************************************************************)

Fields == {"slot", "life", "pending", "told", "flag"}

Shaped ==
  /\ slot \in Nat
  /\ pids \in [Slot -> Nat] /\ forked \in Nat
  /\ proc = [p \in Pid |-> proc[p]]
  /\ \A p \in Pid : DOMAIN proc[p] = Fields /\ proc[p].slot \in Slot

Registered == \A p \in Pid : Living(p) => pids[proc[p].slot] = p

\* While the table is filled for the first time, the slots from here on have no child.
Filling == pc = "start" => \A p \in Pid : Living(p) => proc[p].slot < slot

Vacant ==
  pc \in {"reaped", "respawn"} =>
    slot \in Slot /\ \A p \in Pid : Living(p) => proc[p].slot # slot

Abandoned == pc = "stop" /\ ~requested => \A p \in Pid : ~Living(p)

\* The loop over the table has told the children in the slots before this one.
Telling == pc = "kill" => \A p \in Pid : Living(p) /\ proc[p].slot < slot => proc[p].told

PoolInv ==
  Shaped /\ Registered /\ Filling /\ Vacant /\ Abandoned /\ Telling /\ NoneForgotten

\* A step in which no process is added, none moves, and none told is untold.
NoNewProcess ==
  /\ proc' = [p \in Pid |-> proc'[p]]
  /\ \A p \in Pid : /\ DOMAIN proc'[p] = Fields
                    /\ proc'[p].slot = proc[p].slot
                    /\ Living(p)' => Living(p)
                    /\ proc[p].told => proc'[p].told

\* Every step but a fork adds no process.
LEMMA OnlyForkAdds ==
  ASSUME Shaped
  PROVE  /\ UNCHANGED proc => NoNewProcess
         /\ \A p \in Pid : (Reap(p) \/ Drain(p) \/ ChildStep(p) \/ Die(p)) => NoNewProcess
         /\ proc' = Orphaned => NoNewProcess
         /\ KillNext => NoNewProcess
<1>1. ASSUME UNCHANGED proc PROVE NoNewProcess
  BY <1>1, Zenon DEF NoNewProcess, Shaped, Living
<1>2. ASSUME NEW p \in Pid, proc' = [proc EXCEPT ![p].life = "reaped"], Zombie(p)
      PROVE  NoNewProcess
  BY <1>2, Zenon DEF NoNewProcess, Shaped, Living, Zombie, Fields
<1>3. ASSUME NEW p \in Pid, proc' = [proc EXCEPT ![p].life = "zombie", ![p].pending = FALSE]
      PROVE  NoNewProcess
  BY <1>3, Zenon DEF NoNewProcess, Shaped, Living, Fields
<1>4. ASSUME NEW p \in Pid, ChildStarts(p) PROVE NoNewProcess
  BY <1>4, Zenon DEF ChildStarts, NoNewProcess, Shaped, Living, Fields
<1>5. ASSUME NEW p \in Pid, Deliver(p) PROVE NoNewProcess
  BY <1>5, Zenon DEF Deliver, NoNewProcess, Shaped, Living, Fields
<1>6. ASSUME proc' = Orphaned PROVE NoNewProcess
  BY <1>6, Zenon DEF Orphaned, NoNewProcess, Shaped, Living, Fields
<1>7. ASSUME KillNext PROVE NoNewProcess
  <2>1. CASE pids[slot] # 0 /\ pids[slot] \in Pid
    BY <1>7, <2>1, ZenonT(60) DEF KillNext, NoNewProcess, Shaped, Living, Fields
  <2>2. CASE pids[slot] = 0
    BY <1>1, <1>7, <2>2, Zenon DEF KillNext
  <2>3. CASE pids[slot] # 0 /\ pids[slot] \notin Pid
    BY <1>7, <2>3, Zenon DEF KillNext, NoNewProcess, Shaped, Living
  <2> QED
    BY <2>1, <2>2, <2>3, SMTT(30)
<1> QED
  BY <1>1, <1>2, <1>3, <1>4, <1>5, <1>6, <1>7, Zenon
     DEF Reap, Drain, ChildStep, ReaderStops, Die

\* What such a step keeps of the invariant, whatever the parent does next.
LEMMA NoNewProcessKeeps ==
  ASSUME PoolInv, NoNewProcess, UNCHANGED <<pids, forked>>, slot' \in Nat
  PROVE  Shaped' /\ Registered'
  BY Zenon DEF PoolInv, Shaped, Registered, NoNewProcess

\* A fork into a slot without a child.
LEMMA ForkKeeps ==
  ASSUME PoolInv, Fork(slot), slot \in Slot, slot' \in Nat,
         \A p \in Pid : Living(p) => proc[p].slot # slot
  PROVE  /\ Shaped' /\ Registered'
         /\ \A p \in Pid : Living(p)' => \/ Living(p) /\ proc'[p].slot = proc[p].slot
                                         \/ proc'[p].slot = slot
<1> DEFINE new == [NoProcess EXCEPT !.slot = slot, !.life = "fresh", !.flag = requested]
<1>1. DOMAIN new = Fields /\ new.slot = slot
  BY Zenon DEF NoProcess, Fields
<1> HIDE DEF new
<1>2. /\ forked' = forked + 1
      /\ pids' = [pids EXCEPT ![slot] = forked']
      /\ proc' = [proc EXCEPT ![forked'] = new]
  BY Zenon DEF Fork, new
<1>3. \A p \in Pid : proc'[p] = IF p = forked' THEN new ELSE proc[p]
  BY <1>2, Zenon DEF PoolInv, Shaped
<1>4. Shaped'
  BY <1>1, <1>2, <1>3 DEF PoolInv, Shaped
<1>5. \A p \in Pid : Living(p)' => \/ Living(p) /\ proc'[p].slot = proc[p].slot
                                   \/ proc'[p].slot = slot
  BY <1>1, <1>3, Zenon DEF Living
<1>6. Registered'
  <2> SUFFICES ASSUME NEW p \in Pid, Living(p)' PROVE pids'[proc'[p].slot] = p
    BY Zenon DEF Registered
  <2>1. CASE p = forked'
    BY <1>1, <1>2, <1>3, <2>1, Zenon DEF PoolInv, Shaped
  <2>2. CASE p # forked'
    <3>1. proc'[p] = proc[p] /\ Living(p)
      BY <1>3, <2>2, Zenon DEF Living
    <3> QED
      BY <1>2, <3>1, Zenon DEF PoolInv, Shaped, Registered
  <2> QED
    BY <2>1, <2>2, Zenon
<1> QED
  BY <1>4, <1>5, <1>6, Zenon

\* A step of the parent that adds no process, apart from the loop over the table.
LEMMA ParentKeeps ==
  ASSUME PoolInv,
         StartForkFails \/ Started \/ Check \/ Block \/ NoChildren \/ Reaped
           \/ Stop \/ KilledAll \/ DrainBlock \/ Drained
  PROVE  PoolInv'
<1>1. NoNewProcess /\ UNCHANGED <<pids, forked>> /\ slot' \in Nat
  <2>1. Shaped
    BY Zenon DEF PoolInv
  <2>2. UNCHANGED proc \/ proc' = Orphaned
    BY Zenon DEF StartForkFails, Started, Check, Block, NoChildren, Reaped, Stop, KilledAll,
           DrainBlock, Drained
  <2> QED
    BY <2>1, <2>2, OnlyForkAdds
       DEF StartForkFails, Started, Check, Block, NoChildren, Reaped, Stop, KilledAll,
           DrainBlock, Drained, Shaped
<1>2. Shaped' /\ Registered'
  BY <1>1, NoNewProcessKeeps, Zenon
<1>3. Filling' /\ Vacant' /\ Abandoned' /\ Telling' /\ NoneForgotten'
  <2>0. /\ \A p \in Pid : Living(p)' => Living(p)
        /\ \A p \in Pid : proc[p].told => proc'[p].told
        /\ \A p \in Pid : proc'[p].slot = proc[p].slot /\ proc[p].slot \in 0..NumWorkers
        /\ \A p \in Pid : proc[p].slot \in Nat /\ slot \in Nat /\ NumWorkers \in Nat
    BY <1>1, SupervisorAssumption DEF NoNewProcess, PoolInv, Shaped, Slot
  <2> USE DEF Filling, Vacant, Abandoned, Telling, NoneForgotten, PoolInv
  <2>1. CASE StartForkFails
    BY <2>0, <2>1 DEF StartForkFails, Reader
  <2>2. CASE Started
    BY <2>0, <2>2, Zenon DEF Started
  <2>3. CASE Check
    BY <2>0, <2>3, Zenon DEF Check
  <2>4. CASE Block
    BY <2>0, <2>4, Zenon DEF Block
  <2>5. CASE NoChildren
    BY <2>0, <2>5, Zenon DEF NoChildren, Childless
  <2>6. CASE Reaped
    BY <2>0, <2>6, Zenon DEF Reaped
  <2>7. CASE Stop
    BY <2>0, <2>7 DEF Stop
  <2>8. CASE KilledAll
    BY <2>0, <2>8 DEF KilledAll
  <2>9. CASE DrainBlock
    BY <2>0, <2>9, Zenon DEF DrainBlock
  <2>10. CASE Drained
    BY <2>0, <2>10, Zenon DEF Drained
  <2> QED
    BY <2>1, <2>2, <2>3, <2>4, <2>5, <2>6, <2>7, <2>8, <2>9, <2>10, Zenon
<1> QED
  BY <1>2, <1>3, Zenon DEF PoolInv

\* The forks: the first ones, and those that replace a dead child.
LEMMA ForksKeep ==
  ASSUME PoolInv, StartFork \/ Respawn
  PROVE  PoolInv'
<1> USE DEF Filling, Vacant, Abandoned, Telling, NoneForgotten
<1>0. slot \in Nat /\ NumWorkers \in Nat
  BY SupervisorAssumption, Zenon DEF PoolInv, Shaped
<1>1. CASE StartFork
  <2>1. /\ slot \in Slot /\ slot' = slot + 1 /\ Fork(slot) /\ pc = "start" /\ pc' = "start"
    BY <1>0, <1>1 DEF StartFork, Slot
  <2>2. \A p \in Pid : Living(p) => proc[p].slot < slot /\ proc[p].slot \in Nat
    BY <2>1 DEF PoolInv, Shaped, Slot
  <2>3. /\ Shaped' /\ Registered'
        /\ \A p \in Pid : Living(p)' => \/ Living(p) /\ proc'[p].slot = proc[p].slot
                                        \/ proc'[p].slot = slot
    BY <1>0, <2>1, <2>2, ForkKeeps
  <2>4. Filling'
    BY <1>0, <2>1, <2>2, <2>3
  <2> QED
    BY <2>1, <2>3, <2>4, Zenon DEF PoolInv
<1>2. CASE Respawn
  <2>1. slot' = 0 /\ Fork(slot) /\ pc = "respawn" /\ pc' = "check"
    BY <1>2, Zenon DEF Respawn
  <2>2. slot \in Slot /\ \A p \in Pid : Living(p) => proc[p].slot # slot
    BY <2>1, Zenon DEF PoolInv
  <2>3. Shaped' /\ Registered'
    BY <2>1, <2>2, ForkKeeps, Zenon
  <2> QED
    BY <2>1, <2>3, Zenon DEF PoolInv
<1> QED
  BY <1>1, <1>2, Zenon

\* A fork that fails leaves the slot without a child.
LEMMA RespawnFailsKeeps ==
  ASSUME PoolInv, RespawnFails
  PROVE  PoolInv'
<1>1. /\ pc = "respawn" /\ pc' = "check" /\ slot' = 0
      /\ pids' = [pids EXCEPT ![slot] = 0] /\ UNCHANGED <<proc, forked>>
  BY Zenon DEF RespawnFails
<1>2. slot \in Slot /\ \A p \in Pid : Living(p) => proc[p].slot # slot
  BY <1>1, Zenon DEF PoolInv, Vacant
<1>3. Shaped'
  BY <1>1, Zenon DEF PoolInv, Shaped
<1>4. Registered'
  BY <1>1, <1>2, Zenon DEF PoolInv, Shaped, Registered, Living
<1> QED
  BY <1>1, <1>3, <1>4, Zenon
     DEF PoolInv, Filling, Vacant, Abandoned, Telling, NoneForgotten

\* kill() for the next slot of the table: the child of that slot, if one lives, is
\* the process the table names.
LEMMA KillNextKeeps ==
  ASSUME PoolInv, KillNext
  PROVE  PoolInv'
<1>1. /\ pc = "kill" /\ pc' = "kill" /\ slot' = slot + 1 /\ slot \in Nat /\ slot \in Slot
      /\ UNCHANGED <<pids, forked>>
  BY SupervisorAssumption DEF KillNext, PoolInv, Shaped, Slot
<1>2. NoNewProcess
  BY OnlyForkAdds, Zenon DEF PoolInv
<1>3. Shaped' /\ Registered'
  BY <1>1, <1>2, NoNewProcessKeeps
<1>4. Telling'
  <2> SUFFICES ASSUME NEW p \in Pid, Living(p)', proc'[p].slot < slot'
               PROVE  proc'[p].told
    BY <1>1, Zenon DEF Telling
  <2>1. /\ Living(p) /\ proc'[p].slot = proc[p].slot /\ proc[p].slot \in Nat
        /\ proc[p].told => proc'[p].told
    BY <1>2 DEF NoNewProcess, PoolInv, Shaped, Slot
  <2>2. CASE proc[p].slot < slot
    BY <1>1, <2>1, <2>2, Zenon DEF PoolInv, Telling
  <2>3. CASE proc[p].slot = slot
    <3>1. pids[slot] = p /\ p # 0
      BY <2>1, <2>3 DEF PoolInv, Registered, Pid
    <3>2. proc' = [proc EXCEPT ![p].pending = Living(p), ![p].told = TRUE]
      BY <3>1, Zenon DEF KillNext
    <3>3. proc'[p].told = TRUE
      BY <3>2, Zenon DEF PoolInv, Shaped, Fields
    <3> QED
      BY <3>3, Zenon
  <2> QED
    BY <1>1, <2>1, <2>2, <2>3
<1> QED
  BY <1>1, <1>3, <1>4, Zenon DEF PoolInv, Filling, Vacant, Abandoned, NoneForgotten

\* wait() returns a dead child: the slot that named it has no child any more.
LEMMA ReapKeeps ==
  ASSUME PoolInv, NEW p \in Pid, Reap(p)
  PROVE  PoolInv'
<1>1. /\ pc \in {"wait", "blocked"} /\ Zombie(p) /\ UNCHANGED <<pids, forked>>
      /\ pc' \in {"reaped", "check"} /\ NoNewProcess
  BY OnlyForkAdds, Zenon DEF Reap, PoolInv
<1>2. CASE \E s \in Slot : pids[s] = p
  <2>1. pc' = "reaped" /\ slot' \in Slot /\ pids[slot'] = p
    BY <1>2, Zenon DEF Reap
  <2>2. slot' \in Nat
    BY <2>1, SupervisorAssumption DEF Slot
  <2>3. Shaped' /\ Registered'
    BY <1>1, <2>2, NoNewProcessKeeps, Zenon
  <2>4. ASSUME NEW q \in Pid, Living(q)' PROVE proc'[q].slot # slot'
    <3>1. Living(q) /\ proc'[q].slot = proc[q].slot
      BY <1>1, <2>4, Zenon DEF NoNewProcess
    <3>2. q # p /\ pids[proc[q].slot] = q
      BY <1>1, <3>1, Zenon DEF Living, Zombie, PoolInv, Registered
    <3> QED
      BY <2>1, <3>1, <3>2, Zenon
  <2> QED
    BY <2>1, <2>3, <2>4, Zenon
       DEF PoolInv, Filling, Vacant, Abandoned, Telling, NoneForgotten
<1>3. CASE ~\E s \in Slot : pids[s] = p
  <2>1. pc' = "check" /\ slot' = slot /\ slot' \in Nat
    BY <1>3, Zenon DEF Reap, PoolInv, Shaped
  <2>2. Shaped' /\ Registered'
    BY <1>1, <2>1, NoNewProcessKeeps, Zenon
  <2> QED
    BY <2>1, <2>2, Zenon DEF PoolInv, Filling, Vacant, Abandoned, Telling, NoneForgotten
<1> QED
  BY <1>2, <1>3, Zenon

\* The last loop, SIGTERM, and the steps of the children.
LEMMA RestKeeps ==
  ASSUME PoolInv,
         Sigterm \/ UNCHANGED vars \/ \E p \in Pid : Drain(p) \/ ChildStep(p) \/ Die(p)
  PROVE  PoolInv'
<1>1. NoNewProcess
  <2>1. Shaped
    BY Zenon DEF PoolInv
  <2>2. CASE Sigterm
    BY <2>1, <2>2, OnlyForkAdds, Zenon DEF Sigterm
  <2>3. CASE UNCHANGED vars
    BY <2>1, <2>3, OnlyForkAdds, SMTT(30) DEF vars
  <2> QED
    BY <2>1, <2>2, <2>3, OnlyForkAdds, Zenon
<1>2. UNCHANGED <<pids, forked, slot>>
  BY ZenonT(60) DEF Sigterm, vars, Drain, ChildStep, ChildStarts, Deliver, ReaderStops, Die
<1>3. /\ \/ pc' = pc
         \/ pc = "blocked" /\ pc' = "check"
         \/ pc \in {"drain", "drain_blocked"} /\ pc' \in {"drain", "exited"}
      /\ requested' = requested \/ requested' = TRUE
  BY Zenon DEF Sigterm, vars, Drain, ChildStep, ChildStarts, Deliver, ReaderStops, Die
<1>4. Shaped' /\ Registered'
  BY <1>1, <1>2, NoNewProcessKeeps, Zenon DEF PoolInv, Shaped
<1>5. Filling' /\ Vacant' /\ Telling' /\ NoneForgotten'
  BY <1>1, <1>2, <1>3, Zenon DEF NoNewProcess, PoolInv, Filling, Vacant, Telling, NoneForgotten
<1>6. Abandoned'
  BY <1>1, <1>3 DEF NoNewProcess, PoolInv, Abandoned
<1> QED
  BY <1>4, <1>5, <1>6, Zenon DEF PoolInv

\* The invariant holds when the parent starts.
LEMMA InitPoolInv == Init => PoolInv
<1> SUFFICES ASSUME Init PROVE PoolInv
  BY Zenon
<1>1. NoProcess.slot \in Slot /\ NoProcess.life = "none" /\ DOMAIN NoProcess = Fields
  BY SupervisorAssumption DEF NoProcess, Reader, Slot, Fields
<1>2. Shaped
  BY <1>1, Zenon DEF Init, Shaped
<1>3. \A p \in Pid : ~Living(p)
  BY <1>1, Zenon DEF Init, Living
<1> QED
  BY <1>2, <1>3, Zenon
     DEF Init, PoolInv, Registered, Filling, Vacant, Abandoned, Telling, NoneForgotten

\* Every step keeps the invariant.
LEMMA NextPoolInv == PoolInv /\ [Next]_vars => PoolInv'
  BY ParentKeeps, ForksKeep, RespawnFailsKeeps, KillNextKeeps, ReapKeeps, RestKeeps, Zenon
     DEF Next, ParentStep

\* No slot has two living processes, however children die and are replaced.
THEOREM SlotsHaveOneProcess == Spec => []OnePerSlot
<1>1. PoolInv => OnePerSlot
  BY Zenon DEF PoolInv, Registered, OnePerSlot
<1> QED
  BY <1>1, InitPoolInv, NextPoolInv, PTL DEF Spec

\* The table names no process twice, and a child that was reaped only as long as the
\* parent has not replaced it.
TableInv ==
  /\ \A s \in Slot : pids[s] <= forked
  /\ \A s, t \in Slot : pids[s] # 0 /\ pids[s] = pids[t] => s = t
  /\ pc \in {"start", "check", "wait", "blocked"} => \A s \in Slot : ~Stale(s)
  /\ pc \in {"reaped", "respawn"} => \A s \in Slot : Stale(s) => s = slot
  /\ pc \in {"stop", "kill"} => \A s, t \in Slot : Stale(s) /\ Stale(t) => s = t

\* Only wait() makes a pid stale.
LEMMA OnlyWaitReaps ==
  ASSUME Shaped, NEW p \in Pid, proc'[p].life = "reaped",
         UNCHANGED proc \/ proc' = Orphaned \/ KillNext
           \/ \E q \in Pid : ChildStep(q) \/ Die(q)
  PROVE  proc[p].life = "reaped"
<1>1. CASE UNCHANGED proc
  BY <1>1, Zenon
<1>2. CASE proc' = Orphaned
  BY <1>2, Zenon DEF Orphaned, Shaped, Fields
<1>3. CASE KillNext
  <2>1. CASE pids[slot] # 0 /\ pids[slot] \in Pid
    BY <1>3, <2>1, ZenonT(60) DEF KillNext, Shaped, Fields
  <2>2. CASE pids[slot] = 0
    BY <1>3, <2>2, Zenon DEF KillNext
  <2>3. CASE pids[slot] # 0 /\ pids[slot] \notin Pid
    BY <1>3, <2>3, Zenon DEF KillNext, Shaped
  <2> QED
    BY <2>1, <2>2, <2>3, SMTT(30)
<1>4. ASSUME NEW q \in Pid, ChildStarts(q) \/ Deliver(q) \/ ReaderStops(q) \/ Die(q)
      PROVE  proc[p].life = "reaped"
  <2>1. CASE ChildStarts(q)
    BY <2>1, Zenon DEF ChildStarts, Shaped, Fields
  <2>2. CASE Deliver(q)
    BY <2>2, Zenon DEF Deliver, Shaped, Fields
  <2>3. CASE ReaderStops(q) \/ Die(q)
    <3>1. proc' = [proc EXCEPT ![q].life = "zombie", ![q].pending = FALSE]
      BY <2>3, Zenon DEF ReaderStops, Die
    <3>2. proc'[q].life = "zombie" /\ (p # q => proc'[p] = proc[p])
      BY <3>1, Zenon DEF Shaped, Fields
    <3> QED
      BY <3>2, Zenon
  <2> QED
    BY <1>4, <2>1, <2>2, <2>3, Zenon
<1> QED
  BY <1>1, <1>2, <1>3, <1>4, Zenon DEF ChildStep

\* A step that leaves the table alone and reaps nobody adds no stale pid.
LEMMA StaleStays ==
  ASSUME Shaped, UNCHANGED pids, NEW s \in Slot, Stale(s)',
         UNCHANGED proc \/ proc' = Orphaned \/ KillNext
           \/ \E q \in Pid : ChildStep(q) \/ Die(q)
  PROVE  Stale(s)
<1>1. PICK p \in Pid : pids'[s] = p /\ proc'[p].life = "reaped"
  BY Zenon DEF Stale
<1>2. proc[p].life = "reaped"
  BY <1>1, OnlyWaitReaps, Zenon
<1> QED
  BY <1>1, <1>2, Zenon DEF Stale

\* The steps that neither fork nor reap.
LEMMA TableLeft ==
  ASSUME PoolInv, TableInv,
         StartForkFails \/ Started \/ Check \/ Block \/ NoChildren \/ Reaped \/ Stop
           \/ KillNext \/ KilledAll \/ DrainBlock \/ Drained \/ Sigterm \/ UNCHANGED vars
           \/ \E p \in Pid : ChildStep(p) \/ Die(p)
  PROVE  TableInv'
<1>1. Shaped
  BY Zenon DEF PoolInv
<1>2. UNCHANGED <<pids, forked>>
  BY ZenonT(60) DEF StartForkFails, Started, Check, Block, NoChildren, Reaped, Stop, KillNext,
     KilledAll, DrainBlock, Drained, Sigterm, vars, ChildStep, ChildStarts, Deliver,
     ReaderStops, Die
<1>3. UNCHANGED proc \/ proc' = Orphaned \/ KillNext \/ \E q \in Pid : ChildStep(q) \/ Die(q)
  BY ZenonT(60) DEF StartForkFails, Started, Check, Block, NoChildren, Reaped, Stop, KilledAll,
     DrainBlock, Drained, Sigterm, vars
<1>4. \A s \in Slot : Stale(s)' => Stale(s)
  BY <1>1, <1>2, <1>3, StaleStays, Zenon
<1>5. \/ pc' = pc /\ (pc \in {"reaped", "respawn"} => slot' = slot)
      \/ pc \in {"start", "check", "wait", "blocked"}
           /\ pc' \in {"check", "wait", "blocked", "stop", "kill", "exited"}
      \/ pc = "reaped" /\ pc' \in {"respawn", "stop"} /\ slot' = slot
      \/ pc = "stop" /\ pc' \in {"kill", "exited"}
      \/ pc' \in {"drain", "drain_blocked", "exited"}
  BY ZenonT(60) DEF StartForkFails, Started, Check, Block, NoChildren, Reaped, Stop, KillNext,
     KilledAll, DrainBlock, Drained, Sigterm, vars, ChildStep, ChildStarts, Deliver,
     ReaderStops, Die
<1> QED
  BY <1>2, <1>4, <1>5 DEF TableInv

\* A fork puts a new pid into the slot it fills, and a fork that fails none.
LEMMA TableFilled ==
  ASSUME PoolInv, TableInv, StartFork \/ Respawn \/ RespawnFails
  PROVE  TableInv'
<1>1. /\ forked \in Nat /\ pids \in [Slot -> Nat]
      /\ pc \in {"start", "respawn"} /\ pc' \in {"start", "check"}
      /\ slot \in Slot
  BY SupervisorAssumption
     DEF StartFork, Respawn, RespawnFails, PoolInv, Shaped, Vacant, Slot
<1>2. \A s \in Slot : Stale(s) => s = slot
  BY <1>1, Zenon DEF TableInv
<1>3. CASE Fork(slot)
  <2>1. forked' = forked + 1 /\ pids' = [pids EXCEPT ![slot] = forked']
    BY <1>3, Zenon DEF Fork
  <2>2. ASSUME NEW p \in Pid, proc'[p].life = "reaped" PROVE p # forked' /\ proc[p].life = "reaped"
    <3>1. [NoProcess EXCEPT !.slot = slot, !.life = "fresh", !.flag = requested].life = "fresh"
      BY Zenon DEF NoProcess
    <3> QED
      BY <1>3, <2>2, <3>1, Zenon DEF Fork, PoolInv, Shaped
  <2>3. \A s \in Slot : ~Stale(s)'
    BY <1>1, <1>2, <2>1, <2>2, Zenon DEF Stale
  <2>4. /\ \A s \in Slot : pids'[s] <= forked'
        /\ \A s, t \in Slot : pids'[s] # 0 /\ pids'[s] = pids'[t] => s = t
    BY <1>1, <2>1 DEF TableInv
  <2> QED
    BY <1>1, <2>3, <2>4 DEF TableInv
<1>4. CASE RespawnFails
  <2>1. pids' = [pids EXCEPT ![slot] = 0] /\ UNCHANGED <<proc, forked>>
    BY <1>4, Zenon DEF RespawnFails
  <2>2. \A s \in Slot : ~Stale(s)'
    BY <1>1, <1>2, <2>1 DEF Stale, Pid
  <2>3. /\ \A s \in Slot : pids'[s] <= forked'
        /\ \A s, t \in Slot : pids'[s] # 0 /\ pids'[s] = pids'[t] => s = t
    BY <1>1, <2>1 DEF TableInv
  <2> QED
    BY <1>1, <2>2, <2>3 DEF TableInv
<1> QED
  BY <1>3, <1>4, Zenon DEF StartFork, Respawn

\* wait() makes one pid stale, that of the slot the parent turns to; in the last loop
\* it may make them all so.
LEMMA TableReaped ==
  ASSUME PoolInv, TableInv, NEW p \in Pid, Reap(p) \/ Drain(p)
  PROVE  TableInv'
<1>1. UNCHANGED <<pids, forked>> /\ proc' = [proc EXCEPT ![p].life = "reaped"]
  BY Zenon DEF Reap, Drain
<1>2. \A q \in Pid : q # p => proc'[q] = proc[q]
  BY <1>1, Zenon DEF PoolInv, Shaped
<1>3. \A s \in Slot : Stale(s)' => Stale(s) \/ pids[s] = p
  BY <1>1, <1>2, Zenon DEF Stale
<1>4. CASE Drain(p)
  BY <1>1, <1>4 DEF Drain, TableInv
<1>5. CASE Reap(p)
  <2>1. \A s \in Slot : ~Stale(s)
    BY <1>5, Zenon DEF Reap, TableInv
  <2>2. CASE \E s \in Slot : pids[s] = p
    <3>1. pc' = "reaped" /\ slot' \in Slot /\ pids[slot'] = p
      BY <1>5, <2>2, Zenon DEF Reap
    <3>2. \A s \in Slot : pids[s] = p => s = slot'
      BY <3>1 DEF TableInv, Pid
    <3> QED
      BY <1>1, <1>3, <2>1, <3>1, <3>2 DEF TableInv
  <2>3. CASE ~\E s \in Slot : pids[s] = p
    <3>1. pc' = "check"
      BY <1>5, <2>3, Zenon DEF Reap
    <3> QED
      BY <1>1, <1>3, <2>1, <2>3, <3>1 DEF TableInv
  <2> QED
    BY <2>2, <2>3, Zenon
<1> QED
  BY <1>4, <1>5, Zenon

\* The table is empty when the parent starts.
LEMMA InitTableInv == Init => TableInv
<1> SUFFICES ASSUME Init PROVE TableInv
  BY Zenon
<1>1. \A s \in Slot : pids[s] = 0
  BY Zenon DEF Init
<1>2. slot = 0 /\ pc = "start" /\ forked = 0
  BY Zenon DEF Init
<1>3. \A s \in Slot : ~Stale(s)
  BY <1>1 DEF Stale, Pid
<1>4. TableInv
  <2>1. \A s, t \in Slot : pids[s] # 0 /\ pids[s] = pids[t] => s = t
    BY <1>1, Zenon
  <2> QED
    BY <1>1, <1>2, <1>3, <2>1 DEF TableInv
<1> QED
  BY <1>4, Zenon

\* SIGTERM reaches every child that lives, and at most one pid that is no longer one.
THEOREM SignalsReachChildren == Spec => []ChildrenTold
<1>1. PoolInv /\ TableInv => ChildrenTold
  BY Zenon DEF PoolInv, TableInv, ChildrenTold
<1>2. PoolInv /\ TableInv /\ [Next]_vars => TableInv'
  BY TableLeft, TableFilled, TableReaped, Zenon DEF Next, ParentStep
<1> QED
  BY <1>1, <1>2, InitPoolInv, NextPoolInv, InitTableInv, PTL DEF Spec

\* The parent exits by itself only when no child lives.
THEOREM ParentExitsLast == Spec => ExitsLast
<1>1. Init => sigterms \in Nat
  BY DEF Init
<1>2. sigterms \in Nat /\ [Next]_vars => (sigterms \in Nat)'
  <2>1. ParentStep => sigterms' = sigterms
    BY Zenon DEF ParentStep, StartFork, StartForkFails, Started, Check, Block, NoChildren,
           Reaped, Respawn, RespawnFails, Stop, KillNext, KilledAll, DrainBlock, Drained,
           Reap, Drain
  <2>2. Sigterm => sigterms' = sigterms + 1
    BY Zenon DEF Sigterm
  <2>3. \A p \in Pid : ChildStep(p) \/ Die(p) => sigterms' = sigterms
    BY Zenon DEF ChildStep, ChildStarts, Deliver, ReaderStops, Die
  <2> QED
    BY <2>1, <2>2, <2>3 DEF Next, vars
<1>3. PoolInv /\ sigterms \in Nat /\ [Next]_vars
        => [(pc # "exited" /\ pc' = "exited" /\ sigterms' = sigterms)
              => \A p \in Pid : ~Living(p)']_vars
  <2> SUFFICES ASSUME PoolInv, sigterms \in Nat, Next,
                      pc # "exited", pc' = "exited", sigterms' = sigterms
               PROVE  \A p \in Pid : ~Living(p)'
    BY Zenon
  <2>1. StartForkFails \/ Stop \/ Drained
    <3>1. ~Sigterm
      BY DEF Sigterm
    <3>2. \A p \in Pid : ~(ChildStep(p) \/ Die(p))
      BY Zenon DEF ChildStep, ChildStarts, Deliver, ReaderStops, Die
    <3>3. \A p \in Pid : ~(Reap(p) \/ Drain(p))
      BY Zenon DEF Reap, Drain
    <3> QED
      BY <3>1, <3>2, <3>3, Zenon
         DEF Next, ParentStep, StartFork, Started, Check, Block, NoChildren, Reaped,
             Respawn, RespawnFails, KillNext, KilledAll, DrainBlock
  <2>2. NoNewProcess
    BY <2>1, OnlyForkAdds, Zenon DEF StartForkFails, Stop, Drained, PoolInv
  <2>3. \A p \in Pid : ~Living(p)
    <3>1. CASE StartForkFails
      <4>1. pc = "start" /\ slot = 0
        BY <3>1, Zenon DEF StartForkFails, Reader
      <4> QED
        BY <4>1, SupervisorAssumption DEF PoolInv, Filling, Shaped, Slot
    <3>2. CASE Stop
      BY <3>2, Zenon DEF Stop, PoolInv, Abandoned
    <3>3. CASE Drained
      BY <3>3, Zenon DEF Drained, Childless
    <3> QED
      BY <2>1, <3>1, <3>2, <3>3, Zenon
  <2> QED
    BY <2>2, <2>3, Zenon DEF NoNewProcess
<1> QED
  BY <1>1, <1>2, <1>3, InitPoolInv, NextPoolInv, PTL DEF Spec, ExitsLast

-----------------------------------------------------------------------------
(* The restart delays *)

\* How much of the delays counted for the dead children is still to come.
ToCome == IF sleeper = Nobody THEN 0 ELSE left

BackoffInv ==
  /\ BackoffTypeOK
  /\ \A c \in Child : sleeper = c => status[c] = "restarting"
  /\ \A c \in Child : status[c] = "up" => lived[c] = ran[c]
  /\ \A c \in Child :
       status[c] = "dead" => lived[c] + ToCome <= ran[c] + overtaken[c] * MaxDelay

\* One more delay.
LEMMA OneMore ==
  ASSUME NEW n \in Nat, NEW m \in Nat
  PROVE  n * m \in Nat /\ (n + 1) * m = n * m + m /\ 0 * m = 0 /\ 1 * m = m
  OBVIOUS

\* The delay before a restart.
LEMMA WaitRange ==
  ASSUME BackoffTypeOK, NEW c \in Child
  PROVE  WaitMs(c) \in BaseDelay..MaxDelay
  BY BackoffAssumption DEF WaitMs, BackoffTypeOK

\* The invariant holds when all children have just been started.
LEMMA InitBackoffInv == BackoffInit => BackoffInv
  BY BackoffAssumption DEF BackoffInit, BackoffInv, BackoffTypeOK, Age

\* A child dies.
LEMMA ChildDiesKeeps ==
  ASSUME BackoffInv, NEW c \in Child, ChildDies(c)
  PROVE  BackoffInv'
<1>1. BackoffTypeOK'
  BY Zenon DEF BackoffInv, BackoffTypeOK, ChildDies
<1>2. \A d \in Child : sleeper' = d => status'[d] = "restarting"
  BY Zenon DEF BackoffInv, BackoffTypeOK, ChildDies
<1>3. \A d \in Child : status'[d] = "up" => lived'[d] = ran'[d]
  BY Zenon DEF BackoffInv, BackoffTypeOK, ChildDies
<1>4. ASSUME NEW d \in Child, status'[d] = "dead"
      PROVE  lived'[d] + ToCome' <= ran'[d] + overtaken'[d] * MaxDelay
  <2>0. ToCome' = ToCome /\ lived' = lived /\ ran' = ran
    BY Zenon DEF ChildDies, ToCome
  <2>1. CASE d # c
    BY <1>4, <2>0, <2>1, Zenon DEF BackoffInv, BackoffTypeOK, ChildDies
  <2>2. CASE d = c
    <3>1. lived[d] = ran[d] /\ lived[d] \in Nat /\ MaxDelay \in Nat
      BY <2>2, BackoffAssumption DEF BackoffInv, BackoffTypeOK, ChildDies, Age
    <3>2. overtaken'[d] = IF sleeper = Nobody THEN 0 ELSE 1
      BY <2>2, Zenon DEF BackoffInv, BackoffTypeOK, ChildDies
    <3>3. ToCome \in Nat /\ ToCome <= MaxDelay /\ (sleeper = Nobody => ToCome = 0)
      BY BackoffAssumption DEF BackoffInv, BackoffTypeOK, ToCome
    <3> QED
      BY <2>0, <3>1, <3>2, <3>3, OneMore
  <2> QED
    BY <2>1, <2>2, Zenon
<1> QED
  BY <1>1, <1>2, <1>3, <1>4, Zenon DEF BackoffInv

\* A child is reaped: the delay that begins is counted for every other dead child.
LEMMA OnDeathKeeps ==
  ASSUME BackoffInv, NEW c \in Child, OnDeath(c)
  PROVE  BackoffInv'
<1>0. WaitMs(c) \in BaseDelay..MaxDelay /\ BaseDelay \in Nat /\ MaxDelay \in Nat
  BY WaitRange, BackoffAssumption, Zenon DEF BackoffInv
<1>1. BackoffTypeOK'
  <2>1. delay' \in [Child -> BaseDelay..MaxDelay]
    BY <1>0 DEF OnDeath, BackoffInv, BackoffTypeOK
  <2>2. overtaken' \in [Child -> Nat]
    BY DEF OnDeath, BackoffInv, BackoffTypeOK
  <2>3. sleeper' \in Child \cup {Nobody} /\ left' \in 0..MaxDelay
    BY <1>0 DEF OnDeath
  <2>4. status' \in [Child -> {"up", "dead", "restarting", "gone"}]
    BY Zenon DEF OnDeath, BackoffInv, BackoffTypeOK
  <2> QED
    BY <2>1, <2>2, <2>3, <2>4, Zenon DEF OnDeath, BackoffInv, BackoffTypeOK
<1>2. \A d \in Child : sleeper' = d => status'[d] = "restarting"
  BY Zenon DEF BackoffInv, BackoffTypeOK, OnDeath
<1>3. \A d \in Child : status'[d] = "up" => lived'[d] = ran'[d]
  BY Zenon DEF BackoffInv, BackoffTypeOK, OnDeath
<1>4. ASSUME NEW d \in Child, status'[d] = "dead"
      PROVE  lived'[d] + ToCome' <= ran'[d] + overtaken'[d] * MaxDelay
  <2>1. d # c /\ status[d] = "dead"
    BY <1>4, Zenon DEF OnDeath, BackoffInv, BackoffTypeOK
  <2>2. overtaken'[d] = overtaken[d] + 1 /\ lived' = lived /\ ran' = ran
    BY <2>1, Zenon DEF OnDeath
  <2>3. ToCome = 0
    BY Zenon DEF ToCome, OnDeath
  <2>4. ToCome' = WaitMs(c)
    BY BackoffAssumption, Zenon DEF ToCome, OnDeath
  <2>5. lived[d] + ToCome <= ran[d] + overtaken[d] * MaxDelay
    BY <2>1, Zenon DEF BackoffInv
  <2>6. lived[d] \in Nat /\ ran[d] \in Nat /\ overtaken[d] \in Nat
    BY BackoffAssumption DEF BackoffInv, BackoffTypeOK, Age
  <2>7. /\ overtaken[d] * MaxDelay \in Nat
        /\ (overtaken[d] + 1) * MaxDelay = overtaken[d] * MaxDelay + MaxDelay
    BY <1>0, <2>6, OneMore, Zenon
  <2> QED
    BY <1>0, <2>2, <2>3, <2>4, <2>5, <2>6, <2>7
<1> QED
  BY <1>1, <1>2, <1>3, <1>4, Zenon DEF BackoffInv

\* The delay is over, and fork() succeeds or fails.
LEMMA SpawnKeeps ==
  ASSUME BackoffInv, NEW c \in Child, OnSpawn(c) \/ OnSpawnFails(c)
  PROVE  BackoffInv'
<1>1. BackoffTypeOK'
  BY BackoffAssumption DEF BackoffInv, BackoffTypeOK, OnSpawn, OnSpawnFails, Age
<1>2. \A d \in Child : sleeper' = d => status'[d] = "restarting"
  BY BackoffAssumption, Zenon DEF OnSpawn, OnSpawnFails
<1>3. \A d \in Child : status'[d] = "up" => lived'[d] = ran'[d]
  BY DEF BackoffInv, BackoffTypeOK, OnSpawn, OnSpawnFails
<1>4. ASSUME NEW d \in Child, status'[d] = "dead"
      PROVE  lived'[d] + ToCome' <= ran'[d] + overtaken'[d] * MaxDelay
  <2>1. /\ d # c /\ status[d] = "dead" /\ lived'[d] = lived[d] /\ ran'[d] = ran[d]
        /\ overtaken' = overtaken
    BY <1>4, Zenon DEF OnSpawn, OnSpawnFails, BackoffInv, BackoffTypeOK
  <2>2. ToCome = 0 /\ ToCome' = 0
    BY Zenon DEF ToCome, OnSpawn, OnSpawnFails
  <2> QED
    BY <2>1, <2>2, Zenon DEF BackoffInv
<1> QED
  BY <1>1, <1>2, <1>3, <1>4, Zenon DEF BackoffInv

\* Time passes only while no dead child waits to be reaped, or in a delay that has
\* been counted for it.
LEMMA TimeKeeps ==
  ASSUME BackoffInv, TimePasses
  PROVE  BackoffInv'
<1>0. \A a \in Age : Older(a) \in Age /\ Older(a) <= a + 1
  BY BackoffAssumption DEF Age, Older
<1>1. BackoffTypeOK'
  <2>1. left' \in 0..MaxDelay
    BY BackoffAssumption DEF BackoffInv, BackoffTypeOK, TimePasses
  <2>2. lived' \in [Child -> Age] /\ ran' \in [Child -> Age]
    BY <1>0, Zenon DEF BackoffInv, BackoffTypeOK, TimePasses
  <2> QED
    BY <2>1, <2>2, Zenon DEF BackoffInv, BackoffTypeOK, TimePasses
<1>2. \A d \in Child : sleeper' = d => status'[d] = "restarting"
  BY Zenon DEF BackoffInv, TimePasses
<1>3. \A d \in Child : status'[d] = "up" => lived'[d] = ran'[d]
  BY Zenon DEF BackoffInv, TimePasses
<1>4. ASSUME NEW d \in Child, status'[d] = "dead"
      PROVE  lived'[d] + ToCome' <= ran'[d] + overtaken'[d] * MaxDelay
  <2>1. status[d] = "dead" /\ sleeper # Nobody /\ ran'[d] = ran[d] /\ overtaken' = overtaken
    BY <1>4, Zenon DEF TimePasses
  <2>2. lived'[d] \in Nat /\ lived[d] \in Nat /\ lived'[d] <= lived[d] + 1
    BY <1>0, BackoffAssumption DEF TimePasses, BackoffInv, BackoffTypeOK, Age
  <2>3. ToCome \in Nat /\ ToCome' = ToCome - 1
    BY <2>1, BackoffAssumption DEF TimePasses, ToCome, BackoffInv, BackoffTypeOK
  <2>4. ran[d] \in Nat /\ overtaken[d] * MaxDelay \in Nat
    BY BackoffAssumption, OneMore DEF BackoffInv, BackoffTypeOK, Age
  <2>5. lived[d] + ToCome <= ran[d] + overtaken[d] * MaxDelay
    BY <2>1, Zenon DEF BackoffInv
  <2> QED
    BY <2>1, <2>2, <2>3, <2>4, <2>5
<1> QED
  BY <1>1, <1>2, <1>3, <1>4, Zenon DEF BackoffInv

\* Every step keeps the invariant.
LEMMA NextBackoffInv == BackoffInv /\ [BackoffNext]_backoffVars => BackoffInv'
<1> SUFFICES ASSUME BackoffInv, [BackoffNext]_backoffVars PROVE BackoffInv'
  BY Zenon
<1>1. CASE UNCHANGED backoffVars
  BY <1>1, Zenon DEF backoffVars, BackoffInv, BackoffTypeOK, ToCome
<1> QED
  BY <1>1, ChildDiesKeeps, OnDeathKeeps, SpawnKeeps, TimeKeeps, Zenon DEF BackoffNext

\* A delay starts again from the base delay only for a child that ran for long, or
\* that lay dead while other children were restarted.
THEOREM DelayResets == BackoffSpec => ResetOnlyIfOvertaken
<1>1. BackoffInv /\ [BackoffNext]_backoffVars
        => [\A c \in Child : Reset(c) => ran[c] + overtaken[c] * MaxDelay > RunningFine]_backoffVars
  <2> SUFFICES ASSUME BackoffInv, BackoffNext, NEW c \in Child, Reset(c)
               PROVE  ran[c] + overtaken[c] * MaxDelay > RunningFine
    BY Zenon
  <2>1. sleeper = Nobody /\ sleeper' = c /\ c # Nobody
    BY BackoffAssumption, Zenon DEF Reset
  <2>2. OnDeath(c)
    BY <2>1 DEF BackoffNext, ChildDies, OnDeath, OnSpawn, OnSpawnFails, TimePasses
  <2>3. lived[c] > RunningFine
    BY <2>2, BackoffAssumption DEF Reset, OnDeath, WaitMs, BackoffInv, BackoffTypeOK
  <2>4. lived[c] + 0 <= ran[c] + overtaken[c] * MaxDelay
    BY <2>1, <2>2, Zenon DEF OnDeath, BackoffInv, ToCome
  <2>5. ran[c] \in Nat /\ lived[c] \in Nat /\ overtaken[c] * MaxDelay \in Nat
    BY BackoffAssumption, OneMore DEF BackoffInv, BackoffTypeOK, Age
  <2> QED
    BY <2>3, <2>4, <2>5, BackoffAssumption
<1> QED
  BY <1>1, InitBackoffInv, NextBackoffInv, PTL DEF BackoffSpec, ResetOnlyIfOvertaken

-----------------------------------------------------------------------------
(***************************************************************************)
(* The session stores.  StoreInv adds to the two properties what they rest *)
(* on: a store holds ids that its process issued in its lifetime, and no   *)
(* session was created in the future.                                      *)
(***************************************************************************)

Issued(w) ==
  /\ sessions_[w] \subseteq 1..drawn /\ born[w] \in 0..drawn
  /\ \A id \in sessions_[w] : created[id].by = w /\ id > born[w]

\* OnlyOldestEvicted for one process.
Kept(w) ==
  /\ Cardinality(sessions_[w]) <= IF max_sessions_ = 0 THEN 1 ELSE max_sessions_
  /\ \A id \in 1..drawn :
       (created[id].by = w /\ id > born[w] /\ ~Expired(id) /\ id \notin sessions_[w]) =>
         /\ Cardinality(sessions_[w]) >= max_sessions_
         /\ \A other \in sessions_[w] : created[other].at >= created[id].at

Clock ==
  /\ drawn \in 0..MaxLogin /\ now \in Nat /\ DOMAIN created = Id
  /\ \A id \in 1..drawn : created[id].at \in 0..now

StoreInv ==
  /\ Clock /\ DOMAIN sessions_ = Worker /\ DOMAIN born = Worker
  /\ \A w \in Worker : Issued(w) /\ Kept(w)
  /\ RefusedOnlyIfCrowdedOut

\* A store is finite.
LEMMA StoreFinite ==
  ASSUME NEW n \in Nat, NEW store \in SUBSET (1..n)
  PROVE  IsFiniteSet(store) /\ Cardinality(store) \in Nat
<1>1. IsFiniteSet(1..n)
  BY FS_Interval
<1> QED
  BY <1>1, FS_Subset, FS_CardinalityType, Zenon

\* A process whose store, sessions and lifetime a step leaves alone, while it neither
\* issues an id nor turns back the clock.
LEMMA StoreAlone ==
  ASSUME NEW w \in Worker, Clock, Issued(w), Kept(w), now' \in Nat, now <= now',
         UNCHANGED <<created, drawn>>, sessions_'[w] = sessions_[w], born'[w] = born[w]
  PROVE  Issued(w)' /\ Kept(w)'
<1>1. created' = created /\ drawn' = drawn
  BY Zenon
<1>2. \A id \in 1..drawn : ~Expired(id)' => ~Expired(id)
  BY <1>1, StoreAssumption DEF Expired, Clock
<1> QED
  BY <1>1, <1>2, Zenon DEF Issued, Kept

\* What eviction leaves of a store: all of it where there is room, or all but one of
\* its oldest sessions.
LEMMA RoomMade ==
  ASSUME NEW n \in Nat, NEW store \in SUBSET (1..n), NEW rest \in WithRoom(store)
  PROVE  /\ rest \subseteq store /\ IsFiniteSet(rest)
         /\ Cardinality(store) \in Nat /\ Cardinality(rest) \in Nat
         /\ \/ /\ rest = store
               /\ store = {} \/ Cardinality(store) < max_sessions_
            \/ \E oldest \in store :
                 /\ rest = store \ {oldest}
                 /\ \A other \in store : created[oldest].at <= created[other].at
                 /\ Cardinality(store) >= max_sessions_
                 /\ Cardinality(rest) = Cardinality(store) - 1
<1>1. IsFiniteSet(store) /\ Cardinality(store) \in Nat
  BY StoreFinite, Zenon
<1>2. CASE store # {} /\ Cardinality(store) >= max_sessions_
  <2>1. PICK oldest \in store : /\ \A other \in store : created[oldest].at <= created[other].at
                                /\ rest = store \ {oldest}
    BY <1>2, Zenon DEF WithRoom
  <2>2. IsFiniteSet(rest) /\ Cardinality(rest) = Cardinality(store) - 1
    BY <1>1, <2>1, FS_RemoveElement, Zenon
  <2>3. Cardinality(rest) \in Nat
    BY <2>2, FS_CardinalityType, Zenon
  <2> QED
    BY <1>1, <1>2, <2>1, <2>2, <2>3, Zenon
<1>3. CASE ~(store # {} /\ Cardinality(store) >= max_sessions_)
  <2>1. rest = store
    BY <1>3, Zenon DEF WithRoom
  <2>2. store = {} \/ Cardinality(store) < max_sessions_
    BY <1>1, <1>3, StoreAssumption
  <2> QED
    BY <1>1, <2>1, <2>2, Zenon
<1> QED
  BY <1>2, <1>3, Zenon

\* create_session keeps the bound, and evicts at most the oldest.
LEMMA CreateKept ==
  ASSUME NEW w \in Worker, Clock, Issued(w), Kept(w), CreateSession(w),
         DOMAIN sessions_ = Worker, UNCHANGED <<born, now>>
  PROVE  Issued(w)' /\ Kept(w)' /\ Clock'
<1> USE StoreAssumption
<1> DEFINE store == sessions_[w]
           fresh == Fresh(sessions_[w])
           new == drawn + 1
<1>1. /\ drawn \in Nat /\ new \in Id /\ new \notin 1..drawn /\ 1..new = 1..drawn \cup {new}
      /\ now \in Nat /\ 0..drawn \subseteq 0..new /\ new \in 0..MaxLogin
  BY DEF Clock, CreateSession, Id
<1>2. PICK rest \in WithRoom(fresh) : sessions_' = [sessions_ EXCEPT ![w] = rest \cup {new}]
  BY Zenon DEF CreateSession
<1>3. /\ drawn' = new /\ born' = born /\ now' = now
      /\ created' = [created EXCEPT ![new] = [by |-> w, at |-> now]]
  BY Zenon DEF CreateSession
<1>4. /\ created'[new].by = w /\ created'[new].at = now /\ DOMAIN created' = Id
      /\ \A id \in 1..drawn : created'[id] = created[id]
  BY <1>1, <1>3 DEF Clock
<1>5. sessions_'[w] = rest \cup {new} /\ store \in SUBSET (1..drawn)
  BY <1>2, Zenon DEF Issued
<1>6. fresh \subseteq store /\ fresh \in SUBSET (1..drawn) /\ \A id \in fresh : ~Expired(id)
  BY <1>5, Zenon DEF Fresh
<1> HIDE DEF store, fresh, new
<1>7. /\ rest \subseteq fresh /\ IsFiniteSet(rest)
      /\ Cardinality(fresh) \in Nat /\ Cardinality(rest) \in Nat
      /\ \/ /\ rest = fresh
            /\ fresh = {} \/ Cardinality(fresh) < max_sessions_
         \/ \E oldest \in fresh :
              /\ rest = fresh \ {oldest}
              /\ \A other \in fresh : created[oldest].at <= created[other].at
              /\ Cardinality(fresh) >= max_sessions_
              /\ Cardinality(rest) = Cardinality(fresh) - 1
  BY <1>1, <1>6, RoomMade, Zenon
<1>8. IsFiniteSet(store) /\ Cardinality(store) \in Nat /\ Cardinality(fresh) <= Cardinality(store)
  <2>1. IsFiniteSet(store) /\ Cardinality(store) \in Nat
    BY <1>1, <1>5, StoreFinite, Zenon
  <2> QED
    BY <1>6, <2>1, FS_Subset, Zenon
<1>9. Cardinality(sessions_'[w]) = Cardinality(rest) + 1
  <2>1. new \notin rest
    BY <1>1, <1>6, <1>7, Zenon
  <2> QED
    BY <1>5, <1>7, <2>1, FS_AddElement, Zenon
<1>10. /\ \A id \in 1..drawn : Expired(id)' <=> Expired(id)
       /\ \A id \in 1..drawn : created[id].at \in 0..now
  BY <1>3, <1>4, Zenon DEF Expired, Clock
<1>11. Issued(w)'
  <2>1. sessions_'[w] \subseteq 1..new
    BY <1>1, <1>5, <1>6, <1>7, Zenon
  <2>2. \A id \in rest : created'[id].by = w /\ id > born[w]
    <3>1. \A id \in store : created[id].by = w /\ id > born[w]
      BY Zenon DEF Issued, store
    <3>2. \A id \in rest : id \in store /\ id \in 1..drawn
      BY <1>6, <1>7, Zenon
    <3> QED
      BY <1>4, <3>1, <3>2, Zenon
  <2>3. born[w] \in 0..new /\ new > born[w]
    <3>1. born[w] \in 0..drawn
      BY Zenon DEF Issued
    <3> QED
      BY <1>1, <3>1 DEF new
  <2> QED
    BY <1>3, <1>4, <1>5, <2>1, <2>2, <2>3, Zenon DEF Issued
<1>12. Clock'
  <2>1. now \in 0..now
    BY <1>1
  <2> QED
    BY <1>1, <1>3, <1>4, <1>10, <2>1, Zenon DEF Clock
<1>13. Cardinality(fresh) = 0 <=> fresh = {}
  BY <1>1, <1>6, StoreFinite, FS_EmptySet, Zenon
<1>14. Cardinality(sessions_'[w]) <= IF max_sessions_ = 0 THEN 1 ELSE max_sessions_
  <2>1. Cardinality(store) <= IF max_sessions_ = 0 THEN 1 ELSE max_sessions_
    BY Zenon DEF Kept, store
  <2> QED
    BY <1>7, <1>8, <1>9, <1>13, <2>1
<1>15. ASSUME NEW id \in 1..new, created'[id].by = w, id > born[w], ~Expired(id)', id \notin sessions_'[w]
       PROVE  /\ Cardinality(sessions_'[w]) >= max_sessions_
              /\ \A other \in sessions_'[w] : created'[other].at >= created'[id].at
  <2>1. id \in 1..drawn /\ created'[id] = created[id] /\ ~Expired(id) /\ id \notin rest
    BY <1>1, <1>4, <1>5, <1>10, <1>15, Zenon
  <2>2. created[id].at \in Nat /\ now >= created[id].at
    BY <1>1, <1>10, <2>1
  <2>3. CASE id \notin store
    <3>1. /\ Cardinality(store) >= max_sessions_
          /\ \A other \in store : created[other].at >= created[id].at
      BY <1>15, <2>1, <2>3, Zenon DEF Kept, store
    <3>2. \A other \in store : ~Expired(other)
      BY <1>1, <1>5, <1>10, <2>1, <2>2, <3>1 DEF Expired
    <3>3. fresh = store
      BY <3>2, Zenon DEF Fresh, fresh, store
    <3>4. Cardinality(sessions_'[w]) >= max_sessions_
      BY <1>7, <1>9, <1>13, <3>1, <3>3
    <3>5. \A other \in rest : created'[other].at >= created'[id].at
      BY <1>4, <1>6, <1>7, <2>1, <3>1, <3>3, Zenon
    <3> QED
      BY <1>4, <1>5, <2>1, <2>2, <3>4, <3>5, Zenon
  <2>4. CASE id \in store
    <3>1. id \in fresh
      BY <2>1, <2>4, Zenon DEF Fresh, fresh, store
    <3>2. /\ \A other \in fresh : created[id].at <= created[other].at
          /\ Cardinality(fresh) >= max_sessions_
          /\ Cardinality(rest) = Cardinality(fresh) - 1
      BY <1>7, <2>1, <3>1, Zenon
    <3>3. Cardinality(sessions_'[w]) >= max_sessions_
      BY <1>7, <1>9, <3>2
    <3>4. \A other \in rest : created'[other].at >= created'[id].at
      <4>1. \A other \in fresh : created[other].at \in Int
        BY <1>6, <1>10
      <4>2. \A other \in fresh : created[other].at >= created[id].at
        BY <2>2, <3>2, <4>1, Zenon
      <4> QED
        BY <1>4, <1>6, <1>7, <2>1, <4>2, Zenon
    <3> QED
      BY <1>4, <1>5, <2>1, <2>2, <3>3, <3>4, Zenon
  <2> QED
    BY <2>3, <2>4, Zenon
<1> QED
  BY <1>3, <1>11, <1>12, <1>14, <1>15, Zenon DEF Kept

\* is_valid erases only an expired session, so none was lost before its time.
LEMMA EraseKept ==
  ASSUME NEW w \in Worker, Clock, Issued(w), Kept(w), NEW gone \in Int,
         gone \in sessions_[w] => Expired(gone),
         sessions_'[w] = sessions_[w] \ {gone}, UNCHANGED <<created, born, drawn, now>>
  PROVE  Issued(w)' /\ Kept(w)'
<1>1. created' = created /\ born' = born /\ drawn' = drawn /\ now' = now
  BY Zenon
<1>2. CASE gone \notin sessions_[w]
  <2>1. sessions_'[w] = sessions_[w]
    BY <1>2, Zenon
  <2> QED
    BY <1>1, <2>1, Zenon DEF Issued, Kept, Expired
<1>3. CASE gone \in sessions_[w]
  <2>1. Issued(w)'
    BY <1>1, Zenon DEF Issued
  <2>2. drawn \in Nat /\ sessions_[w] \in SUBSET (1..drawn) /\ gone \in 1..drawn
    BY <1>3 DEF Clock, Issued
  <2>3. IsFiniteSet(sessions_[w]) /\ Cardinality(sessions_[w]) \in Nat
    BY <2>2, StoreFinite, Zenon
  <2>4. Cardinality(sessions_'[w]) = Cardinality(sessions_[w]) - 1
    BY <1>3, <2>3, FS_RemoveElement, Zenon
  <2>5. Cardinality(sessions_'[w]) <= IF max_sessions_ = 0 THEN 1 ELSE max_sessions_
    <3>1. Cardinality(sessions_[w]) <= IF max_sessions_ = 0 THEN 1 ELSE max_sessions_
      BY Zenon DEF Kept
    <3> QED
      BY <2>3, <2>4, <3>1, StoreAssumption
  <2>6. ASSUME NEW id \in 1..drawn, created[id].by = w, id > born[w], ~Expired(id),
               id \notin sessions_'[w]
        PROVE  FALSE
    <3>1. id \notin sessions_[w]
      BY <1>3, <2>6, Zenon
    <3>2. created[gone].at >= created[id].at
      BY <1>3, <2>6, <3>1, Zenon DEF Kept
    <3>3. created[gone].at \in 0..now /\ created[id].at \in 0..now /\ now \in Nat
      BY <2>2, Zenon DEF Clock
    <3>4. Expired(gone)
      BY <1>3, Zenon
    <3> QED
      BY <2>6, <3>2, <3>3, <3>4, StoreAssumption DEF Expired
  <2>7. \A id \in 1..drawn : Expired(id)' <=> Expired(id)
    BY <1>1, Zenon DEF Expired
  <2> QED
    BY <1>1, <2>1, <2>5, <2>6, <2>7, Zenon DEF Kept
<1> QED
  BY <1>2, <1>3, Zenon

\* GET /l.
LEMMA LoginInv ==
  ASSUME StoreInv, NEW w \in Worker, NEW given, Login(w, given)
  PROVE  StoreInv'
<1>1. born' = born /\ now' = now /\ verdict' = NoVerdict /\ now \in Nat /\ now <= now'
  BY DEF Login, StoreInv, Clock
<1>2. RefusedOnlyIfCrowdedOut'
  BY <1>1, Zenon DEF RefusedOnlyIfCrowdedOut, NoVerdict
<1>3. CASE CreateAnonymous
  <2>1. sessions_' = sessions_ /\ created' = created /\ drawn' = drawn
    BY <1>3, Zenon DEF CreateAnonymous
  <2>2. Clock'
    BY <1>1, <2>1, Zenon DEF StoreInv, Clock
  <2> QED
    BY <1>1, <1>2, <2>1, <2>2, StoreAlone, Zenon DEF StoreInv
<1>4. CASE CreateSession(w)
  <2>1. Issued(w)' /\ Kept(w)' /\ Clock'
    BY <1>1, <1>4, CreateKept, Zenon DEF StoreInv
  <2>2. DOMAIN sessions_' = Worker
    BY <1>4, Zenon DEF CreateSession, StoreInv
  <2>3. ASSUME NEW u \in Worker, u # w
        PROVE  Issued(u)' /\ Kept(u)'
    <3> DEFINE new == drawn + 1
    <3>1. /\ drawn' = new /\ sessions_'[u] = sessions_[u] /\ born'[u] = born[u]
          /\ created' = [created EXCEPT ![new] = [by |-> w, at |-> now]]
      BY <1>1, <1>4, <2>3, Zenon DEF CreateSession, StoreInv
    <3>2. /\ drawn \in Nat /\ new \in Id /\ new \notin 1..drawn /\ 1..new = 1..drawn \cup {new}
          /\ 0..drawn \subseteq 0..new
      BY <1>4, StoreAssumption DEF StoreInv, Clock, CreateSession, Id
    <3>3. created'[new].by = w /\ \A id \in 1..drawn : created'[id] = created[id]
      BY <3>1, <3>2 DEF StoreInv, Clock
    <3>4. \A id \in 1..drawn : Expired(id)' <=> Expired(id)
      BY <1>1, <3>3, Zenon DEF Expired
    <3>5. Issued(u) /\ Kept(u)
      BY Zenon DEF StoreInv
    <3> HIDE DEF new
    <3>6. Issued(u)'
      BY <3>1, <3>2, <3>3, <3>5, Zenon DEF Issued
    <3>7. sessions_[u] \subseteq 1..drawn
      BY <3>5, Zenon DEF Issued
    <3> QED
      BY <2>3, <3>1, <3>2, <3>3, <3>4, <3>5, <3>6, <3>7, Zenon DEF Kept
  <2> QED
    BY <1>1, <1>2, <2>1, <2>2, <2>3, Zenon DEF StoreInv
<1> QED
  BY <1>3, <1>4, Zenon DEF Login

\* is_valid.
LEMMA IsValidInv ==
  ASSUME StoreInv, NEW w \in Worker, NEW id \in {Anonymous} \cup 1..drawn,
         IsValid(w, id)
  PROVE  StoreInv'
<1> DEFINE valid == id = Anonymous \/ (id \in sessions_[w] /\ ~Expired(id))
<1>1. created' = created /\ born' = born /\ drawn' = drawn /\ now' = now
  BY Zenon DEF IsValid
<1>2. now \in Nat /\ now' \in Nat /\ now <= now' /\ Clock'
  <2>1. Clock'
    BY <1>1, Zenon DEF StoreInv, Clock
  <2> QED
    BY <1>1, <2>1 DEF StoreInv, Clock
<1>3. /\ verdict' = [worker |-> w, id |-> id, valid |-> valid]
      /\ sessions_' = IF valid THEN sessions_ ELSE [sessions_ EXCEPT ![w] = @ \ {id}]
  BY Zenon DEF IsValid
<1>4. RefusedOnlyIfCrowdedOut'
  <2> SUFFICES ASSUME ~valid, created[id].by = w, ~(id <= born[w]), ~Expired(id)'
               PROVE  Cardinality(NoOlder(w, id)') >= max_sessions_
    BY <1>1, <1>3, Zenon DEF RefusedOnlyIfCrowdedOut
  <2>1. id \in 1..drawn /\ id \notin sessions_[w] /\ ~Expired(id)
    BY <1>1, Zenon DEF Expired
  <2>2. Clock /\ Issued(w) /\ Kept(w) /\ drawn \in Nat
    BY DEF StoreInv, Clock
  <2>3. id > born[w]
    BY <2>1, <2>2 DEF Issued
  <2>4. /\ Cardinality(sessions_[w]) >= max_sessions_
        /\ \A other \in sessions_[w] : created[other].at >= created[id].at
    BY <2>1, <2>2, <2>3, Zenon DEF Kept
  <2>5. sessions_[w] \subseteq NoOlder(w, id)
    BY <2>1, <2>2, <2>4, Zenon DEF Issued, NoOlder
  <2>6. NoOlder(w, id) \in SUBSET (1..drawn)
    BY Zenon DEF NoOlder
  <2>7. IsFiniteSet(NoOlder(w, id)) /\ Cardinality(NoOlder(w, id)) \in Nat
    BY <2>2, <2>6, StoreFinite, Zenon
  <2>8. /\ Cardinality(sessions_[w]) <= Cardinality(NoOlder(w, id))
        /\ Cardinality(sessions_[w]) \in Nat
    BY <2>5, <2>7, FS_Subset, FS_CardinalityType, Zenon
  <2>9. NoOlder(w, id)' = NoOlder(w, id)
    BY <1>1, Zenon DEF NoOlder
  <2> QED
    BY <2>4, <2>7, <2>8, <2>9, StoreAssumption
<1>5. DOMAIN sessions_' = Worker
  BY <1>3, Zenon DEF StoreInv
<1>6. ASSUME NEW u \in Worker
      PROVE  Issued(u)' /\ Kept(u)'
  <2>1. Clock /\ Issued(u) /\ Kept(u)
    BY Zenon DEF StoreInv
  <2>2. CASE valid \/ u # w
    <3>1. sessions_'[u] = sessions_[u]
      BY <1>3, <2>2, Zenon DEF StoreInv
    <3> QED
      BY <1>1, <1>2, <2>1, <3>1, StoreAlone, Zenon
  <2>3. CASE ~valid /\ u = w
    <3>1. sessions_'[w] = sessions_[w] \ {id}
      BY <1>3, <2>3, Zenon DEF StoreInv
    <3>2. id \in sessions_[w] => Expired(id)
      BY <2>3, Zenon
    <3>3. id \in Int
      BY DEF Anonymous
    <3> QED
      BY <1>1, <2>1, <2>3, <3>1, <3>2, <3>3, EraseKept, Zenon
  <2> QED
    BY <2>2, <2>3, Zenon
<1> QED
  BY <1>1, <1>2, <1>4, <1>5, <1>6, Zenon DEF StoreInv

\* A process is replaced by one with an empty store.
LEMMA RestartInv ==
  ASSUME StoreInv, NEW w \in Worker, Restart(w)
  PROVE  StoreInv'
<1>1. created' = created /\ drawn' = drawn /\ now' = now /\ verdict' = NoVerdict
  BY Zenon DEF Restart
<1>2. now \in Nat /\ now' \in Nat /\ now <= now' /\ Clock' /\ drawn \in Nat
  <2>1. Clock'
    BY <1>1, Zenon DEF StoreInv, Clock
  <2> QED
    BY <1>1, <2>1 DEF StoreInv, Clock
<1>3. RefusedOnlyIfCrowdedOut'
  BY <1>1, Zenon DEF RefusedOnlyIfCrowdedOut, NoVerdict
<1>4. /\ DOMAIN sessions_' = Worker /\ DOMAIN born' = Worker
      /\ sessions_'[w] = {} /\ born'[w] = drawn
      /\ \A u \in Worker \ {w} : sessions_'[u] = sessions_[u] /\ born'[u] = born[u]
  BY Zenon DEF StoreInv, Restart
<1>5. ASSUME NEW u \in Worker, u # w
      PROVE  Issued(u)' /\ Kept(u)'
  <2>1. Clock /\ Issued(u) /\ Kept(u)
    BY Zenon DEF StoreInv
  <2> QED
    BY <1>1, <1>2, <1>4, <1>5, <2>1, StoreAlone, Zenon
<1>6. Issued(w)' /\ Kept(w)'
  <2>1. drawn \in 0..drawn /\ \A id \in 1..drawn : ~(id > drawn)
    BY <1>2
  <2>2. Cardinality({}) <= IF max_sessions_ = 0 THEN 1 ELSE max_sessions_
    BY FS_EmptySet, StoreAssumption
  <2> QED
    BY <1>1, <1>4, <2>1, <2>2, Zenon DEF Issued, Kept
<1> QED
  BY <1>1, <1>2, <1>3, <1>4, <1>5, <1>6, Zenon DEF StoreInv

\* Time passes.
LEMMA TickInv ==
  ASSUME StoreInv, Tick
  PROVE  StoreInv'
<1>1. /\ created' = created /\ drawn' = drawn /\ born' = born /\ sessions_' = sessions_
      /\ verdict' = NoVerdict /\ now' = now + 1
  BY Zenon DEF Tick
<1>2. now' \in Nat /\ now <= now' /\ Clock'
  BY <1>1 DEF StoreInv, Clock
<1>3. RefusedOnlyIfCrowdedOut'
  BY <1>1, Zenon DEF RefusedOnlyIfCrowdedOut, NoVerdict
<1>4. ASSUME NEW u \in Worker
      PROVE  Issued(u)' /\ Kept(u)'
  <2>1. Clock /\ Issued(u) /\ Kept(u)
    BY Zenon DEF StoreInv
  <2> QED
    BY <1>1, <1>2, <2>1, StoreAlone, Zenon
<1> QED
  BY <1>1, <1>2, <1>3, <1>4, Zenon DEF StoreInv

\* StoreInv is an invariant.
LEMMA StoreInvariant == StoreSpec => []StoreInv
<1>1. StoreInit => StoreInv
  <2> SUFFICES ASSUME StoreInit PROVE StoreInv
    BY Zenon
  <2>1. /\ drawn = 0 /\ now = 0 /\ 1..drawn = {} /\ 0 \in 0..drawn /\ 0 \in Nat /\ drawn \in 0..MaxLogin
        /\ DOMAIN created = Id /\ DOMAIN sessions_ = Worker /\ DOMAIN born = Worker
    BY StoreAssumption DEF StoreInit
  <2>2. \A w \in Worker : sessions_[w] = {} /\ born[w] = 0
    BY Zenon DEF StoreInit
  <2>3. Cardinality({}) <= IF max_sessions_ = 0 THEN 1 ELSE max_sessions_
    BY FS_EmptySet, StoreAssumption
  <2>4. RefusedOnlyIfCrowdedOut
    BY Zenon DEF StoreInit, RefusedOnlyIfCrowdedOut, NoVerdict
  <2>5. \A w \in Worker : Issued(w) /\ Kept(w)
    BY <2>1, <2>2, <2>3, Zenon DEF Issued, Kept
  <2> QED
    BY <2>1, <2>4, <2>5, Zenon DEF StoreInv, Clock
<1>2. StoreInv /\ [StoreNext]_storeVars => StoreInv'
  <2> SUFFICES ASSUME StoreInv, [StoreNext]_storeVars PROVE StoreInv'
    BY Zenon
  <2>1. CASE UNCHANGED storeVars
    BY <2>1, Zenon DEF storeVars, StoreInv, Clock, Issued, Kept, RefusedOnlyIfCrowdedOut,
                       NoOlder, Expired
  <2> QED
    BY <2>1, LoginInv, IsValidInv, RestartInv, TickInv, Zenon DEF StoreNext
<1> QED
  BY <1>1, <1>2, PTL DEF StoreSpec

\* However many processes, logins and checks there are, the living process that issued
\* a session refuses it before its time only after as many further logins as its store
\* holds.
THEOREM LoginsKept == StoreSpec => []RefusedOnlyIfCrowdedOut
<1>1. StoreInv => RefusedOnlyIfCrowdedOut
  BY Zenon DEF StoreInv
<1> QED
  BY <1>1, StoreInvariant, PTL

\* create_session and is_valid keep the bound of the store, and give up before its time
\* only a session that none in the store is older than.
THEOREM OldestMakesRoom == StoreSpec => []OnlyOldestEvicted
<1>1. StoreInv => OnlyOldestEvicted
  BY Zenon DEF StoreInv, OnlyOldestEvicted, Kept
<1> QED
  BY <1>1, StoreInvariant, PTL
=============================================================================
