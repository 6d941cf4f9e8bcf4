----------------------------- MODULE Supervisor -----------------------------
(***************************************************************************)
(* The parent process in direct mode: it forks the cache reader and the    *)
(* workers, replaces those that die, and on SIGTERM stops them all, while  *)
(* signals reach it and its children between any two of their steps.       *)
(*                                                                         *)
(* Slot 0 is the cache reader (cache_reader_pid), slots 1..NumWorkers are  *)
(* worker_pids.  A process is never given the pid of an earlier one.  The  *)
(* handler of SIGTERM only sets g_shutdown_requested; a forked child has   *)
(* the handler, and a copy of the flag, until it calls signal(SIG_DFL).    *)
(***************************************************************************)
EXTENDS Integers

CONSTANTS NumWorkers,
          ForkMayFail,    \* whether fork() may fail
          MaxDeaths,      \* bound on deaths other than by SIGTERM
          MaxSigterm      \* bound on the SIGTERMs sent to the parent

VARIABLES pc,         \* where the parent is
          requested,  \* the parent's g_shutdown_requested
          slot,       \* the loop variable of start and stop, or the slot to refill
          pids,       \* pids[s]: cache_reader_pid and worker_pids; 0 is -1
          proc,       \* proc[p]: the process with pid p
          forked,     \* the number of processes forked so far
          deaths,
          sigterms

vars == <<pc, requested, slot, pids, proc, forked, deaths, sigterms>>

ASSUME SupervisorAssumption ==
  /\ NumWorkers \in Nat \ {0} /\ ForkMayFail \in BOOLEAN
  /\ MaxDeaths \in Nat /\ MaxSigterm \in Nat

Reader == 0
Slot == 0..NumWorkers

\* One process per slot, one more for every death, and one forked after SIGTERM
\* to replace it.
Pid == 1..(NumWorkers + 2 + MaxDeaths)

\* A process: its slot, how far it is in its life, whether SIGTERM is pending,
\* whether the parent ever sent it one, and its copy of the flag.
\* "fresh": before prctl; "tied": PR_SET_PDEATHSIG is set; "up": SIGTERM is SIG_DFL.
Life == {"none", "fresh", "tied", "up", "zombie", "reaped"}
Process == [slot : Slot, life : Life, pending : BOOLEAN, told : BOOLEAN, flag : BOOLEAN]

NoProcess == [slot |-> Reader, life |-> "none", pending |-> FALSE, told |-> FALSE, flag |-> FALSE]

PcSet == {"start", "check", "wait", "blocked", "reaped", "respawn", "stop", "kill",
          "drain", "drain_blocked", "exited"}

TypeOK ==
  /\ pc \in PcSet
  /\ requested \in BOOLEAN
  /\ slot \in 0..(NumWorkers + 1)
  /\ pids \in [Slot -> {0} \cup Pid]
  /\ proc \in [Pid -> Process]
  /\ forked \in {0} \cup Pid
  /\ deaths \in 0..MaxDeaths
  /\ sigterms \in 0..MaxSigterm

Init ==
  /\ pc = "start" /\ requested = FALSE /\ slot = 0
  /\ pids = [s \in Slot |-> 0]
  /\ proc = [p \in Pid |-> NoProcess]
  /\ forked = 0 /\ deaths = 0 /\ sigterms = 0

Living(p) == proc[p].life \in {"fresh", "tied", "up"}
Zombie(p) == proc[p].life = "zombie"
Childless == \A p \in Pid : ~Living(p) /\ ~Zombie(p)

\* spawn_cache_reader and spawn_worker: the new process has the parent's flag.
Fork(s) ==
  /\ forked' = forked + 1
  /\ pids' = [pids EXCEPT ![s] = forked']
  /\ proc' = [proc EXCEPT ![forked'] =
                [NoProcess EXCEPT !.slot = s, !.life = "fresh", !.flag = requested]]

\* What exit() of the parent does to its children: those with PR_SET_PDEATHSIG
\* are sent SIGTERM.
Orphaned ==
  [p \in Pid |-> IF proc[p].life \in {"tied", "up"} THEN [proc[p] EXCEPT !.pending = TRUE]
                                                   ELSE proc[p]]

-----------------------------------------------------------------------------
(* The parent: start *)

StartFork ==
  /\ pc = "start" /\ slot <= NumWorkers
  /\ Fork(slot)
  /\ slot' = slot + 1
  /\ UNCHANGED <<pc, requested, deaths, sigterms>>

\* Without a cache reader main() returns; without a worker it stops the children.
StartForkFails ==
  /\ ForkMayFail /\ pc = "start" /\ slot <= NumWorkers
  /\ pc' = IF slot = Reader THEN "exited" ELSE "kill"
  /\ slot' = 0
  /\ UNCHANGED <<requested, pids, proc, forked, deaths, sigterms>>

Started ==
  /\ pc = "start" /\ slot > NumWorkers
  /\ pc' = "check" /\ slot' = 0
  /\ UNCHANGED <<requested, pids, proc, forked, deaths, sigterms>>

(* The parent: the supervisor loop *)

Check ==
  /\ pc = "check"
  /\ pc' = IF requested THEN "stop" ELSE "wait"
  /\ UNCHANGED <<requested, slot, pids, proc, forked, deaths, sigterms>>

\* wait() finds a dead child at once, or is woken by its death.  The slot is the
\* one whose pid it is; a pid of no slot is left alone.
Reap(p) ==
  /\ pc \in {"wait", "blocked"} /\ Zombie(p)
  /\ proc' = [proc EXCEPT ![p].life = "reaped"]
  /\ IF \E s \in Slot : pids[s] = p
     THEN pc' = "reaped" /\ slot' = CHOOSE s \in Slot : pids[s] = p
     ELSE pc' = "check" /\ slot' = slot
  /\ UNCHANGED <<requested, pids, forked, deaths, sigterms>>

Block ==
  /\ pc = "wait" /\ ~Childless /\ \A p \in Pid : ~Zombie(p)
  /\ pc' = "blocked"
  /\ UNCHANGED <<requested, slot, pids, proc, forked, deaths, sigterms>>

\* ECHILD ends the loop.
NoChildren ==
  /\ pc = "wait" /\ Childless
  /\ pc' = "stop"
  /\ UNCHANGED <<requested, slot, pids, proc, forked, deaths, sigterms>>

\* Mutant: only workers are replaced.
ReapedWorkersOnly ==
  /\ pc = "reaped"
  /\ pc' = IF requested THEN "stop" ELSE IF slot = Reader THEN "check" ELSE "respawn"
  /\ UNCHANGED <<requested, slot, pids, proc, forked, deaths, sigterms>>

\* The second look at the flag, before the back-off.
Reaped ==
  /\ pc = "reaped"
  /\ pc' = IF requested THEN "stop" ELSE "respawn"
  /\ UNCHANGED <<requested, slot, pids, proc, forked, deaths, sigterms>>

\* Mutant: the wrong index is refilled.
RespawnNeighbour ==
  /\ pc = "respawn"
  /\ Fork((slot + 1) % (NumWorkers + 1))
  /\ pc' = "check" /\ slot' = 0
  /\ UNCHANGED <<requested, deaths, sigterms>>

\* usleep, which a signal only cuts short, and fork.
Respawn ==
  /\ pc = "respawn"
  /\ Fork(slot)
  /\ pc' = "check" /\ slot' = 0
  /\ UNCHANGED <<requested, deaths, sigterms>>

\* Mutant: the pid of the dead child stays in the table.
RespawnFailsKept ==
  /\ ForkMayFail /\ pc = "respawn"
  /\ pc' = "check" /\ slot' = 0
  /\ UNCHANGED <<requested, pids, proc, forked, deaths, sigterms>>

RespawnFails ==
  /\ ForkMayFail /\ pc = "respawn"
  /\ pids' = [pids EXCEPT ![slot] = 0]
  /\ pc' = "check" /\ slot' = 0
  /\ UNCHANGED <<requested, proc, forked, deaths, sigterms>>

(* The parent: shutdown *)

\* The loop is over: with the flag set the children are stopped, without it
\* (there are none left) the parent exits.
Stop ==
  /\ pc = "stop"
  /\ slot' = 0
  /\ IF requested
     THEN pc' = "kill" /\ proc' = proc
     ELSE pc' = "exited" /\ proc' = Orphaned
  /\ UNCHANGED <<requested, pids, forked, deaths, sigterms>>

\* Mutant: the workers are stopped, the cache reader is forgotten.
KillNextWorker ==
  /\ pc = "kill" /\ slot <= NumWorkers
  /\ proc' = IF slot # Reader /\ pids[slot] # 0
             THEN [proc EXCEPT ![pids[slot]].pending = Living(pids[slot]),
                               ![pids[slot]].told = TRUE]
             ELSE proc
  /\ slot' = slot + 1
  /\ UNCHANGED <<pc, requested, pids, forked, deaths, sigterms>>

\* kill(pid, SIGTERM), slot by slot; a dead or reaped process is not affected.
KillNext ==
  /\ pc = "kill" /\ slot <= NumWorkers
  /\ proc' = IF pids[slot] # 0
             THEN [proc EXCEPT ![pids[slot]].pending = Living(pids[slot]),
                               ![pids[slot]].told = TRUE]
             ELSE proc
  /\ slot' = slot + 1
  /\ UNCHANGED <<pc, requested, pids, forked, deaths, sigterms>>

KilledAll ==
  /\ pc = "kill" /\ slot > NumWorkers
  /\ pc' = "drain" /\ slot' = 0
  /\ UNCHANGED <<requested, pids, proc, forked, deaths, sigterms>>

\* Mutant: one wait() instead of a loop.
DrainOnce(p) ==
  /\ pc \in {"drain", "drain_blocked"} /\ Zombie(p)
  /\ proc' = [Orphaned EXCEPT ![p].life = "reaped"]
  /\ pc' = "exited"
  /\ UNCHANGED <<requested, slot, pids, forked, deaths, sigterms>>

\* while (wait() > 0): a child, no more children, or neither yet.
Drain(p) ==
  /\ pc \in {"drain", "drain_blocked"} /\ Zombie(p)
  /\ proc' = [proc EXCEPT ![p].life = "reaped"]
  /\ pc' = "drain"
  /\ UNCHANGED <<requested, slot, pids, forked, deaths, sigterms>>

DrainBlock ==
  /\ pc = "drain" /\ ~Childless /\ \A p \in Pid : ~Zombie(p)
  /\ pc' = "drain_blocked"
  /\ UNCHANGED <<requested, slot, pids, proc, forked, deaths, sigterms>>

Drained ==
  /\ pc = "drain" /\ Childless
  /\ pc' = "exited"
  /\ UNCHANGED <<requested, slot, pids, proc, forked, deaths, sigterms>>

-----------------------------------------------------------------------------
(* Signals and children *)

\* SIGTERM reaches the parent: the handler sets the flag, and a blocked wait()
\* fails with EINTR (no SA_RESTART), which the two loops treat differently.
Sigterm ==
  /\ pc # "exited" /\ sigterms < MaxSigterm
  /\ sigterms' = sigterms + 1
  /\ requested' = TRUE
  /\ pc' = CASE pc = "blocked" -> "check"
             [] pc = "drain_blocked" -> "exited"
             [] OTHER -> pc
  /\ proc' = IF pc = "drain_blocked" THEN Orphaned ELSE proc
  /\ UNCHANGED <<slot, pids, forked, deaths>>

\* prctl(PR_SET_PDEATHSIG, SIGTERM), then signal(SIGTERM, SIG_DFL).
ChildStarts(p) ==
  /\ proc[p].life \in {"fresh", "tied"}
  /\ proc' = [proc EXCEPT ![p].life = IF @ = "fresh" THEN "tied" ELSE "up"]
  /\ UNCHANGED <<pc, requested, slot, pids, forked, deaths, sigterms>>

\* A pending SIGTERM is delivered: it kills a child that is up, and only sets the
\* flag of one that still has the parent's handler.
Deliver(p) ==
  /\ Living(p) /\ proc[p].pending
  /\ proc' = [proc EXCEPT ![p] =
                IF @.life = "up" THEN [@ EXCEPT !.pending = FALSE, !.life = "zombie"]
                                 ELSE [@ EXCEPT !.pending = FALSE, !.flag = TRUE]]
  /\ UNCHANGED <<pc, requested, slot, pids, forked, deaths, sigterms>>

\* run_cache_reader looks at the flag; FcgiServer::run does not.
ReaderStops(p) ==
  /\ proc[p].slot = Reader /\ proc[p].life = "up" /\ proc[p].flag
  /\ proc' = [proc EXCEPT ![p].life = "zombie", ![p].pending = FALSE]
  /\ UNCHANGED <<pc, requested, slot, pids, forked, deaths, sigterms>>

\* A child crashes or exits by itself.
Die(p) ==
  /\ Living(p) /\ deaths < MaxDeaths
  /\ deaths' = deaths + 1
  /\ proc' = [proc EXCEPT ![p].life = "zombie", ![p].pending = FALSE]
  /\ UNCHANGED <<pc, requested, slot, pids, forked, sigterms>>

-----------------------------------------------------------------------------
ParentStep ==
  \/ StartFork \/ StartForkFails \/ Started
  \/ Check \/ Block \/ NoChildren \/ Reaped \/ Respawn \/ RespawnFails
  \/ Stop \/ KillNext \/ KilledAll \/ DrainBlock \/ Drained
  \/ \E p \in Pid : Reap(p) \/ Drain(p)

ChildStep(p) == ChildStarts(p) \/ Deliver(p) \/ ReaderStops(p)

Next ==
  \/ ParentStep
  \/ Sigterm
  \/ \E p \in Pid : ChildStep(p) \/ Die(p)

Spec == Init /\ [][Next]_vars

\* The parent and the children run and signals are delivered; nobody has to
\* crash, and nobody has to send a SIGTERM to the parent.
FairSpec ==
  /\ Spec
  /\ WF_vars(ParentStep)
  /\ \A p \in Pid : WF_vars(ChildStep(p))

-----------------------------------------------------------------------------
(* Properties *)

\* A slot never has two processes: replacing children, in whatever order they
\* die, never starts a second cache reader, which would push every telegram twice.
OnePerSlot ==
  \A p, q \in Pid : Living(p) /\ Living(q) /\ proc[p].slot = proc[q].slot => p = q

\* When the parent begins to wait for its children to stop, or has exited, every
\* child that still lives was sent SIGTERM: none falls between a restart and the
\* shutdown, and none is left behind by a failed fork.
NoneForgotten ==
  pc \in {"drain", "drain_blocked", "exited"} =>
    \A p \in Pid : Living(p) => proc[p].told

\* The table still has the pid of a child that wait() has returned: the kernel may
\* have given it to a process that is not the server's.
Stale(s) == \E p \in Pid : pids[s] = p /\ proc[p].life = "reaped"

\* SIGTERM goes to all children and, but for one pid, to nobody else: NoneForgotten,
\* and when the parent goes through its table at most one pid in it is stale, that
\* of the child it had just reaped when it found the flag set.
ChildrenTold ==
  /\ NoneForgotten
  /\ pc = "kill" => \A s, t \in Slot : Stale(s) /\ Stale(t) => s = t

\* "The parent forwards the signal to all children, waits for them to exit, then
\* exits itself": no child outlives the parent, unless a SIGTERM interrupts the
\* wait() of its last loop.
ExitsLast ==
  [][(pc # "exited" /\ pc' = "exited" /\ sigterms' = sigterms)
       => \A p \in Pid : ~Living(p)']_vars

Supervising == pc \in {"check", "wait", "blocked", "reaped", "respawn"}

\* "Every dead child is logged and restarted", the cache reader too, unless fork()
\* fails for it (pids[s] = 0) or the shutdown begins.
SlotsRefilled ==
  \A s \in Slot :
    (Supervising /\ ~\E p \in Pid : Living(p) /\ proc[p].slot = s)
      ~> ((\E p \in Pid : Living(p) /\ proc[p].slot = s) \/ pids[s] = 0 \/ ~Supervising)

\* p lives on after the SIGTERM of the parent: it took it with the inherited handler.
Survived(p) == Living(p) /\ proc[p].told /\ ~proc[p].pending

\* The shutdown completes, whatever the children are doing when it begins: only a
\* worker that took its SIGTERM before signal(SIGTERM, SIG_DFL) can keep the parent
\* waiting.  The cache reader cannot, since it looks at its copy of the flag.
PoolStops ==
  (pc = "kill") ~> (pc = "exited" \/ \E p \in Pid : Survived(p) /\ proc[p].slot # Reader)

\* The comment on sigaction says that the parent does not keep waiting once it is
\* asked to stop: SIGTERM makes it leave the supervisor loop.
ShutdownNoticed == requested ~> ~Supervising

\* "... waits for them to exit, then exits itself": the parent's last loop ends.
ShutdownCompletes == (pc = "drain") ~> (pc = "exited")
=============================================================================
