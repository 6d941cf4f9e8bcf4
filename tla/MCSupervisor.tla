---------------------------- MODULE MCSupervisor ----------------------------
(***************************************************************************)
(* The instance of the supervisor for TLC.  Its two models share no state: *)
(* Supervisor has the processes and the signals, without time, and         *)
(* RestartBackoff has the delays, with time.  A behaviour is one of the    *)
(* first or one of the second.                                             *)
(***************************************************************************)
EXTENDS Supervisor, RestartBackoff

VARIABLE part

MCInit == Init /\ BackoffInit /\ part \in {"pool", "delays"}

Pool(A) == part = "pool" /\ A /\ UNCHANGED <<part, backoffVars>>
Delays(A) == part = "delays" /\ A /\ UNCHANGED <<part, vars>>

MCNext ==
  \/ Pool(ParentStep)
  \/ Pool(Sigterm)
  \/ \E p \in Pid : Pool(ChildStep(p)) \/ Pool(Die(p))
  \/ \E c \in Child : \/ Delays(ChildDies(c)) \/ Delays(OnDeath(c))
                      \/ Delays(OnSpawn(c)) \/ Delays(OnSpawnFails(c))
  \/ Delays(TimePasses)

MCSpec ==
  /\ MCInit /\ [][MCNext]_<<vars, backoffVars, part>>
  /\ WF_vars(part = "pool" /\ ParentStep)
  /\ \A p \in Pid : WF_vars(part = "pool" /\ ChildStep(p))
=============================================================================
