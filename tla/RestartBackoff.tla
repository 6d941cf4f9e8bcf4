--------------------------- MODULE RestartBackoff ---------------------------
(***************************************************************************)
(* The delays of the supervisor: every child has a RestartBackoff, which   *)
(* doubles the delay before each restart and starts again from the base    *)
(* delay when the child "had been running fine".  The delay is a usleep of *)
(* the one supervisor loop, so meanwhile no other dead child is reaped.    *)
(*                                                                         *)
(* Time is discrete.  It passes while the supervisor sleeps and while it   *)
(* has nothing to do: reaping and forking take no time.                    *)
(***************************************************************************)
EXTENDS Integers

CONSTANTS Child,          \* the cache reader and the workers
          Nobody,         \* not a child
          BaseDelay,      \* 100 ms in the code
          MaxDelay,       \* 30 s in the code
          RunningFine     \* 60 s in the code

VARIABLES delay,      \* delay[c]: delay_ms
          lived,      \* lived[c]: the time since started_at, as far as it matters
          status,     \* status[c]: "up", "dead" (not reaped), "restarting" or
                      \* "gone" (its fork failed)
          sleeper,    \* the child for which the supervisor sleeps, or Nobody
          left,       \* what is left of that sleep
          ran,        \* history, ran[c]: how long the process ran before it died
          overtaken   \* history, overtaken[c]: the delays of other children that
                      \* fell into the time c has been dead

backoffVars == <<delay, lived, status, sleeper, left, ran, overtaken>>

ASSUME BackoffAssumption ==
  /\ Nobody \notin Child
  /\ BaseDelay \in Nat \ {0} /\ MaxDelay \in Nat /\ BaseDelay <= MaxDelay
  /\ RunningFine \in Nat

\* Ages beyond RunningFine are not told apart.
Age == 0..(RunningFine + 1)
Older(age) == IF age > RunningFine THEN age ELSE age + 1

BackoffTypeOK ==
  /\ delay \in [Child -> BaseDelay..MaxDelay]
  /\ lived \in [Child -> Age] /\ ran \in [Child -> Age]
  /\ status \in [Child -> {"up", "dead", "restarting", "gone"}]
  /\ sleeper \in Child \cup {Nobody} /\ left \in 0..MaxDelay
  /\ overtaken \in [Child -> Nat]

BackoffInit ==
  /\ delay = [c \in Child |-> BaseDelay]
  /\ lived = [c \in Child |-> 0] /\ ran = [c \in Child |-> 0]
  /\ status = [c \in Child |-> "up"]
  /\ sleeper = Nobody /\ left = 0
  /\ overtaken = [c \in Child |-> 0]

-----------------------------------------------------------------------------

\* The process dies; a delay that is under way delays its reaping too.
ChildDies(c) ==
  /\ status[c] = "up"
  /\ status' = [status EXCEPT ![c] = "dead"]
  /\ overtaken' = [overtaken EXCEPT ![c] = IF sleeper = Nobody THEN 0 ELSE 1]
  /\ UNCHANGED <<delay, lived, sleeper, left, ran>>

\* wait_ms of on_death().
WaitMs(c) == IF lived[c] > RunningFine THEN BaseDelay ELSE delay[c]

\* wait() returns the dead child that was forked first (the kernel's list of
\* children is in that order); on_death(), and usleep begins.
OnDeath(c) ==
  /\ sleeper = Nobody /\ status[c] = "dead"
  /\ \A d \in Child : status[d] = "dead" => lived[d] <= lived[c]
  /\ sleeper' = c
  /\ left' = WaitMs(c)
  /\ delay' = [delay EXCEPT ![c] = IF 2 * WaitMs(c) < MaxDelay THEN 2 * WaitMs(c)
                                                              ELSE MaxDelay]
  /\ status' = [status EXCEPT ![c] = "restarting"]
  /\ overtaken' = [d \in Child |-> IF d # c /\ status[d] = "dead" THEN overtaken[d] + 1
                                                                 ELSE overtaken[d]]
  /\ UNCHANGED <<lived, ran>>

\* Mutant: started_at is not renewed.
OnSpawnForgotten(c) ==
  /\ sleeper = c /\ left = 0
  /\ sleeper' = Nobody
  /\ status' = [status EXCEPT ![c] = "up"]
  /\ ran' = [ran EXCEPT ![c] = 0]
  /\ UNCHANGED <<delay, lived, left, overtaken>>

\* The delay is over: fork() and on_spawn().
OnSpawn(c) ==
  /\ sleeper = c /\ left = 0
  /\ sleeper' = Nobody
  /\ status' = [status EXCEPT ![c] = "up"]
  /\ lived' = [lived EXCEPT ![c] = 0]
  /\ ran' = [ran EXCEPT ![c] = 0]
  /\ UNCHANGED <<delay, left, overtaken>>

\* fork() fails: the child is not tried again.
OnSpawnFails(c) ==
  /\ sleeper = c /\ left = 0
  /\ sleeper' = Nobody
  /\ status' = [status EXCEPT ![c] = "gone"]
  /\ UNCHANGED <<delay, lived, left, ran, overtaken>>

TimePasses ==
  /\ IF sleeper = Nobody THEN \A c \in Child : status[c] # "dead" ELSE left > 0
  /\ left' = IF sleeper = Nobody THEN left ELSE left - 1
  /\ lived' = [c \in Child |-> Older(lived[c])]
  /\ ran' = [c \in Child |-> IF status[c] = "up" THEN Older(ran[c]) ELSE ran[c]]
  /\ UNCHANGED <<delay, status, sleeper, overtaken>>

BackoffNext ==
  \/ \E c \in Child : ChildDies(c) \/ OnDeath(c) \/ OnSpawn(c) \/ OnSpawnFails(c)
  \/ TimePasses

BackoffSpec == BackoffInit /\ [][BackoffNext]_backoffVars

-----------------------------------------------------------------------------
(* Properties *)

\* The delay of c starts again from the base delay.
Reset(c) == sleeper = Nobody /\ sleeper' = c /\ left' < delay[c]

\* The delay of a child that keeps dying grows: it is reset only if the child ran so
\* long that, with a full delay for every other child restarted while it was dead,
\* more than 60 s have passed since its start.
ResetOnlyIfOvertaken ==
  [][\A c \in Child : Reset(c) => ran[c] + overtaken[c] * MaxDelay > RunningFine]_backoffVars

\* main.cpp:539: "a child that dies right after starting is restarted with a growing
\* delay (100 ms ... 30 s) instead of spinning in a fork/crash loop".
CrashLoopThrottled ==
  [][\A c \in Child : ran[c] = 0 => ~Reset(c)]_backoffVars
=============================================================================
