------------------------------ MODULE PollTime ------------------------------
(***************************************************************************)
(* How long a poll of /r waits: LONGPOLL_TIMEOUT_SEC and the t of the      *)
(* request, in the integers of the code, and the loop that waits on the    *)
(* cache, woken by telegrams that are not for this client.                 *)
(*                                                                         *)
(* An int has the values -(IntMax + 1)..IntMax.  A text that is a number   *)
(* stands for the number; it may be too large for an int.                  *)
(***************************************************************************)
EXTENDS Integers

CONSTANTS IntMax,         \* 2^31 - 1 in the code
          Second,         \* ticks of a second: 1000 in the code
          Settings,       \* texts of LONGPOLL_TIMEOUT_SEC
          Timeouts,       \* texts of t
          None,           \* no text, or one that is no number
          DefaultSec,     \* 300 in the code
          MaxSec          \* kMaxLongpollTimeoutSec, 3600 in the code

VARIABLES pollPc,         \* "none", "loop", "waiting" or "done"
          timeout_sec,
          elapsed,        \* ticks since tstart
          deadline,       \* when the wait on the condition variable times out
          spun            \* history: a turn of the loop did not wait

pollVars == <<pollPc, timeout_sec, elapsed, deadline, spun>>

ASSUME PollAssumption ==
  /\ IntMax \in Nat /\ Second \in Nat \ {0}
  /\ DefaultSec \in 1..MaxSec /\ MaxSec \in Nat /\ MaxSec * Second <= IntMax
  /\ \A text \in Settings \cup Timeouts : text # None => text \in Int

IntRange == -(IntMax + 1)..IntMax

\* static_cast<int>: the low bits.
ToInt(x) == ((x + IntMax + 1) % (2 * (IntMax + 1))) - (IntMax + 1)

\* The results an expression of type int may have whose value is x: an overflow is
\* undefined behaviour.
IntResult(x) == IF x \in IntRange THEN {x} ELSE IntRange

parse_env_int(raw, default_val, min_val, max_val) ==
  IF raw = None \/ raw < min_val THEN default_val
  ELSE IF ToInt(raw) > max_val THEN max_val ELSE ToInt(raw)

longpoll_timeout(raw) == parse_env_int(raw, DefaultSec, 1, MaxSec)

\* std::from_chars refuses what does not fit.
parse_timeout(text) == IF text \in IntRange THEN {text} ELSE {}

\* t = 0 is a short poll, t < 0 none.
TimeoutOf(t) == IF t > 0 THEN t ELSE IF t = 0 THEN 1 ELSE 0

\* The timeouts that a request polls with: none if it is refused.
PollTimeouts(setting, text) ==
  IF text = None THEN {longpoll_timeout(setting)} ELSE {TimeoutOf(t) : t \in parse_timeout(text)}

PollNone ==
  pollPc = "none" /\ timeout_sec = 0 /\ elapsed = 0 /\ deadline = 0 /\ spun = FALSE

\* The initial read, if there was one, has given nothing.
PollInit ==
  /\ pollPc = "loop"
  /\ \E setting \in Settings, text \in Timeouts : timeout_sec \in PollTimeouts(setting, text)
  /\ elapsed = 0 /\ deadline = 0 /\ spun = FALSE

\* Mutant: what has passed is not taken off.
RemainingWhole == {timeout_sec}

\* timeout_sec - elapsed, in whole seconds.
Remaining == IntResult(timeout_sec - elapsed \div Second)

PollLeave ==
  /\ pollPc = "loop"
  /\ timeout_sec <= 0 \/ \E remaining \in Remaining : remaining <= 0
  /\ pollPc' = "done"
  /\ UNCHANGED <<timeout_sec, elapsed, deadline, spun>>

\* wait_for_new_data(remaining * 1000).
PollWait ==
  /\ pollPc = "loop" /\ timeout_sec > 0
  /\ \E remaining \in Remaining :
       /\ remaining > 0
       /\ \E timeout_ms \in IntResult(remaining * Second) :
            /\ timeout_ms > 0
            /\ pollPc' = "waiting"
            /\ deadline' = elapsed + timeout_ms
  /\ UNCHANGED <<timeout_sec, elapsed, spun>>

\* With timeout_ms <= 0 it only looks whether anything was ever pushed; if so,
\* get_delta finds nothing for the client, and the loop goes on.
PollNoWait(pushed) ==
  /\ pollPc = "loop" /\ timeout_sec > 0
  /\ \E remaining \in Remaining :
       remaining > 0 /\ \E timeout_ms \in IntResult(remaining * Second) : timeout_ms <= 0
  /\ pollPc' = IF pushed THEN "loop" ELSE "done"
  /\ spun' = (spun \/ pushed)
  /\ UNCHANGED <<timeout_sec, elapsed, deadline>>

\* A push: the delta has something for the client, or nothing.
PollWoken(mine) ==
  /\ pollPc = "waiting"
  /\ pollPc' = IF mine THEN "done" ELSE "loop"
  /\ deadline' = 0
  /\ UNCHANGED <<timeout_sec, elapsed, spun>>

PollTimedOut ==
  /\ pollPc = "waiting" /\ elapsed >= deadline
  /\ pollPc' = "done" /\ deadline' = 0
  /\ UNCHANGED <<timeout_sec, elapsed, spun>>

\* The process may also be held up outside the wait.
PollTick ==
  /\ \/ pollPc = "waiting" /\ elapsed < deadline
     \/ pollPc = "loop" /\ elapsed < timeout_sec * Second
  /\ elapsed' = elapsed + 1
  /\ UNCHANGED <<pollPc, timeout_sec, deadline, spun>>

\* The answer is written.
PollAnswer ==
  /\ pollPc = "done"
  /\ pollPc' = "none" /\ timeout_sec' = 0 /\ elapsed' = 0 /\ deadline' = 0 /\ spun' = FALSE

PollNext ==
  \/ PollLeave
  \/ PollWait
  \/ \E pushed \in BOOLEAN : PollNoWait(pushed)
  \/ \E mine \in BOOLEAN : PollWoken(mine)
  \/ PollTimedOut
  \/ PollTick
  \/ PollAnswer

PollSpec == (PollInit \/ PollNone) /\ [][PollNext]_pollVars

-----------------------------------------------------------------------------
(* Properties *)

\* A poll whose milliseconds fit into an int, as those of every setting do, sleeps on
\* each turn of its loop, and however often it is woken for nothing its last wait ends
\* less than a second after its timeout.
PollsInTime ==
  timeout_sec * Second <= IntMax =>
    ~spun /\ (pollPc = "waiting" => deadline < (timeout_sec + 1) * Second)

\* read_handler.cpp:210: "Block on the shared condition variable - zero CPU."
PollsSleep == ~spun

\* README.md:52 on LONGPOLL_TIMEOUT_SEC: "Max seconds to wait in long-poll /r".
PollsWithinMaximum == timeout_sec <= MaxSec

\* main.cpp:122: "Returns the parsed value clamped to [min_val, max_val]".
SettingClamped ==
  \A raw \in Settings : longpoll_timeout(raw) \in 1..MaxSec
=============================================================================
