----------------------------- MODULE CacheIndex -----------------------------
(***************************************************************************)
(* The index arithmetic both group caches share.                           *)
(*                                                                         *)
(* A cache counts its pushes in a uint32_t that wraps at W = 2^32.  What   *)
(* clients see, the index "i", is that counter modulo M = kPositionModulus.*)
(* An entry is stamped with the index of its own push, and get_delta       *)
(* compares stamps and client indices by their distance modulo M.  W is    *)
(* not a multiple of M, so the index jumps when the counter wraps.         *)
(***************************************************************************)
EXTENDS Integers

CONSTANTS M,    \* kPositionModulus, 100000 in the code
          W     \* number of values of a uint32_t, 2^32 in the code

\* What the arithmetic needs of the two numbers.  The code's values satisfy
\* the last conjunct because 2^32 % 100000 = 67296; with a modulus for which
\* it fails, get_delta loses entries when the counter wraps.
ASSUME IndexAssumption ==
  /\ M \in Nat /\ M >= 2
  /\ W \in Nat /\ W >= 2 * M
  /\ 2 * (W % M) > M

\* Conversion of a mathematical integer to uint32_t.
UInt(x) == x % W

\* The counter after one fetch_add(1).
FetchAdd(raw) == UInt(raw + 1)

\* position(): the client-facing index of a counter value.
Wrapped(raw) == raw % M

\* (x - since_pos + kPositionModulus) % kPositionModulus, in uint32_t.
Distance(x, since) == UInt(x - since + M) % M

\* The client seems to be half a modulus or more behind: full refresh.
EpochMismatch(pos, since) ==
  since # 0 /\ Distance(pos, since) >= M \div 2

\* Mutant: an entry as old as the client's index counts as newer.
InDeltaNotStrict(pushed_at, since, pos) ==
  \/ EpochMismatch(pos, since)
  \/ Distance(pushed_at, since) <= Distance(pos, since)

\* Whether get_delta(since) hands out an entry stamped pushed_at when the
\* index is pos (the age filter left aside).
InDelta(pushed_at, since, pos) ==
  \/ EpochMismatch(pos, since)
  \/ /\ Distance(pushed_at, since) <= Distance(pos, since)
     /\ since = 0 \/ Distance(pushed_at, since) # 0
=============================================================================
