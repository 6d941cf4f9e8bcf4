---------------------------- MODULE QueryString ----------------------------
(***************************************************************************)
(* The constructor of QueryString: one pass over the '&'-separated pairs   *)
(* of a query string, with three limits on what it keeps.                  *)
(*                                                                         *)
(* A query string is a sequence of pairs.  A pair is the spelling of its   *)
(* key, or Malformed when it has no '='; its value is named by the pair's  *)
(* position, so that no two values are alike.  url_decode maps spellings   *)
(* to keys: several spellings of one key share one entry.  A trailing '&'  *)
(* adds no pair.                                                           *)
(***************************************************************************)
EXTENDS Naturals, Sequences, FiniteSets

CONSTANTS kMaxQueryParams, kMaxValuesPerKey, kMaxTotalPairs,
          Spelling,      \* the percent-encoded texts of keys
          url_decode,    \* the key a spelling stands for
          Malformed,
          MaxPairs       \* bound: pairs of a query string

(* A key that is kept has room for a value. *)
ASSUME QueryAssumption ==
    /\ kMaxQueryParams \in Nat /\ kMaxValuesPerKey \in Nat \ {0}
    /\ kMaxTotalPairs \in Nat /\ MaxPairs \in Nat
    /\ Malformed \notin Spelling

VARIABLES raw,           \* the query string of the request
          total_pairs,   \* how many pairs the loop has taken; pos is behind them
          params_

queryVars == <<raw, total_pairs, params_>>

Key == {url_decode[s] : s \in Spelling}

QueryStrings == UNION {[1..n -> Spelling \cup {Malformed}] : n \in 0..MaxPairs}

NoParams == [k \in {} |-> << >>]

QueryInit == raw \in QueryStrings /\ total_pairs = 0 /\ params_ = NoParams

(* Mutant: one value too many. *)
StoreLate(params, key, value) ==
    IF key \in DOMAIN params
    THEN IF Len(params[key]) > kMaxValuesPerKey THEN params
         ELSE [params EXCEPT ![key] = Append(@, value)]
    ELSE IF Cardinality(DOMAIN params) >= kMaxQueryParams THEN params
         ELSE [k \in DOMAIN params \cup {key} |->
                 IF k = key THEN <<value>> ELSE params[k]]

(* A key that is there gets another value, a new one an entry, within the   *)
(* limits; otherwise the pair is skipped.                                   *)
Store(params, key, value) ==
    IF key \in DOMAIN params
    THEN IF Len(params[key]) >= kMaxValuesPerKey THEN params
         ELSE [params EXCEPT ![key] = Append(@, value)]
    ELSE IF Cardinality(DOMAIN params) >= kMaxQueryParams THEN params
         ELSE [k \in DOMAIN params \cup {key} |->
                 IF k = key THEN <<value>> ELSE params[k]]

(* The loop is over: nothing is left, or enough pairs were taken, malformed *)
(* ones included.                                                           *)
Parsed == total_pairs = Len(raw) \/ total_pairs >= kMaxTotalPairs

(* One turn of the loop. *)
ParsePair ==
    /\ ~Parsed
    /\ total_pairs' = total_pairs + 1
    /\ params_' = IF raw[total_pairs + 1] = Malformed THEN params_
                  ELSE Store(params_, url_decode[raw[total_pairs + 1]], total_pairs + 1)
    /\ UNCHANGED raw

QuerySpec == QueryInit /\ [][ParsePair]_queryVars

(* get_all; get is its first element. *)
get_all(params, key) == IF key \in DOMAIN params THEN params[key] ELSE << >>

--------------------------------------------------------------------------
(* The positions among the first n pairs whose key is k. *)
At(pairs, n, k) == {i \in 1..n : pairs[i] # Malformed /\ url_decode[pairs[i]] = k}

(* The keys that occur before k does. *)
KeysBefore(pairs, n, k) ==
    {j \in Key : \E h \in At(pairs, n, j) : \A i \in At(pairs, n, k) : h < i}

(* The first positions of a key, as many as there may be values. *)
FirstAt(pairs, n, k) ==
    {i \in At(pairs, n, k) :
       Cardinality({h \in At(pairs, n, k) : h < i}) < kMaxValuesPerKey}

(* What the limits leave of a key: its first values, if it is among the     *)
(* first keys, and nothing otherwise.                                       *)
KeptOf(pairs, n, k) ==
    IF Cardinality(KeysBefore(pairs, n, k)) < kMaxQueryParams THEN FirstAt(pairs, n, k) ELSE {}

InOrder(s) == \A i, j \in DOMAIN s : i < j => s[i] < s[j]

(* The limits only cut off the end: of the pairs within kMaxTotalPairs, a   *)
(* key is kept when fewer than kMaxQueryParams keys occurred before it, and *)
(* then get_all gives its first kMaxValuesPerKey values in order, whatever  *)
(* pairs were skipped in between and however the key was spelled.           *)
LimitsKeepFirst ==
    LET n == IF Len(raw) < kMaxTotalPairs THEN Len(raw) ELSE kMaxTotalPairs
    IN  Parsed => \A k \in Key :
          LET values == get_all(params_, k)
          IN  {values[i] : i \in DOMAIN values} = KeptOf(raw, n, k) /\ InOrder(values)
=============================================================================
