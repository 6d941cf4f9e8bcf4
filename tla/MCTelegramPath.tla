--------------------------- MODULE MCTelegramPath ---------------------------
(***************************************************************************)
(* The conversions between clients and the bus: values of the constants of *)
(* TelegramPath, QueryString, RequestPath and PollTime for model checking. *)
(* A behaviour starts with any of the bounded query strings, any of the    *)
(* requests to be routed, or any poll; once it is dealt with, the          *)
(* conversions of TelegramPath follow.                                     *)
(***************************************************************************)
EXTENDS TelegramPath, QueryString, RequestPath, PollTime

(* "bf": a six-bit value; "80a5f1", "8001a5f1": as long as an entry has     *)
(* room for, and longer; "c0": both upper bits; refused: nothing, an odd    *)
(* length, a character that is not hex, no write bit.                       *)
MCValues == {<<11, 15>>, <<8, 0, 10, 5, 15, 1>>, <<8, 0, 0, 1, 10, 5, 15, 1>>, <<12, 0>>,
             << >>, <<8>>, <<8, NotHex>>, <<4, 1>>}

(* No data at all, a read, a response, and neither. *)
MCForeign == {<< >>, <<0, 0>>, <<4, 0, 10, 5>>, <<12, 0>>}

Text(ns, parts) == [ns |-> ns, parts |-> parts]

(* Groups that only the middle part or only the main part tells apart, the  *)
(* ends of the range, 0/0/0, one group more than the table has slots, a     *)
(* foreign namespace, and texts that are no address.                        *)
MCAddresses == {Text(NoNs, <<0, 7, 255>>), Text("KNX", <<1, 3, 255>>),
                Text(NoNs, <<31, 7, 0>>), Text(NoNs, <<0, 0, 0>>), Text(NoNs, <<1, 2>>),
                Text(NoNs, <<0, 8, 1>>), Text("KNX", <<32, 0, 0>>),
                Text("", <<0, NotNumber, 1>>)}

(* Two spellings of one key, and two more keys. *)
MCSpelling == {"a", "%61", "s", "t"}

MCDecode == [s \in MCSpelling |-> IF s = "%61" THEN "a" ELSE s]

MCChar == {"/", "?", "l", "r", "w", "x"}

(* No prefix, one component, one that is also an endpoint's name, two.      *)
MCMounts == {<< >>, <<"/", "x">>, <<"/", "r">>, <<"/", "x", "/", "w">>}

MCNames == {<<"l">>, <<"r">>, <<"w">>, <<"x">>, <<"r", "x">>, <<"x", "r">>, << >>}

MCQueries == {<< >>, <<"?">>, <<"?", "x">>, <<"?", "/", "r">>, <<"?", "x", "?", "/", "l">>}

(* With ints below 16: settings below, in, above and far above the range,   *)
(* and timeouts whose ticks fit into an int, do not, and that are refused.  *)
MCSettings == {None, 0, 1, 2, 5, 17, 24}

MCTimeouts == {None, -1, 0, 1, 3, 5, 6, 15, 16}

Plain == [mount |-> << >>, name |-> <<"l">>, query |-> << >>, sets |-> "uri"]

NoQuery == raw = << >> /\ total_pairs = 0 /\ params_ = NoParams

Idle ==
    /\ raw = << >> /\ request = Plain /\ pollPc = "none"
    /\ UNCHANGED <<queryVars, request, pollVars>>

Parsing == UNCHANGED <<vars, request, pollVars>>

Polling == UNCHANGED <<vars, queryVars, request>>

MCInit ==
    /\ Init
    /\ \/ QueryInit /\ request = Plain /\ PollNone
       \/ NoQuery /\ request \in Requests /\ PollNone
       \/ NoQuery /\ request = Plain /\ PollInit

MCNext ==
    \/ ParsePair /\ Parsing
    \/ /\ raw # << >> /\ Parsed /\ Parsing
       /\ raw' = << >> /\ total_pairs' = 0 /\ params_' = NoParams
    \/ request # Plain /\ request' = Plain /\ UNCHANGED <<vars, queryVars, pollVars>>
    \/ \E text \in Addresses, v \in Values : HandleWrite(text, v) /\ Idle
    \/ \E g \in Groups, v \in Foreign : ForeignTelegram(g, v) /\ Idle
    \/ Drain /\ Idle
    \/ \E text \in Addresses : HandleRead(text) /\ Idle
    \/ PollNext /\ Polling

MCSpec == MCInit /\ [][MCNext]_<<vars, queryVars, request, pollVars>>
=============================================================================
