---------------------------- MODULE MCEibdStream ----------------------------
(* Three byte values; messages without data, with data, and a long one. *)
EXTENDS EibdStream

SmallMessages == {[type |-> 0, data |-> <<>>], [type |-> 7, data |-> <<2, 0>>],
                  [type |-> 5, data |-> <<0, 1, 2, 2, 1>>]}

=============================================================================
