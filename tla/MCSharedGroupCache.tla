------------------------- MODULE MCSharedGroupCache -------------------------
(* Instances of SharedGroupCache for TLC. *)
EXTENDS SharedGroupCache

\* 0/0/0, and more other addresses than the two slots; 1 and 3 share a home slot.
FourAddresses == {0, 1, 3, 4}

\* A payload that is cut to the size of an entry; entries differ in their stamps.
LongPayload == {<<1, 1, 0>>}
=============================================================================
