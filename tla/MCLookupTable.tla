---------------------------- MODULE MCLookupTable ----------------------------
(* Instances of LookupTable: one book, and two books in one process. *)
EXTENDS LookupTable

OneBook == {"b1"}
TwoBooks == {"b1", "b2"}
==============================================================================
