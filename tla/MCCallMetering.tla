--------------------------- MODULE MCCallMetering ---------------------------
(***************************************************************************)
(* Small instances of CallMetering.  Requests are interchangeable, and so  *)
(* are sweepers.                                                           *)
(***************************************************************************)
EXTENDS CallMetering

Interchangeable == Permutations(Requests) \cup Permutations(Sweepers)
=============================================================================
