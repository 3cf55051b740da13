---------------------------- MODULE MCFetchData -----------------------------
(***************************************************************************)
(* Instances of FetchData for TLC: twenty keys, so that a success run is   *)
(* long enough to double the range, and any few of them corrupted.         *)
(***************************************************************************)
EXTENDS FetchData

CONSTANT MaxBad

Missing == {5, 12}   \* keys that no row has

MCRows == (minPK .. maxPK) \ Missing

MCBadSets == {Bads \in SUBSET MCRows : Cardinality(Bads) <= MaxBad}
=============================================================================
