-------------------------- MODULE MCRecordOffsets ---------------------------
(***************************************************************************)
(* Instances of RecordOffsets for TLC.  The tables have a key of fixed     *)
(* length, a nullable integer, a short and a long VARCHAR and a BLOB, in   *)
(* several orders; the lengths lie around 127, where a length takes a      *)
(* second byte, and 255, where a column becomes long.                      *)
(***************************************************************************)
EXTENDS RecordOffsets

Field(null, fixed, max, lob) ==
    [can_be_null |-> null, fixed_length |-> fixed, max_length |-> max, lob |-> lob]

Key == Field(FALSE, 6, 0, FALSE)
NullInt == Field(TRUE, 4, 0, FALSE)
Short == Field(FALSE, 0, 255, FALSE)
NullLong == Field(TRUE, 0, 300, FALSE)
Blob == Field(TRUE, 0, 65535, TRUE)

MCTables == {<<Key, NullInt, Short>>, <<Key, Short, NullLong>>, <<Short, Blob, NullInt>>,
             <<Key, Blob, NullLong>>}

MCOrigins == {7, 140, 16000}
MCLengths == {0, 20, 127, 128, 255, 256, 300, 788}

MCBytes == {0, 4, 6, 127, 128, 129, 192, 255}
=============================================================================
