----------------------------- MODULE MCTableDef ------------------------------
(***************************************************************************)
(* Instances of TableDef for TLC: tables of up to three columns with keys  *)
(* in any order, and tables of one column with a character set of its own. *)
(***************************************************************************)
EXTENDS TableDef

Column(sql, length, charset, null, key) ==
    [sql |-> sql, length |-> length, decimals |-> 0, n_values |-> 0,
     charset |-> charset, not_null |-> ~ null, key |-> key]

\* An integer with every kind of key clause, a CHAR and a VARCHAR.
MCColumnTypes ==
    {Column("INT", NoLength, NoCharset, FALSE, key) : key \in {"none", "primary", "unique"}}
    \cup {Column("INT", NoLength, NoCharset, TRUE, "unique"),
          Column("CHAR", NoLength, NoCharset, FALSE, "none"),
          Column("VARCHAR", 9, NoCharset, TRUE, "none")}

\* Columns with a character set of their own, and columns without.
MCCharColumns ==
    {Column(sql, 5, charset, FALSE, "none") :
        sql \in {"CHAR", "VARCHAR"}, charset \in {NoCharset, "latin1", "utf8", "utf8mb4"}}
=============================================================================
