--------------------------- MODULE MCInnoChecksum ---------------------------
(***************************************************************************)
(* Instances of InnoChecksum for TLC: two pages, each with every mix of    *)
(* right and wrong fields, every combination of -f, -l, -s, -e, and a      *)
(* second run.  Pages with different LSNs have different checksums, and so *)
(* have pages with different stored new checksums.                         *)
(***************************************************************************)
EXTENDS InnoChecksum, FiniteSets

MCLsns == {1, 2}
MCBodies == {0}
Junk == 7

MCChecksums == 0 .. 15
MCNewChecksum(lsn, body) == 10 + lsn
MCOldChecksum(csum, lsn, body) == (3 * csum + 5 * lsn) % 16

\* A page with each field right or wrong.
MCPage(zero, lsn, new_ok, lsn_ok, old_ok) ==
    LET csum == IF zero THEN 0 ELSE IF new_ok THEN MCNewChecksum(lsn, 0) ELSE Junk
    IN  [csum |-> csum, lsn |-> lsn, body |-> 0,
         end_lsn |-> IF lsn_ok THEN lsn ELSE 3 - lsn,
         end_csum |-> IF old_ok THEN MCOldChecksum(csum, lsn, 0) ELSE Junk]

MCPages == {MCPage(z, l, n, s, o) : z \in BOOLEAN, l \in MCLsns, n \in BOOLEAN,
                                    s \in BOOLEAN, o \in BOOLEAN}

MCFiles == {<<p, q>> : p \in MCPages, q \in MCPages}

MCOptions ==
    [fix_checksum : BOOLEAN, fix_lsn : BOOLEAN, fixed_lsn : {2}, start_page : {0, 1},
     use_end_page : {TRUE}, end_page : {0, 1}]
    \cup [fix_checksum : BOOLEAN, fix_lsn : BOOLEAN, fixed_lsn : {2}, start_page : {0, 1},
          use_end_page : {FALSE}, end_page : {0}]
=============================================================================
