----------------------------- MODULE MCCParser ------------------------------
(***************************************************************************)
(* An instance of CParser for TLC.  A page has 10 bytes: lists may hold    *)
(* two records, three hops from the infimum to the supremum, which COMPACT *)
(* and REDUNDANT pages have at different places.                           *)
(***************************************************************************)
EXTENDS CParser

MCInfimum(c) == IF c THEN 3 ELSE 4
MCSupremum(c) == IF c THEN 5 ELSE 6
MCExtra(c) == IF c THEN 1 ELSE 2

\* Pointers into the page and just behind it, the largest and the smallest
\* that two bytes can hold, and small steps back.
MCLinks == 0 .. UNIV_PAGE_SIZE + 1
              \cup {2 * UNIV_PAGE_SIZE - 1, 2 * UNIV_PAGE_SIZE}
              \cup TwoBytes - 3 .. TwoBytes - 1

Leaf(c, n, free, garbage) ==
    [index_ok |-> TRUE, comp |-> c, leaf |-> TRUE,
     n_recs |-> n, free |-> free, garbage |-> garbage]

\* Pages of both formats; an inner page, a page of another index, one without
\* records, and those with deleted records that -d takes and refuses.
MCHeaders ==
    {Leaf(c, 2, 0, 0) : c \in BOOLEAN}
    \cup {[Leaf(TRUE, 2, 0, 0) EXCEPT !.leaf = FALSE],
          [Leaf(TRUE, 2, 0, 0) EXCEPT !.index_ok = FALSE]}
    \cup {Leaf(TRUE, 0, 0, 0), Leaf(TRUE, 2, 7, 1), Leaf(TRUE, 2, 7, 0),
          Leaf(FALSE, 2, UNIV_PAGE_SIZE + 1, 1)}

Options == {<< >>, <<"D">>, <<"D", "U">>, <<"U", "D">>, <<"d", "T">>}
=============================================================================
