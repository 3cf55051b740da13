---------------------------- MODULE PageCarving ----------------------------
(***************************************************************************)
(* What carving pages out of a byte stream promises, with no cache, no     *)
(* reads and no runs of zeros: a cursor goes through the offsets from left *)
(* to right; at each page it may take the page and jump behind it, and it  *)
(* never passes a page that is sure to be recognised without taking it.    *)
(* StreamScan implements this specification.                               *)
(***************************************************************************)
EXTENDS Integers, Sequences

CONSTANTS
    PageSize,
    First      \* offset the cursor starts at

VARIABLES
    goal,      \* carving is complete when no whole page fits before it
    found,     \* offsets at which a page can be recognised
    certain,   \* those at which it is sure to be
    cursor,
    taken,     \* offsets of the pages taken, in order
    complete

carvingVars == <<goal, found, certain, cursor, taken, complete>>

CarvingInit ==
    /\ goal \in Nat
    /\ found \in SUBSET Nat
    /\ certain \in SUBSET found
    /\ cursor = First
    /\ taken = << >>
    /\ complete = FALSE

Take ==
    /\ ~ complete
    /\ cursor \in found
    /\ taken' = Append(taken, cursor)
    /\ cursor' = cursor + PageSize
    /\ UNCHANGED <<goal, found, certain, complete>>

Advance ==
    /\ ~ complete
    /\ cursor' > cursor
    /\ \A o \in certain : ~ (cursor <= o /\ o < cursor')
    /\ UNCHANGED <<goal, found, certain, taken, complete>>

Complete ==
    /\ ~ complete
    /\ cursor + PageSize > goal
    /\ complete' = TRUE
    /\ UNCHANGED <<goal, found, certain, cursor, taken>>

CarvingNext == Take \/ Advance \/ Complete

Carving == CarvingInit /\ [][CarvingNext]_carvingVars
=============================================================================
