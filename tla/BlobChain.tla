------------------------------ MODULE BlobChain ------------------------------
(***************************************************************************)
(* print_field_value_with_external of print_data.c: print a TEXT or BLOB   *)
(* value of which the record holds a prefix and a reference to a chain of  *)
(* BLOB pages.  The pages are files of a directory (option -b, the output  *)
(* of stream_parser) or are read from their places in one file (option     *)
(* -i).  Pages may be missing, cut short, overwritten, or linked in a      *)
(* cycle.  The module follows one c_parser through the values it prints;   *)
(* quotes and the form in which bytes are printed are left out.            *)
(***************************************************************************)
EXTENDS Integers, Sequences, Functions, FiniteSets

CONSTANTS
    Pages,              \* page numbers that values refer to
    PartLens,           \* part_len of a page that is a BLOB page or was one
    Lengths,            \* extern_len of a value
    UNIV_PAGE_SIZE,
    MaxOpen,            \* descriptors the process may open
    MaxValues           \* bound on the values printed

ASSUME BlobAssumption ==
    /\ Pages \subseteq Nat \cup {-1} /\ IsFiniteSet(Pages)
    /\ PartLens \subseteq Nat /\ Lengths \subseteq Nat
    /\ UNIV_PAGE_SIZE \in Nat \ {0}
    /\ MaxOpen \in Nat /\ MaxValues \in Nat

FIL_NULL == -1
Absent == [kind |-> "absent"]     \* no file of that name, or beyond the end of the file
Short == [kind |-> "short"]       \* less than a page can be read
Part(len, next) == [kind |-> "part", len |-> len, next |-> next]

\* What reading a page gives. (A file with several copies of a page has the
\* first of them here.)
Contents == {Absent, Short} \cup
            {Part(len, next) : len \in PartLens, next \in Pages \cup {0, FIL_NULL}}

VARIABLES
    store,      \* the pages on disk, [Pages -> Contents]
    ibdata,     \* whether there is a file of option -i and it can be opened
    external_in_ibdata, \* option -i, otherwise -b
    pc,         \* "idle" or "loop"
    page_no, far, extern_len, len_sum,   \* far: offset > UNIV_PAGE_SIZE
    fn,         \* the file of option -i: 0 at first, then "open" or -1
    descriptors,    \* history: descriptors opened and not closed
    parts,      \* history: the pages that gave this value bytes
    root,       \* history: the page at which this value begins
    values      \* history: number of values printed

disk == <<store, ibdata, external_in_ibdata>>
vars == <<disk, pc, page_no, far, extern_len, len_sum, fn, descriptors, parts, root, values>>
-----------------------------------------------------------------------------
\* The files are there when the program starts and it does not change them.
Init ==
    /\ store \in [Pages -> Contents]
    /\ ibdata \in BOOLEAN /\ external_in_ibdata \in BOOLEAN
    /\ ibdata => external_in_ibdata
    /\ pc = "idle"
    /\ page_no = 0 /\ far = FALSE /\ extern_len = 0 /\ len_sum = 0
    /\ fn = "0" /\ descriptors = 0
    /\ parts = << >> /\ root = 0 /\ values = 0

\* Lines 421-434: take the reference, print what the record holds. The reference
\* is believed whatever it says: pages 0 and FIL_NULL, at which a chain ends, and
\* the length 0, as in a reference of zeros, start a value like any others.
StartValue(page, beyond, len) ==
    /\ pc = "idle" /\ values < MaxValues
    /\ pc' = "loop"
    /\ page_no' = page /\ far' = beyond /\ extern_len' = len
    /\ len_sum' = 0
    /\ parts' = << >> /\ root' = page /\ values' = values + 1
    /\ UNCHANGED <<disk, fn, descriptors>>

MayOpen == descriptors < MaxOpen

\* The file of option -i is opened once; a page's file every time.
Opens == IF external_in_ibdata
         THEN fn = "open" \/ (fn = "0" /\ ibdata /\ MayOpen)
         ELSE store[page_no] # Absent /\ MayOpen

Opened == IF external_in_ibdata /\ fn = "open" THEN descriptors ELSE descriptors + 1

\* open() fails: the value ends here.
CannotOpen ==
    /\ pc = "loop" /\ ~ Opens
    /\ fn' = (IF external_in_ibdata THEN "-1" ELSE fn)
    /\ pc' = "idle"
    /\ UNCHANGED <<disk, page_no, far, extern_len, len_sum, descriptors, parts, root, values>>

\* Defect: a length that reaches beyond the page is believed.
BelievablePart(page) == page.kind = "part" /\ ~ far

Believable(page) == page.kind = "part" /\ ~ far /\ page.len <= UNIV_PAGE_SIZE

\* Defect: the descriptor of a page that was printed is not closed either.
ClosedNever(n) == n

\* close(fn), unless the file is the one of option -i.
Closed(n) == IF external_in_ibdata THEN n ELSE n - 1

\* One of the three checks of a page fails. The page's file stays open.
LeaveAtBadPage ==
    /\ pc = "loop" /\ Opens /\ ~ Believable(store[page_no])
    /\ fn' = (IF external_in_ibdata THEN "open" ELSE fn)
    /\ descriptors' = Opened
    /\ pc' = "idle"
    /\ UNCHANGED <<disk, page_no, far, extern_len, len_sum, parts, root, values>>

\* Defect: the length of the last part replaces the sum.
SumForgotten(len) == len

Sum(len) == len_sum + len

\* A part without bytes prints nothing. One part more than there are pages is
\* enough to see that a value is not a chain.
Printed(len) ==
    IF len = 0 \/ Len(parts) > Cardinality(Pages) THEN parts ELSE Append(parts, page_no)

\* Defect: the loop ends before the part that completes the value.
LastPartEarly(next, sum) == next \in {FIL_NULL, 0} \/ sum + 1 >= extern_len

LastPart(next, sum) == next \in {FIL_NULL, 0} \/ sum >= extern_len

\* Print a part and follow the chain.
PrintPart ==
    /\ pc = "loop" /\ Opens /\ Believable(store[page_no])
    /\ LET page == store[page_no]
       IN  /\ len_sum' = Sum(page.len)
           /\ parts' = Printed(page.len)
           /\ page_no' = page.next
           /\ pc' = (IF LastPart(page.next, Sum(page.len)) THEN "idle" ELSE "loop")
    /\ far' = FALSE
    /\ fn' = (IF external_in_ibdata THEN "open" ELSE fn)
    /\ descriptors' = Closed(Opened)
    /\ UNCHANGED <<disk, extern_len, root, values>>

Loop == CannotOpen \/ LeaveAtBadPage \/ PrintPart

Start == \E page \in Pages, beyond \in BOOLEAN, len \in Lengths :
            StartValue(page, beyond, len)

Done == pc = "idle" /\ values = MaxValues /\ UNCHANGED vars

Next == Start \/ Loop \/ Done

Spec == Init /\ [][Next]_vars /\ WF_vars(Loop)
-----------------------------------------------------------------------------
(* Properties                                                              *)

\* Every variable has its type.
TypeOK ==
    /\ store \in [Pages -> Contents] /\ {ibdata, external_in_ibdata} \subseteq BOOLEAN
    /\ pc \in {"idle", "loop"}
    /\ page_no \in Pages \cup {0, FIL_NULL}
    /\ pc = "loop" => page_no \in Pages
    /\ far \in BOOLEAN /\ extern_len \in Lengths \cup {0} /\ len_sum \in Nat
    /\ fn \in {"0", "-1", "open"} /\ descriptors \in 0 .. MaxOpen
    /\ parts \in Seq(Pages)
    /\ root \in Pages \cup {0} /\ values \in 0 .. MaxValues

\* sums[i] is what the first i parts of the chain hold, and all of them hold len.
AddUpTo(chain, sums, len) ==
    /\ sums[0] = 0 /\ sums[Len(chain)] = len
    /\ \A i \in 1 .. Len(chain) : sums[i] = sums[i - 1] + store[chain[i]].len

\* The chains of pages as the server writes them: every part holds something,
\* the last page has no successor, the parts add up to the value's length.
IsChain(chain, len) ==
    /\ \A i \in DOMAIN chain :
          store[chain[i]].kind = "part" /\ store[chain[i]].len \in 1 .. UNIV_PAGE_SIZE
    /\ \A i \in DOMAIN chain :
          store[chain[i]].next = (IF i = Len(chain) THEN FIL_NULL ELSE chain[i + 1])
    /\ \E sums \in [0 .. Len(chain) -> 0 .. len] : AddUpTo(chain, sums, len)

\* Neither page 0 nor FIL_NULL is a page of a chain.
Chains == {c \in UNION {[1 .. n -> Pages] : n \in 1 .. Cardinality(Pages)} :
              /\ c[1] = root /\ IsInjective(c)
              /\ \A i \in DOMAIN c : c[i] \notin {0, FIL_NULL}}

(***************************************************************************)
(* A value whose chain is intact is printed whole, every part once and in  *)
(* order, whatever happened to the values before it, unless the process    *)
(* has used up its descriptors (print_data.c:436-488).  Each value with a  *)
(* damaged page costs one descriptor with option -b, so that can happen    *)
(* only to the values behind MaxOpen damaged ones.                         *)
(***************************************************************************)
IntactPrintedWhole ==
    pc = "idle" /\ values \in 1 .. MaxOpen /\ (external_in_ibdata => ibdata) =>
        \A c \in Chains : IsChain(c, extern_len) /\ ~ far => parts = c

(***************************************************************************)
(* Between values the process holds no more descriptors than it has        *)
(* printed values with -b, and no more than one with -i: what it opens for *)
(* the pages of a chain it closes (print_data.c:441-453, 476).             *)
(***************************************************************************)
OneLeakPerValue ==
    descriptors <= (IF external_in_ibdata THEN 1 ELSE values)

\* The length is looked at behind a part, so the loop wants a byte even of a
\* value that has none.
Wanted == IF extern_len = 0 THEN 1 ELSE extern_len

(***************************************************************************)
(* However pages are linked and whatever lengths they claim, the loop goes *)
(* on only while something it wants is missing, and so less than one page  *)
(* is printed beyond the value's length, with one exception: of a value    *)
(* whose reference claims no bytes, as one of zeros does, up to a whole    *)
(* page is printed (print_data.c:424-482).                                 *)
(***************************************************************************)
StopsAtLength ==
    /\ len_sum < Wanted + UNIV_PAGE_SIZE
    /\ pc = "loop" => len_sum < Wanted

(***************************************************************************)
(* Every value comes to an end, also along a cycle of pages, unless pages  *)
(* claim to be empty parts: of those the loop never sees enough            *)
(* (print_data.c:436-488).                                                 *)
(***************************************************************************)
ValuesEnd ==
    (\A p \in Pages : store[p].kind = "part" => store[p].len > 0)
        => (pc = "loop" ~> pc = "idle")
=============================================================================
