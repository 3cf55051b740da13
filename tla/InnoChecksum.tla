---------------------------- MODULE InnoChecksum ----------------------------
(***************************************************************************)
(* innochecksum.c: walk through the pages of a tablespace, check the two   *)
(* copies of the log sequence number and the two checksums of each page,   *)
(* and, with -f and -l, repair them in place.  The walk stops at the first *)
(* page it cannot vouch for.  The tool may be run again, with other        *)
(* options, after a run that ended, failed in a write, or was killed.      *)
(*                                                                         *)
(* A page is what the checks tell apart: its four stored fields and the    *)
(* rest of its bytes.  The new checksum covers the LSN and the rest; the   *)
(* old one covers the page's first 26 bytes, the stored new checksum and   *)
(* the LSN among them (include/innochecksum.h, include/mysql_def.h).       *)
(***************************************************************************)
EXTENDS Integers, Sequences

CONSTANTS
    buf_calc_page_new_checksum(_, _),     \* of the LSN and the rest
    buf_calc_page_old_checksum(_, _, _),  \* of the new checksum, LSN, rest
    Checksums,    \* values of the 32-bit checksum fields, 0 among them
    Lsns,         \* values of the low 4 bytes of an LSN
    Bodies,       \* the other bytes of a page
    Files,        \* the tablespaces considered
    Options,      \* the command lines considered
    MaxRuns       \* bound on the number of runs

PageType == [csum : Checksums, lsn : Lsns, body : Bodies,
             end_lsn : Lsns, end_csum : Checksums]

OptionType == [fix_checksum : BOOLEAN, fix_lsn : BOOLEAN, fixed_lsn : Lsns,
               start_page : Nat, use_end_page : BOOLEAN, end_page : Nat]

ASSUME ChecksumAssumption ==
    /\ 0 \in Checksums
    /\ \A l \in Lsns, r \in Bodies : buf_calc_page_new_checksum(l, r) \in Checksums
    /\ \A c \in Checksums, l \in Lsns, r \in Bodies :
          buf_calc_page_old_checksum(c, l, r) \in Checksums

ASSUME InputsAssumption ==
    /\ \A f \in Files : f \in Seq(PageType)
    /\ \A o \in Options : o \in OptionType
    /\ MaxRuns \in Nat

VARIABLES
    file,      \* the pages of the tablespace
    trailing,  \* bytes that fill no page follow the last one
    opt,       \* the options of the current run
    ct,        \* current page number, from 0
    status,    \* "running", "exit0", "exit1" or "interrupted"
    runs

innoVars == <<file, trailing, opt, ct, status, runs>>

NewChecksum(p) == buf_calc_page_new_checksum(p.lsn, p.body)
OldChecksum(p) == buf_calc_page_old_checksum(p.csum, p.lsn, p.body)

BadLsn(p) == p.lsn # p.end_lsn
BadNew(p) == p.csum # 0 /\ p.csum # NewChecksum(p)
BadOld(p) == p.end_csum # OldChecksum(p)

\* stream_parser.c: what a BLOB page must pass to be saved
valid_innodb_checksum(p) == ~ BadOld(p) /\ ~ BadNew(p)

Good(p) == ~ BadLsn(p) /\ valid_innodb_checksum(p)
-----------------------------------------------------------------------------
\* (Defect: -l writes the LSN into every page.)
WithLsnAlways(p) ==
    IF opt.fix_lsn THEN [p EXCEPT !.lsn = opt.fixed_lsn, !.end_lsn = opt.fixed_lsn] ELSE p

\* The three checks of the loop, each of which sees the page as the one before
\* has left it.
WithLsn(p) ==
    IF BadLsn(p) THEN [p EXCEPT !.lsn = opt.fixed_lsn, !.end_lsn = opt.fixed_lsn] ELSE p
WithNew(p) == IF BadNew(p) THEN [p EXCEPT !.csum = NewChecksum(p)] ELSE p
WithOld(p) == IF BadOld(p) THEN [p EXCEPT !.end_csum = OldChecksum(p)] ELSE p

\* (Defect: the old checksum is repaired before the new one that it covers.)
RepairedOldFirst(p) == WithNew(WithOld(WithLsn(p)))

Repaired(p) == WithOld(WithNew(WithLsn(p)))

\* "return 1" at one of the checks: nothing of the page has been written.
Refused(p) ==
    \/ BadLsn(p) /\ ~ opt.fix_lsn
    \/ BadNew(WithLsn(p)) /\ ~ opt.fix_checksum
    \/ BadOld(WithNew(WithLsn(p))) /\ ~ opt.fix_checksum
-----------------------------------------------------------------------------
InnoInit ==
    /\ file \in Files
    /\ trailing \in BOOLEAN
    /\ opt \in Options
    /\ ct = opt.start_page
    /\ status = "running"
    /\ runs = 1

Page == file[ct + 1]

Running == status = "running"

\* The body of the loop for a page that passes or is repaired; the page is
\* written only if it was modified.
CheckPage ==
    /\ Running
    /\ ct < Len(file)
    /\ ~ Refused(Page)
    /\ file' = [file EXCEPT ![ct + 1] = Repaired(Page)]
    /\ IF opt.use_end_page /\ ct >= opt.end_page
       THEN status' = "exit0" /\ UNCHANGED ct
       ELSE ct' = ct + 1 /\ UNCHANGED status
    /\ UNCHANGED <<trailing, opt, runs>>

RefusePage ==
    /\ Running
    /\ ct < Len(file)
    /\ Refused(Page)
    /\ status' = "exit1"
    /\ UNCHANGED <<file, trailing, opt, ct, runs>>

\* The write fails, or the process dies in it: none or the first part of the
\* page is on the disk.
WriteInterrupted ==
    /\ Running
    /\ ct < Len(file)
    /\ ~ Refused(Page)
    /\ Repaired(Page) # Page
    /\ \/ UNCHANGED file
       \/ file' = [file EXCEPT ![ct + 1] =
                     [Repaired(Page) EXCEPT !.end_lsn = Page.end_lsn,
                                            !.end_csum = Page.end_csum]]
    /\ status' = "interrupted"
    /\ UNCHANGED <<trailing, opt, ct, runs>>

\* (Defect: any read that fills no page is an error.)
EndOfFileIsError ==
    /\ Running
    /\ ct >= Len(file)
    /\ status' = "exit1"
    /\ UNCHANGED <<file, trailing, opt, ct, runs>>

\* fread() at the end of the file: 0 bytes, or too few of them.
EndOfFile ==
    /\ Running
    /\ ct >= Len(file)
    /\ status' = IF trailing /\ ct = Len(file) THEN "exit1" ELSE "exit0"
    /\ UNCHANGED <<file, trailing, opt, ct, runs>>

RunAgain ==
    /\ ~ Running
    /\ runs < MaxRuns
    /\ runs' = runs + 1
    /\ opt' \in Options
    /\ ct' = opt'.start_page
    /\ status' = "running"
    /\ UNCHANGED <<file, trailing>>

InnoStep == CheckPage \/ RefusePage \/ WriteInterrupted \/ EndOfFile \/ RunAgain

InnoSpec == InnoInit /\ [][InnoStep]_innoVars
-----------------------------------------------------------------------------
(* Properties                                                              *)

\* Every variable has its type, page contents after a repair included
\* (innochecksum.c:206-270).
InnoTypes ==
    /\ file \in Seq(PageType)
    /\ trailing \in BOOLEAN
    /\ opt \in OptionType
    /\ ct \in Nat
    /\ status \in {"running", "exit0", "exit1", "interrupted"}
    /\ runs \in Nat

\* Page i (from 0) has been gone through in this run.
Checked(i) == opt.start_page <= i /\ (i < ct \/ (i = ct /\ status = "exit0"))

(***************************************************************************)
(* The pages a run has gone through are good, checked or repaired: in      *)
(* particular the old checksum is computed over the new one as repaired,   *)
(* and both over the LSN as repaired, so that stream_parser's              *)
(* valid_innodb_checksum accepts the page (innochecksum.c:197-258,         *)
(* stream_parser.c:96-135).                                                *)
(***************************************************************************)
CheckedPagesAreGood ==
    \A i \in 1 .. Len(file) : Checked(i - 1) => Good(file[i])

(***************************************************************************)
(* A run touches only pages of its range that are not good, never their    *)
(* contents, and nothing without -f or -l; so that repairing twice, or     *)
(* again after an interrupted write, changes no page that is in order      *)
(* (innochecksum.c:184-291).                                               *)
(***************************************************************************)
TouchesOnlyBadPages ==
    [][ \A i \in 1 .. Len(file) :
          file'[i] # file[i] =>
            /\ ~ Good(file[i])
            /\ opt.fix_checksum \/ opt.fix_lsn
            /\ opt.start_page < i
            /\ opt.use_end_page => i - 1 <= opt.end_page \/ i - 1 = opt.start_page
            /\ file'[i].body = file[i].body ]_innoVars

(***************************************************************************)
(* A run that stops with an error has left everything before the page it   *)
(* stops at in order, and stops at a page that is really bad or incomplete:*)
(* starting again from that page (-s) loses nothing (innochecksum.c:184-   *)
(* 291).                                                                   *)
(***************************************************************************)
StopsAtBadPage ==
    status = "exit1" => \/ ct < Len(file) /\ ~ Good(Page)
                        \/ ct = Len(file) /\ trailing

(***************************************************************************)
(* The usage text: "-l <new lsn> Write given LSN if it mismatches"         *)
(* (innochecksum.c:41).  Whatever the outcome of the run, a page that it   *)
(* has looked at carries the given LSN twice if the two differed.          *)
(***************************************************************************)
GivenLsnIsWritten ==
    (opt.fix_lsn /\ status \in {"exit0", "exit1"}) =>
        \A i \in opt.start_page .. ct : i < Len(file) => ~ BadLsn(file[i + 1])
=============================================================================
