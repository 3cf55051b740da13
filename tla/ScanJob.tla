------------------------------- MODULE ScanJob --------------------------------
(***************************************************************************)
(* stream_parser as its operator sees it: main makes three directories,    *)
(* forks a worker that appends the pages it finds to the page files of     *)
(* their indexes, waits for it and reports.  What the worker recognises is *)
(* StreamScan's business; here it saves the pages of `image' one after the *)
(* other, and anything may fail or be killed on the way, MaxFaults times.  *)
(* The worker is a process of its own: it goes on if main alone is killed, *)
(* and it opens the page files by name, page by page, so that it saves     *)
(* into whatever directory has the name by then.                           *)
(*                                                                         *)
(* The pages are those of the InnoDB dictionary, with one row each.        *)
(***************************************************************************)
EXTENDS Integers, Sequences, SequencesExt

CONSTANTS
    Tables,         \* of the dictionary
    Images,         \* sequences of rows, in the order of their pages on disk
    MaxFaults,      \* bound on failures and interruptions of the whole recovery
    MaxStray        \* bound on the pages that workers without a parent save in one set
                    \* of directories

Rows == UNION {ToSet(image) : image \in Images}

\* A row of a table has a primary key, other columns and a delete mark.
ASSUME ScanJobAssumption ==
    /\ MaxFaults \in Nat /\ MaxStray \in Nat
    /\ Images \subseteq Seq(Rows)
    /\ \A image \in Images : \A k \in DOMAIN image :
          image[k].table \in Tables /\ image[k].deleted \in BOOLEAN

VARIABLES
    image,
    faults,         \* so far
    dirs,           \* the directories that exist
    scan,           \* "idle", "index", "blob", "scanning", "success" or "failure"
    worker,         \* "none", "scans", "finished" or "dead"
    pos,            \* how much of the image the worker has gone through
    pages,          \* what FIL_PAGE_INDEX has: the rows saved, in order
    orphans,        \* how far each worker has gone whose parent was killed, Seq(Nat)
    stray           \* history: the positions in pages that such workers have filled

orphanVars == <<orphans, stray>>
scanVars == <<image, faults, dirs, scan, worker, pos, pages, orphanVars>>

ScanInit ==
    /\ image \in Images
    /\ faults = 0
    /\ dirs = {} /\ scan = "idle" /\ worker = "none"
    /\ pos = 0 /\ pages = << >>
    /\ orphans = << >> /\ stray = {}

MayFail == faults < MaxFaults

Fault == MayFail /\ faults' = faults + 1
-----------------------------------------------------------------------------
\* Defect: a directory that exists is used.
UsableAny(dir) == TRUE

\* A directory of an earlier run is an error, as any other failure of mkdir is.
Usable(dir) == dir \notin dirs

MakeDirectory(stage, dir, next) ==
    /\ scan = stage /\ Usable(dir)
    /\ dirs' = dirs \cup {dir}
    /\ scan' = next
    /\ worker' = (IF next = "scanning" THEN "scans" ELSE worker)
    /\ pos' = 0
    /\ UNCHANGED <<image, faults, pages, orphanVars>>

RefuseToStart ==
    /\ scan = "idle" /\ ~ Usable("dst_dir")
    /\ scan' = "failure"
    /\ UNCHANGED <<image, faults, dirs, worker, pos, pages, orphanVars>>

StartScan ==
    \/ MakeDirectory("idle", "dst_dir", "index")
    \/ MakeDirectory("index", "FIL_PAGE_INDEX", "blob")
    \/ MakeDirectory("blob", "FIL_PAGE_TYPE_BLOB", "scanning")

\* process_ibfile saves the next page.
SavePage ==
    /\ worker = "scans" /\ pos < Len(image)
    /\ pos' = pos + 1
    /\ pages' = Append(pages, image[pos + 1])
    /\ UNCHANGED <<image, faults, dirs, scan, worker, orphanVars>>

EndScan ==
    /\ worker = "scans" /\ pos = Len(image)
    /\ worker' = "finished"
    /\ UNCHANGED <<image, faults, dirs, scan, pos, pages, orphanVars>>

\* The worker exits with an error or is killed: it cannot open the file, the
\* disk is full, a read fails.
WorkerFails ==
    /\ worker = "scans" /\ Fault
    /\ worker' = "dead"
    /\ UNCHANGED <<image, dirs, scan, pos, pages, orphanVars>>

\* waitpid; the status is not looked at.
ReportScan ==
    /\ scan = "scanning" /\ worker \in {"finished", "dead"}
    /\ scan' = "success"
    /\ UNCHANGED <<image, faults, dirs, worker, pos, pages, orphanVars>>

\* The parent is killed: with its worker, or alone, and the worker goes on.
KillParent ==
    \/ worker' = "dead" /\ orphans' = orphans
    \/ worker' = "none" /\ orphans' = Append(orphans, pos)

\* A mkdir fails, or the parent is killed.
InterruptScan ==
    /\ scan \in {"idle", "index", "blob", "scanning"} /\ Fault
    /\ scan' = "failure"
    /\ IF worker = "scans" THEN KillParent ELSE UNCHANGED <<worker, orphans>>
    /\ UNCHANGED <<image, dirs, pos, pages, stray>>

(***************************************************************************)
(* A worker without a parent saves the next page, into a directory of that *)
(* name, be it the one of another scan: nothing keeps them apart, the      *)
(* semaphores are those of the processes of one parent.  When it ends, or  *)
(* fails because there is no directory, it makes no further step; nobody   *)
(* waits for it.                                                           *)
(***************************************************************************)
OrphanSaves ==
    /\ "FIL_PAGE_INDEX" \in dirs /\ Cardinality(stray) < MaxStray
    /\ \E k \in DOMAIN orphans :
          /\ orphans[k] < Len(image)
          /\ pages' = Append(pages, image[orphans[k] + 1])
          /\ stray' = stray \cup {Len(pages) + 1}
          /\ orphans' = [orphans EXCEPT ![k] = @ + 1]
    /\ UNCHANGED <<image, faults, dirs, scan, worker, pos>>

ScanStep == RefuseToStart \/ StartScan \/ SavePage \/ EndScan \/ ReportScan
ScanFault == WorkerFails \/ InterruptScan

\* The operator removes the directories and starts again.
RemoveDirectories ==
    /\ dirs' = {} /\ pos' = 0 /\ pages' = << >> /\ stray' = {}
    /\ scan' = "idle" /\ worker' = "none"
    /\ UNCHANGED <<image, faults, orphans>>

\* The operator starts again without.
RestartScan ==
    /\ scan' = "idle" /\ worker' = "none"
    /\ UNCHANGED <<image, faults, dirs, pos, pages, orphanVars>>
=============================================================================
