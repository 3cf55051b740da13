----------------------------- MODULE FetchData ------------------------------
(***************************************************************************)
(* fetch_data.sh: copy a table out of a server that crashes (or fails the  *)
(* query) when it reads a corrupted row.  The script copies a range of     *)
(* primary keys at a time; a failure halves the range and waits for the    *)
(* server to answer, a failure of the smallest range gives up its first    *)
(* key, a run of successes doubles the range.                              *)
(*                                                                         *)
(* The server is not part of the repository: it is modelled from what the  *)
(* script sees of it.  A query that meets a corrupted row fails, and may   *)
(* take the server down; an outage of any other cause may come at any      *)
(* time, also after the rows were committed and before the client heard of *)
(* it; INSERT IGNORE makes copying a row again harmless.                   *)
(***************************************************************************)
EXTENDS Integers, FiniteSets

CONSTANTS
    minPK, maxPK,   \* of the table, as the script reads them once
    Rows,           \* the keys that exist
    BadSets,        \* the sets of corrupted rows considered
    MaxOutages      \* bound on the outages that no corrupted row causes

ASSUME KeysAssumption ==
    /\ minPK \in Int /\ maxPK \in Int /\ minPK <= maxPK
    /\ Rows \subseteq minPK .. maxPK
    /\ \A Bad \in BadSets : Bad \subseteq Rows
    /\ MaxOutages \in Nat

VARIABLES
    Bad,                \* the corrupted rows, never changed
    server,             \* "up" or "down"
    outages,            \* outages so far
    copied,             \* rows in the new table
    pc,                 \* "insert", "ping" or "done"
    a, b, chunk, successful_tries

fetchVars == <<Bad, server, outages, copied, pc, a, b, chunk, successful_tries>>

\* What the query selects: WHERE PK >= a AND PK <= b
Between(x, y) == {r \in Rows : x <= r /\ r <= y}
-----------------------------------------------------------------------------
FetchInit ==
    /\ Bad \in BadSets
    /\ server = "up"
    /\ outages = 0
    /\ copied = {}
    /\ pc = "insert"
    /\ a = minPK
    /\ b = maxPK
    /\ chunk = maxPK - minPK
    /\ successful_tries = 0

\* (Defect: the key that is given up is not the first one of the range.)
RestOfBodyJump(newa, newb, newchunk, tries) ==
    /\ successful_tries' = tries
    /\ IF newa > maxPK
       THEN pc' = "done" /\ a' = newa /\ b' = newb /\ chunk' = newchunk
       ELSE /\ pc' = "insert"
            /\ IF newchunk = 0
               THEN a' = newb + 2 /\ b' = newb + 3
               ELSE a' = newa /\ b' = newb
            /\ LET kept == IF newchunk = 0 THEN 1 ELSE newchunk
               IN  chunk' = IF tries > 5 THEN kept * 2 ELSE kept

\* (Defect: no key is given up.)
RestOfBodyRetry(newa, newb, newchunk, tries) ==
    /\ successful_tries' = tries
    /\ IF newa > maxPK
       THEN pc' = "done" /\ a' = newa /\ b' = newb /\ chunk' = newchunk
       ELSE /\ pc' = "insert"
            /\ a' = newa /\ b' = newb
            /\ LET kept == IF newchunk = 0 THEN 1 ELSE newchunk
               IN  chunk' = IF tries > 5 THEN kept * 2 ELSE kept

(***************************************************************************)
(* The end of the loop's body, from the values that the branch has left:   *)
(* exit, or give up a key when the range cannot get smaller, then increase *)
(* the pace.                                                               *)
(***************************************************************************)
RestOfBody(newa, newb, newchunk, tries) ==
    /\ successful_tries' = tries
    /\ IF newa > maxPK
       THEN pc' = "done" /\ a' = newa /\ b' = newb /\ chunk' = newchunk
       ELSE /\ pc' = "insert"
            /\ IF newchunk = 0
               THEN a' = newa + 1 /\ b' = newa + 2
               ELSE a' = newa /\ b' = newb
            /\ LET kept == IF newchunk = 0 THEN 1 ELSE newchunk
               IN  chunk' = IF tries > 5 THEN kept * 2 ELSE kept

\* insert_range returned 0.
InsertSucceeds ==
    /\ pc = "insert"
    /\ server = "up"
    /\ Between(a, b) \cap Bad = {}
    /\ copied' = copied \cup Between(a, b)
    /\ RestOfBody(b + 1, b + chunk, chunk, successful_tries + 1)
    /\ UNCHANGED <<Bad, server, outages>>

\* (Defect: the failed range is given up as a whole.)
ShrinkAndPass ==
    /\ chunk' = chunk \div 2
    /\ a' = b + 1
    /\ b' = b + 1 + (chunk \div 2)
    /\ pc' = "ping"
    /\ UNCHANGED successful_tries

\* The branch of a failed insert_range up to the wait for the server.
Shrink ==
    /\ chunk' = chunk \div 2
    /\ b' = a + (chunk \div 2)
    /\ pc' = "ping"
    /\ UNCHANGED <<a, successful_tries>>

\* The query met a corrupted row.  A transactional table keeps none of the
\* rows read before it, another one may keep all of them.
InsertMeetsBadRow ==
    /\ pc = "insert"
    /\ server = "up"
    /\ Between(a, b) \cap Bad # {}
    /\ \/ UNCHANGED copied
       \/ copied' = copied \cup {r \in Between(a, b) : \A s \in Bad : a <= s => r < s}
    /\ server' \in {"up", "down"}
    /\ Shrink
    /\ UNCHANGED <<Bad, outages>>

\* There is no server to answer the query.
InsertUnanswered ==
    /\ pc = "insert"
    /\ server = "down"
    /\ Shrink
    /\ UNCHANGED <<Bad, server, outages, copied>>

\* The rows are committed, but the server is gone before the client knows.
InsertReplyLost ==
    /\ pc = "insert"
    /\ server = "up"
    /\ Between(a, b) \cap Bad = {}
    /\ outages < MaxOutages
    /\ outages' = outages + 1
    /\ server' = "down"
    /\ copied' = copied \cup Between(a, b)
    /\ Shrink
    /\ UNCHANGED Bad

PingFails ==
    /\ pc = "ping"
    /\ server = "down"
    /\ UNCHANGED fetchVars

PingAnswered ==
    /\ pc = "ping"
    /\ server = "up"
    /\ RestOfBody(a, b, chunk, 0)
    /\ UNCHANGED <<Bad, server, outages, copied>>

Script ==
    \/ InsertSucceeds \/ InsertMeetsBadRow \/ InsertUnanswered \/ InsertReplyLost
    \/ PingFails \/ PingAnswered

ServerCrashes ==
    /\ server = "up"
    /\ pc # "done"
    /\ outages < MaxOutages
    /\ outages' = outages + 1
    /\ server' = "down"
    /\ UNCHANGED <<Bad, copied, pc, a, b, chunk, successful_tries>>

\* Somebody (mysqld_safe, the operator) starts the server again.
ServerStarts ==
    /\ server = "down"
    /\ server' = "up"
    /\ UNCHANGED <<Bad, outages, copied, pc, a, b, chunk, successful_tries>>

Exited == pc = "done" /\ UNCHANGED fetchVars

FetchStep == Script \/ ServerCrashes \/ ServerStarts \/ Exited

\* The script's process runs, and a server that is down is started again.
FetchFairness == WF_fetchVars(Script) /\ WF_fetchVars(ServerStarts)

FetchSpec == FetchInit /\ [][FetchStep]_fetchVars /\ FetchFairness
-----------------------------------------------------------------------------
(* Properties                                                              *)

\* Every variable has its type; a chunk never gets negative (fetch_data.sh:33,
\* 52, 74).
FetchTypes ==
    /\ Bad \in SUBSET Rows
    /\ server \in {"up", "down"}
    /\ outages \in 0 .. MaxOutages
    /\ copied \in SUBSET Rows
    /\ pc \in {"insert", "ping", "done"}
    /\ a \in Int /\ b \in Int
    /\ chunk \in Nat
    /\ successful_tries \in Nat

Given(r) == r \in Bad \/ r + 1 \in Bad

\* Rows the script has passed without copying them.
Lost == {r \in Rows : r < a /\ r \notin copied}

(***************************************************************************)
(* Halving, giving up keys and doubling never leave out a key: a row that  *)
(* the script has passed is in the new table, or it is corrupted, or the   *)
(* next key is (the smallest range has two keys, and its first is given up *)
(* for both), or an outage that is nobody's fault hit it                   *)
(* (fetch_data.sh:41-76).                                                  *)
(***************************************************************************)
LostOnlyBesideBad == outages = 0 => \A r \in Lost : Given(r)

\* An outage between a ping and the next query costs at most one good row:
\* the range is halved once for it, however small it already is
\* (fetch_data.sh:50-70).
OutageCostsOneRow == Cardinality({r \in Lost : ~ Given(r)}) <= outages

\* The script ends, whichever rows are corrupted, when outages do
\* (fetch_data.sh:41-76).
ScriptEnds == <>(pc = "done")
=============================================================================
