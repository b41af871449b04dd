------------------------------ MODULE LinkedLog ------------------------------
(***************************************************************************)
(* What the audit log promises to those who read it, without writers,      *)
(* transactions, clocks or servers: a log that grows at its end by rows    *)
(* linked to the row before them, and shrinks at its beginning only, by    *)
(* rows of which a copy is safe.  A row has a seq, its own hash and prev,  *)
(* the hash of the row before it.                                          *)
(***************************************************************************)
EXTENDS Naturals

VARIABLES
    log,   \* the rows in the table
    safe   \* the rows in the exports

logVars == <<log, safe>>

Follows(q, r) == q.seq < r.seq /\ \A x \in log : x.seq <= q.seq \/ x.seq >= r.seq

Linked == \A q, r \in log : Follows(q, r) => r.prev = q.hash

LogInit ==
    /\ Linked
    /\ safe = {}

\* One row comes after all others, linked to the last of them; when the log
\* was emptied since the row was prepared, to a row that is gone.
Grow ==
    /\ \E r \in log' :
         /\ log' = log \cup {r}
         /\ \A q \in log : q.seq < r.seq
         /\ \A q \in log : (\A x \in log : x.seq <= q.seq) => r.prev = q.hash
    /\ UNCHANGED safe

\* An export may replace an older one, of rows that are still in the log.
Export ==
    /\ safe \ safe' \subseteq log
    /\ UNCHANGED log

\* The beginning of the log goes, if it was exported.
Cut ==
    /\ log' \subseteq log
    /\ log \ log' \subseteq safe
    /\ \A q \in log \ log', r \in log' : q.seq < r.seq
    /\ UNCHANGED safe

LogNext == Grow \/ Export \/ Cut

LogSpec == LogInit /\ [][LogNext]_logVars
==============================================================================
