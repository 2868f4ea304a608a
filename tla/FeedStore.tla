----------------------------- MODULE FeedStore -----------------------------
(***************************************************************************)
(* The vulnerability feeds of the sec-vuln helper as feed_store.py keeps   *)
(* them: one JSON file for each system (family and major version).  A file *)
(* is written in place, so that between truncation and the last byte it is *)
(* not JSON.  Of what it holds the model keeps the number of the update it *)
(* came with, and whether its age_days() exceeds the limit.                *)
(***************************************************************************)
EXTENDS Naturals

CONSTANTS
    Rhel, Rocky, \* the systems one Red Hat OVAL file serves
    Csv,         \* the systems one MSRC export may cover: Windows 10 and 11
    MaxUpdates   \* bound of the model

VARIABLES
    files,       \* each system's feed file
    updates      \* updates begun so far; the last number is used again

storeVars == <<files, updates>>

ASSUME StoreAssumption ==
    /\ Rhel # Rocky /\ {Rhel, Rocky} \cap Csv = {}
    /\ MaxUpdates \in Nat \ {0}

Oval == {Rhel, Rocky}
Systems == Oval \cup Csv

Missing == [update |-> 0, stale |-> FALSE, state |-> "missing"]
Torn == [update |-> 0, stale |-> FALSE, state |-> "torn"]
Feed(u) == [update |-> u, stale |-> FALSE, state |-> "complete"]

Contents ==
    {Missing, Torn}
        \cup [update : 1..MaxUpdates, stale : BOOLEAN, state : {"complete"}]

StoreTypeOK == files \in [Systems -> Contents] /\ updates \in 0..MaxUpdates

StoreInit == files = [s \in Systems |-> Missing] /\ updates = 0

\* save_feed: write_text truncates the file, then fills it.
Truncate(s) == files' = [files EXCEPT ![s] = Torn]
Fill(s, u) == files' = [files EXCEPT ![s] = Feed(u)]

\* get_feed_info and load_feed raise on a file that is not JSON.
Readable(s) == files[s] # Torn

\* More than stale_after_days have passed since fetched_at.
Expire(s) ==
    /\ files[s].state = "complete" /\ ~files[s].stale
    /\ files' = [files EXCEPT ![s].stale = TRUE]
    /\ UNCHANGED updates

=============================================================================
