---------------------------- MODULE BulkContract ----------------------------
(***************************************************************************)
(* What bulk_index (data/search.py) promises run_backfill about one batch: *)
(* it may write any document of the batch, again and again, while it runs; *)
(* when it returns, every document of the batch is either counted as       *)
(* indexed and in the search index, or listed as failed; when it raises,   *)
(* it has told nothing.                                                    *)
(***************************************************************************)

CONSTANT Docs  \* documents a caller may pass

VARIABLES
    batch,    \* documents of the call, without those kept out of the index
    written,  \* documents of the batch the cluster has accepted so far
    indexed,  \* documents the result counts as indexed
    failed,   \* documents the result lists as failed
    outcome   \* "running", "returned" or "raised"

contractVars == <<batch, written, indexed, failed, outcome>>

\* A call that has just been made for the documents B; with none there is
\* nothing to do.
Called(B) ==
    /\ batch = B
    /\ written = {}
    /\ indexed = {}
    /\ failed = {}
    /\ outcome = IF B = {} THEN "returned" ELSE "running"

Init == \E B \in SUBSET Docs : Called(B)

MoreWritten ==
    /\ written \subseteq written'
    /\ written' \subseteq batch

Write ==
    /\ outcome = "running"
    /\ MoreWritten
    /\ UNCHANGED <<batch, indexed, failed, outcome>>

Return ==
    /\ outcome = "running"
    /\ MoreWritten
    /\ failed' \subseteq batch
    /\ indexed' = batch \ failed'
    /\ indexed' \subseteq written'
    /\ outcome' = "returned"
    /\ UNCHANGED batch

Raise ==
    /\ outcome = "running"
    /\ MoreWritten
    /\ outcome' = "raised"
    /\ UNCHANGED <<batch, indexed, failed>>

Next == Write \/ Return \/ Raise

Spec == Init /\ [][Next]_contractVars
=============================================================================
