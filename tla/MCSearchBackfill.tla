-------------------------- MODULE MCSearchBackfill --------------------------
(***************************************************************************)
(* SearchBackfill for TLC: a thing with a legacy copy dated before --since *)
(* and a thing that is only in DynamoDB, if at all.                        *)
(***************************************************************************)
EXTENDS SearchBackfill, TLC

CONSTANTS old, recent

MCStoreOf == [o \in Objects |-> "Thing"]
MCLegacy ==
    [o \in Objects |->
        IF o = recent THEN Absent ELSE [version |-> 1, stamp |-> "before"]]

MCPasses ==
    <<[source |-> "legacy", store |-> "Thing"],
      [source |-> "dynamo", store |-> "Thing"]>>

Everything ==
    [execute |-> TRUE, since |-> FALSE, limit |-> None, maxFailures |-> None]

MCOptions ==
    {Everything,
     [Everything EXCEPT !.since = TRUE],
     [Everything EXCEPT !.limit = 0],
     [Everything EXCEPT !.limit = 2, !.maxFailures = 2],
     [Everything EXCEPT !.execute = FALSE, !.limit = 3]}
=============================================================================
