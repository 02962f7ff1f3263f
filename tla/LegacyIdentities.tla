-------------------------- MODULE LegacyIdentities --------------------------
(***************************************************************************)
(* A client pages through legacy_object_identities (schema.py).            *)
(* scan_s3_paginated (data/s3.py) lists one page of prefixes after the     *)
(* cursor, drops those it cannot or must not show, and answers with the id *)
(* of the last one it kept as the cursor, whether S3 has more or not.      *)
(* A page of which nothing was kept has no cursor: when S3 has more, the   *)
(* client is sent back to the first page.                                  *)
(*                                                                         *)
(* Ids are their positions in S3's order; 0 comes before all of them, as   *)
(* no cursor and no StartAfter do.                                         *)
(***************************************************************************)
EXTENDS Integers, FiniteSets

CONSTANTS
    Last,     \* the last position
    First,    \* the page size the client asks for
    MaxKeys,  \* the most prefixes S3 lists in one call, whatever is asked for
    MaxPages  \* bound on the pages a client asks for

ASSUME LegacyAssumption ==
    /\ Last \in Nat
    /\ First \in Nat \ {0}
    /\ MaxKeys \in Nat \ {0}
    /\ MaxPages \in Nat

Ids == 1 .. Last

VARIABLES
    shown,    \* ids that are shown: legacy, readable, with a clazz_name
    cursor,   \* the client's endCursor
    given,    \* ids the client has been given
    edges,    \* number of edges it has been given
    pages,    \* pages it has asked for
    failed,   \* S3 has failed to answer a request (at most one such page)
    sentBack, \* history: an answer had more to come and no cursor
    done      \* the client was told there are no more

vars == <<shown, cursor, given, edges, pages, failed, sentBack, done>>

\* The cursor and the pages stay within the listed prefixes.
TypeOK ==
    /\ shown \in SUBSET Ids
    /\ cursor \in 0 .. Last
    /\ given \in SUBSET shown
    /\ edges \in Nat
    /\ pages \in 0 .. MaxPages
    /\ failed \in BOOLEAN
    /\ sentBack \in BOOLEAN
    /\ done \in BOOLEAN

\* Any prefixes may not be shown: a file written to both stores, an object
\* without a readable object.json or without a clazz_name.
Init ==
    /\ shown \in SUBSET Ids
    /\ cursor = 0
    /\ given = {}
    /\ edges = 0
    /\ pages = 0
    /\ failed = FALSE
    /\ sentBack = FALSE
    /\ done = FALSE

-----------------------------------------------------------------------------
\* One list call: the prefixes after StartAfter, as many as the client asked
\* for and S3 gives.
PageSize == IF First <= MaxKeys THEN First ELSE MaxKeys
ListedAfter(key) == {p \in Ids : key < p /\ p <= key + PageSize}
IsTruncated(key) == key + PageSize < Last

\* Mutants: has_more says whether the page is full, or not empty.
MoreIfFull(key) == Cardinality(ListedAfter(key) \intersect shown) = PageSize
MoreIfListed(key) == ListedAfter(key) # {}

HasMore(key) == IsTruncated(key)

\* Mutant: the cursor is the first id of the page.
FirstId(items) ==
    IF items = {} THEN 0 ELSE CHOOSE p \in items : \A q \in items : p <= q

\* The last id kept; none if the whole page was dropped.
LastId(items) ==
    IF items = {} THEN 0 ELSE CHOOSE p \in items : \A q \in items : q <= p

\* One request of the client and its answer.  An object.json that cannot be
\* read just now is left out like one that does not exist.
Page ==
    /\ ~done
    /\ pages < MaxPages
    /\ pages' = pages + 1
    /\ \E unreadable \in SUBSET (ListedAfter(cursor) \intersect shown) :
          LET items == (ListedAfter(cursor) \intersect shown) \ unreadable
          IN  /\ unreadable # {} => ~failed
              /\ failed' = (failed \/ unreadable # {})
              /\ given' = given \union items
              /\ edges' = edges + Cardinality(items)
              /\ cursor' = LastId(items)
              /\ sentBack' = (sentBack \/ (items = {} /\ HasMore(cursor)))
    /\ done' = ~HasMore(cursor)
    /\ UNCHANGED shown

\* S3 errors are answered as an empty last page.
PageFails ==
    /\ ~done
    /\ pages < MaxPages
    /\ ~failed
    /\ pages' = pages + 1
    /\ cursor' = 0
    /\ failed' = TRUE
    /\ done' = TRUE
    /\ UNCHANGED <<shown, given, edges, sentBack>>

Next == Page \/ PageFails

Spec == Init /\ [][Next]_vars

FairSpec == Spec /\ WF_vars(Next)

-----------------------------------------------------------------------------
\* Until S3 fails, or a page with nothing to show sends the client back to the
\* start, no page repeats an id of an earlier one: the cursor is the last id
\* given (scan_s3_paginated).
NoDuplicates == ~failed /\ ~sentBack => edges = Cardinality(given)

\* When the client is told that there is no more, it has every id shown,
\* unless S3 failed; ids that are not shown lose it none, however many
\* follow each other.
NoneMissed == done /\ ~failed => given = shown

\* Prefixes that are not shown fill a page, and there are more behind them:
\* at the start, or after an id that is shown.
GapFillsPage ==
    \E key \in shown \union {0} :
        /\ key + PageSize < Last
        /\ \A p \in key + 1 .. key + PageSize : p \notin shown

\* Where such a gap is, the client is sent back to the start each time it
\* comes there and is never told that there is no more (last_id is None while
\* has_more is true, scan_s3_paginated).
EndsWithoutGap == done /\ ~failed => ~GapFillsPage

\* Nothing else keeps the client from the end, a failing page included.
GapOrEnd == ~GapFillsPage => <>done
=============================================================================
