-------------------------- MODULE ObjectIdentities --------------------------
(***************************************************************************)
(* A client pages through object_identities (schema.py) while objects are  *)
(* created and change their type.  scan_objects_paginated (data/dynamo.py) *)
(* scans one table in the order of its hash key, keeps the items of one    *)
(* object_type, and answers with the id of the last one as the cursor.     *)
(* The server keeps nothing between two pages.                             *)
(*                                                                         *)
(* Ids are their positions in the table's hash order; 0 comes before all   *)
(* of them, as no cursor and no ExclusiveStartKey do.                      *)
(***************************************************************************)
EXTENDS Integers, FiniteSets

CONSTANTS
    Last,       \* the last position in hash order
    First,      \* the page size the client asks for
    MaxChanges  \* bound on the mutations beside the listing

ASSUME IdentitiesAssumption ==
    /\ Last \in Nat
    /\ First \in Nat \ {0}
    /\ MaxChanges \in Nat

Ids == 1 .. Last

VARIABLES
    type,      \* "listed", another object_type, or no item yet
    changes,   \* mutations so far
    pc,        \* "client": between two pages; "server": answering; "done"
    cursor,    \* the client's endCursor
    startKey,  \* ExclusiveStartKey of the server's next scan
    results,   \* ids the server has collected for this page
    given,     \* ids the client has been given
    edges,     \* number of edges it has been given
    stable     \* ids listed since the first page was asked for

serverVars == <<startKey, results>>
clientVars == <<cursor, given, edges>>
vars == <<type, changes, pc, serverVars, clientVars, stable>>

\* The cursor and what was given stay within the table's positions.
TypeOK ==
    /\ type \in [Ids -> {"listed", "other", "none"}]
    /\ changes \in 0 .. MaxChanges
    /\ pc \in {"client", "server", "done"}
    /\ cursor \in 0 .. Last
    /\ startKey \in 0 .. Last
    /\ results \in SUBSET Ids
    /\ Cardinality(results) < First
    /\ given \in SUBSET Ids
    /\ edges \in Nat
    /\ stable \in SUBSET Ids

Listed == {p \in Ids : type[p] = "listed"}

Init ==
    /\ type \in [Ids -> {"listed", "other", "none"}]
    /\ changes = 0
    /\ pc = "client"
    /\ cursor = 0
    /\ startKey = 0
    /\ results = {}
    /\ given = {}
    /\ edges = 0
    /\ stable = Listed

-----------------------------------------------------------------------------
\* A create puts an item anywhere in hash order; an append to a file of
\* another class moves it from one type to another.
Change(p) ==
    /\ changes < MaxChanges
    /\ changes' = changes + 1
    /\ \E new \in {"listed", "other"} \ {type[p]} :
          type' = [type EXCEPT ![p] = new]
    /\ stable' = stable \intersect Listed'
    /\ UNCHANGED <<pc, serverVars, clientVars>>

\* The client sends its cursor.
Ask ==
    /\ pc = "client"
    /\ pc' = "server"
    /\ startKey' = cursor
    /\ results' = {}
    /\ UNCHANGED <<type, changes, clientVars, stable>>

\* The listed items among those a scan evaluates up to position end.
Page(end) == {p \in startKey + 1 .. end : type[p] = "listed"}

\* The page goes to the client, with the id of its last item as the cursor.
Answer(ids, hasMore) ==
    /\ pc' = IF hasMore THEN "client" ELSE "done"
    /\ given' = given \union ids
    /\ edges' = edges + Cardinality(ids)
    /\ \/ ids = {} /\ cursor' = 0
       \/ \E last \in ids : (\A p \in ids : p <= last) /\ cursor' = last
    /\ results' = {}
    /\ startKey' = 0

\* Mutant: the page is cut where the scan ended, whatever was taken of it.
CutAnywhere(end) ==
    \E ids \in SUBSET Page(end) :
        /\ Cardinality(results \union ids) = First
        /\ Answer(results \union ids, TRUE)

\* The items of the scan fill the page: the first of them in hash order are
\* taken and the rest is left to the next page.
Fill(end) ==
    \E ids \in SUBSET Page(end) :
        /\ \A p \in ids, q \in Page(end) \ ids : p < q
        /\ Cardinality(results \union ids) = First
        /\ Answer(results \union ids, TRUE)

\* LastEvaluatedKey says where the next scan starts.
ScanOn(end) ==
    /\ startKey < end
    /\ Cardinality(results \union Page(end)) < First
    /\ results' = results \union Page(end)
    /\ startKey' = end
    /\ UNCHANGED <<pc, clientVars>>

\* Mutant: the scan starts over until the page is full.
ScanInCircles(end) ==
    /\ end = Last
    /\ Cardinality(results \union Page(end)) < First
    /\ results' = results \union Page(end)
    /\ startKey' = 0
    /\ UNCHANGED <<pc, clientVars>>

\* Without a LastEvaluatedKey the scan has reached the end of the table.
EndOfTable(end) ==
    /\ end = Last
    /\ Cardinality(results \union Page(end)) < First
    /\ Answer(results \union Page(end), FALSE)

\* One scan evaluates the items up to 1 MB, up to position end.
Scan ==
    /\ pc = "server"
    /\ \E end \in startKey .. Last :
          Fill(end) \/ ScanOn(end) \/ EndOfTable(end)
    /\ UNCHANGED <<type, changes, stable>>

Next == Ask \/ Scan \/ \E p \in Ids : Change(p)

Spec == Init /\ [][Next]_vars

\* The client goes on until it is told there is no more, and each request runs
\* to its end; nobody has to create anything.
FairSpec == Spec /\ WF_vars(Ask \/ Scan)

-----------------------------------------------------------------------------
\* Whatever is created or retyped meanwhile, wherever the scans break off, a
\* page repeats no id of an earlier one ("Passing the previous endCursor returns
\* the next batch (no duplicates)", test_object_identities_legacy.py).
NoDuplicates == edges = Cardinality(given)

\* When the client is told that there is no more, it has every id that was
\* listed all the time.
NoneMissed == pc = "done" => stable \subseteq given

\* The listing refines what a client may expect.
Listing == INSTANCE CursorListing WITH done <- (pc = "done")
ImplementsListing == Listing!Spec

\* Every listing ends.
EveryListingEnds == <>(pc = "done")
=============================================================================
