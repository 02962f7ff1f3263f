--------------------------- MODULE ObjectUpdates ---------------------------
(***************************************************************************)
(* Mutations of stored objects: update_thing, create_file_relation,        *)
(* create_task_relation (data/dynamo.py),                                  *)
(* append_inversion_solution_tables (models/inversion_solution.py) and     *)
(* reindex (schema.py).  Each one reads whole items, changes a part of its *)
(* copy and puts the whole item back, without a condition; relations are   *)
(* two such patches, one on each side, followed by re-reads for the search *)
(* index.                                                                  *)
(*                                                                         *)
(* An item's content is the set of entries mutations added to it: each     *)
(* request adds entries of its own, so a lost update shows as a missing    *)
(* entry.  Requests are Lambda invocations; each action is one call to     *)
(* DynamoDB, S3 or Elasticsearch.                                          *)
(***************************************************************************)
EXTENDS Integers, FiniteSets

CONSTANTS
    Things, Files, \* objects of the Thing and of the File table
    Requests,      \* mutations, one per client call
    Kinds,         \* the kinds of mutation clients call
    Clazz,         \* Clazz[o]: clazz_name in the content of object o
    InS3,          \* legacy objects: object.json in S3, no item in DynamoDB
    Absent,        \* ids of no object at all
    NotIndexed,    \* search.NOT_INDEXED: classes kept out of the index
    Limit,         \* UNCOMPRESSED_LIMIT
    MaxActive,     \* requests running at the same time
    StaleReads,    \* get_item is eventually consistent
    Faults,        \* calls may fail, and Lambda may kill requests
    ReadOnly       \* DB_READ_ONLY

Objects == Things \union Files
AllKinds == {"update", "fileRelation", "taskRelation", "appendTables", "reindex"}
Origin == "origin"   \* whoever wrote an object before the model starts

\* is_indexable, by the clazz_name of the document.
Indexable(o) == Clazz[o] \notin NotIndexed

ASSUME UpdatesAssumption ==
    /\ Things \intersect Files = {}
    /\ Origin \notin Requests
    /\ Kinds \subseteq AllKinds
    /\ DOMAIN Clazz = Objects
    /\ InS3 \subseteq Objects
    /\ Absent \subseteq Objects \ InS3
    /\ Limit \in Nat
    /\ MaxActive \in Nat \ {0}
    /\ StaleReads \in BOOLEAN
    /\ Faults \in BOOLEAN
    /\ ReadOnly \in BOOLEAN

VARIABLES
    table,    \* table[o]: the item of o in DynamoDB, or Missing
    replica,  \* replica[o]: the value of table[o] before its last put
    index,    \* index[o]: entries of o's search document, {} without one
    op,       \* op[r]: the mutation r runs
    pc,       \* pc[r]: the call r makes next, or how it ended
    side,     \* side[r]: the side of the relation r works on
    buf,      \* buf[r]: the item r read last, or is about to index
    races     \* history: requests that put over an item they had not read

vars == <<table, replica, index, op, pc, side, buf, races>>

Parts == {"base", "fields", "files", "relations", "children", "parents", "tables"}
Entry == [part: Parts, by: Requests \union {Origin}]
Types == {Clazz[o] : o \in Objects} \union {"InversionSolution"}
Item == [type: Types, entries: SUBSET Entry, packed: BOOLEAN]
Missing == [type |-> "missing", entries |-> {}, packed |-> FALSE]

TwoSided == {"fileRelation", "taskRelation"}

Ops ==
    [kind: {"update"}, first: Things, second: Things]
    \union [kind: {"fileRelation"}, first: Things, second: Files]
    \union [kind: {"taskRelation"}, first: Things, second: Things]
    \union [kind: {"appendTables"}, first: Files, second: Files]
    \union [kind: {"reindex"}, first: Objects, second: Objects]

NoCall == [kind |-> "none"]

\* One-object mutations have first = second.
Calls == {c \in Ops : c.kind \in Kinds /\ (c.kind \in TwoSided \/ c.first = c.second)}

Active == {"read", "write", "fetch", "put"}
Ended == {"done", "none", "error", "killed"}

\* Items, documents and calls have their types; a relation has two sides.
TypeOK ==
    /\ table \in [Objects -> Item \union {Missing}]
    /\ replica \in [Objects -> Item \union {Missing}]
    /\ index \in [Objects -> SUBSET Entry]
    /\ op \in [Requests -> Ops \union {NoCall}]
    /\ pc \in [Requests -> {"idle"} \union Active \union Ended]
    /\ side \in [Requests -> {1, 2}]
    /\ buf \in [Requests -> Item \union {Missing}]
    /\ races \subseteq Requests

\* An object as it was when the model starts.
OldItem(o) ==
    [type |-> Clazz[o], entries |-> {[part |-> "base", by |-> Origin]}, packed |-> FALSE]

Init ==
    /\ table = [o \in Objects |-> IF o \in InS3 \union Absent THEN Missing ELSE OldItem(o)]
    /\ replica = table
    /\ index = [o \in Objects |-> IF Indexable(o) THEN table[o].entries ELSE {}]
    /\ op = [r \in Requests |-> NoCall]
    /\ pc = [r \in Requests |-> "idle"]
    /\ side = [r \in Requests |-> 1]
    /\ buf = [r \in Requests |-> Missing]
    /\ races = {}

-----------------------------------------------------------------------------
Target(r) == IF side[r] = 1 THEN op[r].first ELSE op[r].second

\* The part of the item the mutation changes on each of its sides.
PartOn(c, s) ==
    CASE c.kind = "update"       -> "fields"
      [] c.kind = "fileRelation" -> IF s = 1 THEN "files" ELSE "relations"
      [] c.kind = "taskRelation" -> IF s = 1 THEN "children" ELSE "parents"
      [] OTHER                   -> "tables"

EntryOn(r, s) == [part |-> PartOn(op[r], s), by |-> r]

\* _from_s3 for a legacy object; None for any other.
S3Item(o) == IF o \in InS3 THEN OldItem(o) ELSE Missing

\* What a strongly consistent get_thing / get_file would return.
Current(o) == IF table[o] = Missing THEN S3Item(o) ELSE table[o]

\* get_item: the last value put, or an older one when reads may be stale.
Answers(o) == {table[o]} \union (IF StaleReads THEN {replica[o]} ELSE {})

Relations(E) == {e \in E : e.part = "relations"}

-----------------------------------------------------------------------------
\* Mutations that call _assert_writable before anything else.
Guarded == {"update", "fileRelation", "taskRelation"}

\* A client calls a mutation.  create_task_relation first reads both items
\* for their class names, which changes nothing.
Call(r) ==
    /\ pc[r] = "idle"
    /\ Cardinality({q \in Requests : pc[q] \in Active}) < MaxActive
    /\ \E c \in Calls :
          /\ op' = [op EXCEPT ![r] = c]
          /\ pc' = [pc EXCEPT ![r] =
                      IF ReadOnly /\ c.kind \in Guarded THEN "error"
                      ELSE IF c.kind = "reindex" THEN "fetch" ELSE "read"]
    /\ UNCHANGED <<table, replica, index, side, buf, races>>

\* Mutant: a side whose item is missing is skipped instead of raising.
SkipMissingSide(r) ==
    /\ pc[r] = "read"
    /\ op[r].kind \in TwoSided
    /\ \E item \in Answers(Target(r)) :
          /\ buf' = [buf EXCEPT ![r] = item]
          /\ IF item = Missing /\ side[r] = 1
             THEN side' = [side EXCEPT ![r] = 2] /\ UNCHANGED pc
             ELSE /\ pc' = [pc EXCEPT ![r] = IF item = Missing THEN "fetch" ELSE "write"]
                  /\ UNCHANGED side
    /\ UNCHANGED <<table, replica, index, op, races>>

\* The get_item of _patch_thing / _patch_file, which raise ValueError when
\* there is no item and never look in S3.
ReadForPatch(r) ==
    /\ pc[r] = "read"
    /\ op[r].kind \in TwoSided
    /\ \E item \in Answers(Target(r)) :
          /\ buf' = [buf EXCEPT ![r] = item]
          /\ pc' = [pc EXCEPT ![r] = IF item = Missing THEN "error" ELSE "write"]
    /\ UNCHANGED <<table, replica, index, op, side, races>>

\* Mutant: the merged item is indexed before it is put.
IndexBeforePut(r) ==
    /\ pc[r] = "read"
    /\ op[r].kind \in {"update", "appendTables"}
    /\ \E answer \in Answers(Target(r)) :
          LET item == IF answer = Missing THEN S3Item(Target(r)) ELSE answer
          IN  /\ buf' = [buf EXCEPT ![r] = item]
              /\ pc' = [pc EXCEPT ![r] = IF item = Missing THEN "none" ELSE "write"]
              /\ index' = [index EXCEPT ![Target(r)] = item.entries \union {EntryOn(r, 1)}]
    /\ UNCHANGED <<table, replica, op, side, races>>

\* get_thing of update_thing, get_file of the append: with S3 fallback, and a
\* mutation of an object that is nowhere returns null.
ReadForUpdate(r) ==
    /\ pc[r] = "read"
    /\ op[r].kind \in {"update", "appendTables"}
    /\ \E answer \in Answers(Target(r)) :
          LET item == IF answer = Missing THEN S3Item(Target(r)) ELSE answer
          IN  /\ buf' = [buf EXCEPT ![r] = item]
              /\ pc' = [pc EXCEPT ![r] = IF item = Missing THEN "none" ELSE "write"]
    /\ UNCHANGED <<table, replica, index, op, side, races>>

\* Mutants of the new item: the patch assigns the list instead of appending to
\* it, and the update puts its payload without the existing fields.
AssignInsteadOfAppend(r) ==
    [type |-> buf[r].type,
     entries |-> {e \in buf[r].entries : e.part # PartOn(op[r], side[r])}
                     \union {EntryOn(r, side[r])},
     packed |-> FALSE]
PayloadOnly(r) ==
    [type |-> Clazz[Target(r)], entries |-> {EntryOn(r, side[r])}, packed |-> FALSE]

\* What each mutation makes of the item it read.  A patch keeps the stored
\* type, update_thing takes it from the content, the append hard-codes it; a
\* patch of File.relations packs a list longer than Limit, and the append
\* writes the list back as get_file unpacked it.
Patched(r) ==
    LET added == buf[r].entries \union {EntryOn(r, side[r])}
    IN  CASE op[r].kind = "update" ->
               [type |-> Clazz[Target(r)], entries |-> added, packed |-> buf[r].packed]
          [] op[r].kind = "appendTables" ->
               [type |-> "InversionSolution", entries |-> added, packed |-> FALSE]
          [] op[r].kind = "fileRelation" /\ side[r] = 2 ->
               [type |-> buf[r].type, entries |-> added,
                packed |-> Cardinality(Relations(added)) > Limit]
          [] OTHER ->
               [type |-> buf[r].type, entries |-> added, packed |-> buf[r].packed]

\* What follows a put: the other side of a relation, the index, or the end.
AfterWrite(r) ==
    CASE op[r].kind \in TwoSided -> IF side[r] = 1 THEN "read" ELSE "fetch"
      [] op[r].kind = "update"   -> "put"
      [] OTHER                   -> "done"

\* The unconditional put_item of the whole item.
WriteItem(r) ==
    /\ pc[r] = "write"
    /\ table' = [table EXCEPT ![Target(r)] = Patched(r)]
    /\ replica' = [replica EXCEPT ![Target(r)] = table[Target(r)]]
    /\ races' = IF Current(Target(r)) = buf[r] THEN races ELSE races \union {r}
    /\ buf' = [buf EXCEPT ![r] = Patched(r)]
    /\ side' = [side EXCEPT ![r] = IF op[r].kind \in TwoSided THEN 3 - @ ELSE @]
    /\ pc' = [pc EXCEPT ![r] = AfterWrite(r)]
    /\ UNCHANGED <<index, op>>

\* What follows a side's index PUT, or a side with nothing to index.
AfterPut(r) == IF op[r].kind \in TwoSided /\ side[r] = 1 THEN "fetch" ELSE "done"
SideAfterPut(r) == IF AfterPut(r) = "fetch" THEN 2 ELSE side[r]

\* get_thing / get_file / get_object before an index PUT.
FetchForIndex(r) ==
    /\ pc[r] = "fetch"
    /\ \E answer \in Answers(Target(r)) :
          LET item == IF answer = Missing THEN S3Item(Target(r)) ELSE answer
          IN  \/ /\ item # Missing
                 /\ buf' = [buf EXCEPT ![r] = item]
                 /\ pc' = [pc EXCEPT ![r] = "put"]
                 /\ UNCHANGED side
              \/ /\ item = Missing
                 /\ pc' = [pc EXCEPT ![r] = AfterPut(r)]
                 /\ side' = [side EXCEPT ![r] = SideAfterPut(r)]
                 /\ UNCHANGED buf
    /\ UNCHANGED <<table, replica, index, op, races>>

\* index_document: the PUT replaces the whole document, or fails silently; a
\* document that is not indexable is not put.
PutDocument(r) ==
    /\ pc[r] = "put"
    /\ \/ Indexable(Target(r)) /\ index' = [index EXCEPT ![Target(r)] = buf[r].entries]
       \/ (Faults \/ ~Indexable(Target(r))) /\ UNCHANGED index
    /\ pc' = [pc EXCEPT ![r] = AfterPut(r)]
    /\ side' = [side EXCEPT ![r] = SideAfterPut(r)]
    /\ UNCHANGED <<table, replica, op, buf, races>>

\* A call raises, or Lambda kills the request, between two calls.
Fail(r) ==
    /\ Faults
    /\ pc[r] \in Active
    /\ \E end \in {"error", "killed"} : pc' = [pc EXCEPT ![r] = end]
    /\ UNCHANGED <<table, replica, index, op, side, buf, races>>

-----------------------------------------------------------------------------
Next == \E r \in Requests :
    \/ Call(r)
    \/ ReadForPatch(r)
    \/ ReadForUpdate(r)
    \/ WriteItem(r)
    \/ FetchForIndex(r)
    \/ PutDocument(r)
    \/ Fail(r)

Spec == Init /\ [][Next]_vars

-----------------------------------------------------------------------------
RelationDone(r) ==
    /\ pc[r] = "done"
    /\ op[r].kind \in TwoSided

FirstSideStored(r) == EntryOn(r, 1) \in Current(op[r].first).entries
SecondSideStored(r) == EntryOn(r, 2) \in Current(op[r].second).entries

\* A relation mutation that returned is on both records ("Append a file-thing
\* relation to both the Thing and File records", create_file_relation), even
\* after later mutations of the same objects.
AcknowledgedOnBothRecords ==
    \A r \in Requests : RelationDone(r) => FirstSideStored(r) /\ SecondSideStored(r)

\* The promise that survives concurrency: as long as no request has put over an
\* item changed since it read it, a returned relation is on both records.
RaceFreeOnBothRecords == races = {} => AcknowledgedOnBothRecords

\* An aborted relation leaves at most its first side: without races the File
\* (or child) side is never there without the Thing (or parent) side.
SecondSideBacked ==
    races = {} => \A r \in Requests :
        (op[r].kind \in TwoSided /\ SecondSideStored(r)) => FirstSideStored(r)

\* Without races a search document shows nothing its object does not hold,
\* stale reads, failed PUTs and killed requests included.
IndexBacked ==
    races = {} => \A o \in Objects : index[o] \subseteq Current(o).entries

\* However mutations overlap, they are the atomic appends of RecordAppends until
\* a put races: each put adds the one entry of one side of one mutation to one
\* object, once and the sides in order, and drops nothing from any object.
Appends == INSTANCE RecordAppends WITH
    Records <- Objects, Writers <- Requests,
    content <- [o \in Objects |-> Current(o).entries], void <- races # {}
ImplementsAppends == Appends!Spec
=============================================================================
