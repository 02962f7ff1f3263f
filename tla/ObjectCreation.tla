--------------------------- MODULE ObjectCreation ---------------------------
(***************************************************************************)
(* Creation of an object: the create_* mutations, data/dynamo.py           *)
(* create_thing / create_file / create_table, the id allocation of         *)
(* _atomic_put and data/ids.py, the search-index PUT that follows, and,    *)
(* for files, the upload placeholder of data/s3.py.                        *)
(*                                                                         *)
(* Every request is one Lambda invocation; its steps are its calls to      *)
(* DynamoDB, Elasticsearch and S3, and the steps of different requests     *)
(* interleave.  A call may fail, its answer may be lost after it took      *)
(* effect, and Lambda may kill a request between two calls.                *)
(***************************************************************************)
EXTENDS Integers

CONSTANTS
    Requests,     \* create mutations, one per client call
    Suffixes,     \* what append_uniq can draw (57^5 strings in the code)
    Classes,      \* class names the mutations create
    StoreOf,      \* StoreOf[c]: the DynamoDB table of class c
    NotIndexed,   \* search.NOT_INDEXED
    FirstId,      \* ids.FIRST_ID
    MaxAttempts,  \* attempts of _atomic_put (10 in the code)
    Seeded,       \* the ToshiIdentity item exists before the first create
    StaleReads,   \* get_item is eventually consistent
    ReadOnly      \* DB_READ_ONLY

Stores == {"Thing", "File", "Table"}

ASSUME CreationAssumption ==
    /\ StoreOf \in [Classes -> Stores]
    /\ NotIndexed \subseteq Classes
    /\ FirstId \in Nat
    /\ MaxAttempts \in Nat \ {0}
    /\ Seeded \in BOOLEAN
    /\ StaleReads \in BOOLEAN
    /\ ReadOnly \in BOOLEAN

NoItem == -1      \* the ToshiIdentity table holds no item for the stage

VARIABLES
    counter,      \* the ToshiIdentity item, or NoItem
    rewound,      \* history: a late seed has put the counter back
    replicas,     \* values of the item an eventually consistent read may return
    objects,      \* items of the three object tables
    index,        \* documents of the search index
    placeholders, \* File objects whose S3 upload key holds the placeholder
    uploads,      \* File objects whose S3 upload key holds the client's bytes
    pc,           \* pc[r]: the call request r makes next, or how it ended
    clazz,        \* clazz[r]: the class r creates
    cur,          \* cur[r]: current_id of the running attempt
    uniq,         \* uniq[r]: the suffix drawn for the running attempt
    attempt       \* attempt[r]: attempts of _atomic_put already cancelled

counterVars == <<counter, rewound, replicas>>
s3Vars == <<placeholders, uploads>>
localVars == <<clazz, cur, uniq, attempt>>
vars == <<counter, rewound, replicas, objects, index, placeholders, uploads,
          pc, clazz, cur, uniq, attempt>>

Object == [num: Nat, uniq: Suffixes, clazz: Classes, owner: Requests]

Live == {"read", "seed", "transact", "index", "post"}
Ended == {"done", "error", "killed"}
PC == {"new"} \union Live \union Ended

\* Counter, items and calls have their types; no create starts an attempt past
\* MaxAttempts.
TypeOK ==
    /\ counter \in Nat \union {NoItem}
    /\ rewound \in BOOLEAN
    /\ replicas \subseteq Nat \union {NoItem}
    /\ objects \subseteq Object
    /\ index \subseteq Object
    /\ placeholders \subseteq Object
    /\ uploads \subseteq Object
    /\ pc \in [Requests -> PC]
    /\ clazz \in [Requests -> Classes]
    /\ cur \in [Requests -> Nat]
    /\ uniq \in [Requests -> Suffixes]
    /\ attempt \in [Requests -> 0 .. MaxAttempts]

Init ==
    /\ counter = IF Seeded THEN FirstId ELSE NoItem
    /\ rewound = FALSE
    /\ replicas = {counter}
    /\ objects = {}
    /\ index = {}
    /\ placeholders = {}
    /\ uploads = {}
    /\ pc = [r \in Requests |-> "new"]
    /\ clazz \in [Requests -> Classes]
    /\ cur = [r \in Requests |-> FirstId]
    /\ uniq \in {[r \in Requests |-> s] : s \in Suffixes}
    /\ attempt = [r \in Requests |-> 0]

-----------------------------------------------------------------------------
\* The object r writes in its running attempt: its id is the number read from
\* the counter followed by the drawn suffix.
ObjectOf(r) ==
    [num |-> cur[r], uniq |-> uniq[r], clazz |-> clazz[r], owner |-> r]

SameKey(o, p) ==
    /\ o.num = p.num
    /\ o.uniq = p.uniq
    /\ StoreOf[o.clazz] = StoreOf[p.clazz]

\* An unconditional Put: whatever was stored under the key is replaced.
PutInto(S, o) == {p \in S : ~SameKey(p, o)} \union {o}

Goto(r, from, to) ==
    /\ pc[r] = from
    /\ pc' = [pc EXCEPT ![r] = to]

-----------------------------------------------------------------------------
\* create_thing / create_file / create_table up to the first call: the write
\* guard, then _atomic_put's first attempt.
BeginCreate(r) ==
    /\ Goto(r, "new", IF ReadOnly THEN "error" ELSE "read")
    /\ UNCHANGED <<counterVars, objects, index, s3Vars, localVars>>

\* read_current_id's get_item, when it returns an item.
ReadCurrentId(r) ==
    /\ Goto(r, "read", "transact")
    /\ \E v \in (IF StaleReads THEN replicas ELSE {counter}) \ {NoItem},
          s \in Suffixes :
          /\ cur' = [cur EXCEPT ![r] = v]
          /\ uniq' = [uniq EXCEPT ![r] = s]
    /\ UNCHANGED <<counterVars, objects, index, s3Vars, clazz, attempt>>

\* read_current_id's get_item, when it returns no item.
ReadNoItem(r) ==
    /\ Goto(r, "read", "seed")
    /\ NoItem \in (IF StaleReads THEN replicas ELSE {counter})
    /\ UNCHANGED <<counterVars, objects, index, s3Vars, localVars>>

\* read_current_id's unconditional put_item of FIRST_ID: it puts the counter
\* back when another create has seeded it and committed since the get_item.
SeedCounter(r) ==
    /\ Goto(r, "seed", "transact")
    /\ counter' = FirstId
    /\ rewound' = (rewound \/ counter > FirstId)
    /\ replicas' = replicas \union {FirstId}
    /\ cur' = [cur EXCEPT ![r] = FirstId]
    /\ \E s \in Suffixes : uniq' = [uniq EXCEPT ![r] = s]
    /\ UNCHANGED <<objects, index, s3Vars, clazz, attempt>>

\* Mutant: the transaction without its condition.
UnconditionalCommit(r) == cur[r] <= counter

\* The condition "object_id = :cur" that guards the whole transaction.
CounterUnchanged(r) == counter = cur[r]

\* Mutant: a lost answer is retried like a cancelled transaction.
RetryLostAnswer(r) ==
    /\ pc[r] = "transact"
    /\ CounterUnchanged(r)
    /\ counter' = counter + 1
    /\ replicas' = replicas \union {counter + 1}
    /\ objects' = PutInto(objects, ObjectOf(r))
    /\ \E end \in {"index", "read"} : pc' = [pc EXCEPT ![r] = end]
    /\ UNCHANGED <<rewound, index, s3Vars, localVars>>

\* transact_write_items succeeds: the counter moves and the object is put in
\* one atomic step.  When the answer is lost the mutation raises (an error
\* other than the two retried codes) although the object is stored.
CommitTransaction(r) ==
    /\ pc[r] = "transact"
    /\ CounterUnchanged(r)
    /\ counter' = counter + 1
    /\ replicas' = replicas \union {counter + 1}
    /\ objects' = PutInto(objects, ObjectOf(r))
    /\ \E end \in {"index", "error"} : pc' = [pc EXCEPT ![r] = end]
    /\ UNCHANGED <<rewound, index, s3Vars, localVars>>

\* Mutants of the end of a cancelled attempt: no limit, one attempt too many,
\* and falling out of the loop without the RuntimeError.
RetryForever(r) ==
    /\ pc[r] = "transact"
    /\ ~CounterUnchanged(r)
    /\ pc' = [pc EXCEPT ![r] = "read"]
    /\ UNCHANGED <<counterVars, objects, index, s3Vars, localVars>>
OneAttemptTooMany(r) ==
    /\ pc[r] = "transact"
    /\ ~CounterUnchanged(r)
    /\ attempt' = [attempt EXCEPT ![r] = @ + 1]
    /\ pc' = [pc EXCEPT ![r] =
                 IF attempt[r] <= MaxAttempts THEN "read" ELSE "error"]
    /\ UNCHANGED <<counterVars, objects, index, s3Vars, clazz, cur, uniq>>
ExhaustedReturnsId(r) ==
    /\ pc[r] = "transact"
    /\ ~CounterUnchanged(r)
    /\ attempt' = [attempt EXCEPT ![r] = @ + 1]
    /\ pc' = [pc EXCEPT ![r] =
                 IF attempt[r] + 1 < MaxAttempts THEN "read" ELSE "index"]
    /\ UNCHANGED <<counterVars, objects, index, s3Vars, clazz, cur, uniq>>

\* The transaction is cancelled: the counter moved since it was read, or
\* another transaction on it is in flight.  After the backoff _atomic_put
\* reads again, and after the last attempt it raises RuntimeError.
CancelTransaction(r) ==
    /\ pc[r] = "transact"
    /\ ~CounterUnchanged(r) \/ \E q \in Requests \ {r} : pc[q] = "transact"
    /\ attempt' = [attempt EXCEPT ![r] = @ + 1]
    /\ pc' = [pc EXCEPT ![r] =
                 IF attempt[r] + 1 < MaxAttempts THEN "read" ELSE "error"]
    /\ UNCHANGED <<counterVars, objects, index, s3Vars, clazz, cur, uniq>>

\* Mutant: the error is logged instead of raised.
SwallowError(r) ==
    /\ pc[r] \in {"read", "seed", "transact"}
    /\ pc' = [pc EXCEPT ![r] = "index"]
    /\ UNCHANGED <<counterVars, objects, index, s3Vars, localVars>>

\* A DynamoDB call raises anything else before it takes effect.
RaiseError(r) ==
    /\ pc[r] \in {"read", "seed", "transact"}
    /\ pc' = [pc EXCEPT ![r] = "error"]
    /\ UNCHANGED <<counterVars, objects, index, s3Vars, localVars>>

AfterIndex(r) == IF StoreOf[clazz[r]] = "File" THEN "post" ELSE "done"

\* index_document: best effort, so the request goes on whether or not the
\* document reaches the index; classes of NOT_INDEXED are skipped.
IndexDocument(r) ==
    /\ Goto(r, "index", AfterIndex(r))
    /\ \/ /\ clazz[r] \notin NotIndexed
          /\ index' = PutInto(index, ObjectOf(r))
       \/ UNCHANGED index
    /\ UNCHANGED <<counterVars, objects, s3Vars, localVars>>

\* presigned_post_for_file: the placeholder is put at the upload key, then the
\* client gets a URL for that key; without the placeholder it gets none.
PresignedPost(r) ==
    /\ Goto(r, "post", "done")
    /\ \/ /\ placeholders' = PutInto(placeholders, ObjectOf(r))
          /\ uploads' = {o \in uploads : ~SameKey(o, ObjectOf(r))}
       \/ UNCHANGED s3Vars
    /\ UNCHANGED <<counterVars, objects, index, localVars>>

\* The client uses its presigned URL, at any later time.
ClientUpload(r) ==
    /\ pc[r] = "done"
    /\ ObjectOf(r) \in placeholders
    /\ uploads' = PutInto(uploads, ObjectOf(r))
    /\ placeholders' = {o \in placeholders : ~SameKey(o, ObjectOf(r))}
    /\ UNCHANGED <<counterVars, objects, index, pc, localVars>>

\* Lambda's timeout (or a crash) ends the request between two calls.
Kill(r) ==
    /\ pc[r] \in Live
    /\ pc' = [pc EXCEPT ![r] = "killed"]
    /\ UNCHANGED <<counterVars, objects, index, s3Vars, localVars>>

-----------------------------------------------------------------------------
Step(r) ==
    \/ ReadCurrentId(r)
    \/ ReadNoItem(r)
    \/ SeedCounter(r)
    \/ CommitTransaction(r)
    \/ CancelTransaction(r)
    \/ RaiseError(r)
    \/ IndexDocument(r)
    \/ PresignedPost(r)

Next == \E r \in Requests :
            BeginCreate(r) \/ Step(r) \/ ClientUpload(r) \/ Kill(r)

Spec == Init /\ [][Next]_vars

\* Lambda runs every invocation it accepted until it returns, raises or is
\* killed; clients are not obliged to call or to upload, and nothing obliges a
\* kill.
Fairness == \A r \in Requests : WF_vars(Step(r))

FairSpec == Spec /\ Fairness

-----------------------------------------------------------------------------
\* No two stored objects were given the same counter value ("A conditional
\* check on the counter value ensures no two concurrent writers get the same
\* ID", _atomic_put).
DistinctNumbers ==
    \A o, p \in objects : o.num = p.num => o = p

\* Everything else is promised up to the step that puts the counter back.
\* Until then no two stored objects share a number.
UniqueNumbers == ~rewound => DistinctNumbers

\* The counter and the object tables move together: every value the counter
\* has passed numbers exactly the objects stored, none is skipped by an
\* aborted attempt and none is stored ahead of the counter.
NumbersDense ==
    ~rewound => {o.num : o \in objects} = FirstId .. (counter - 1)

\* However often an attempt is cancelled, retried or its answer lost, one
\* create mutation stores at most one object.
OneObjectPerRequest ==
    \A o, p \in objects : o.owner = p.owner => o = p

\* A create that got as far as indexing, or returned, has its own object in
\* the table under the id it returns, whatever other creates do later.
AcknowledgedIsStored ==
    ~rewound =>
        \A r \in Requests : pc[r] \in {"index", "post", "done"} => ObjectOf(r) \in objects

\* The search index and the upload area hold nothing for an object that is not
\* stored: a kill or an error may leave a stored object without document or
\* upload key, never the reverse.
DerivedDataBacked ==
    ~rewound => index \union placeholders \union uploads \subseteq objects

\* Bytes a client uploaded are never replaced by another create's placeholder.
UploadsSurvive == [][~rewound => uploads \subseteq uploads']_vars

\* A later create gets a larger number than every object stored before it:
\* the order backfill.numeric_id and --min-id rely on.
NumbersFollowCreation ==
    [][~rewound => \A o \in objects' \ objects : \A p \in objects : p.num < o.num]_vars

\* A create never replaces a stored object.
CreateNeverOverwrites == [][~rewound => objects \subseteq objects']_vars

\* Every create ends: the retries are bounded and nothing waits for another
\* request.
EveryCreateEnds == \A r \in Requests : pc[r] = "read" ~> pc[r] \in Ended

=============================================================================
