--------------------------- MODULE SearchBackfill ---------------------------
(***************************************************************************)
(* One run of scripts/backfill_search_index.py (run_backfill and its       *)
(* sources, data/backfill.py) beside the live write path, which keeps      *)
(* putting objects and indexing them one at a time.                        *)
(*                                                                         *)
(* A document is the version of an object it shows; an object's versions   *)
(* are numbered from 1, and 0 means there is none.  The initial state is   *)
(* the moment named by --since.  _bulk calls are those of BulkContract,    *)
(* which BulkIndex implements.                                             *)
(***************************************************************************)
EXTENDS Integers, Sequences, FiniteSets

CONSTANTS
    Objects,    \* ids, those not used yet included
    StoreOf,    \* the store (Thing, File, Table) of each id
    Legacy,     \* the copies iter_legacy_documents lists, by id
    Unselected, \* ids that NOT_INDEXED, --clazz, --min-id or a missing
                \* clazz_name leave out
    Passes,     \* the (source, store) pairs, in the order main lists them
    Options,    \* the command lines considered
    BatchSize,  \* --batch-size
    MaxWrites,  \* bound on the live writes
    None        \* an option that is not given

Stamps == {"undated", "before", "since"}  \* the later of created, updated
Copies == [version : Nat, stamp : Stamps]
Absent == [version |-> 0, stamp |-> "undated"]

ASSUME BackfillAssumption ==
    /\ IsFiniteSet(Objects)
    /\ Legacy \in [Objects -> {Absent} \union [version : {1}, stamp : Stamps]]
    /\ Passes \in Seq([source : {"legacy", "dynamo"},
                       store : {StoreOf[o] : o \in Objects}])
    /\ Passes # <<>>
    /\ Options \subseteq [execute : BOOLEAN, since : BOOLEAN,
                          limit : Nat \union {None},
                          maxFailures : (Nat \ {0}) \union {None}]
    /\ None \notin Nat
    /\ BatchSize \in Nat \ {0}
    /\ MaxWrites \in Nat

VARIABLES
    dynamo,    \* the item of each object
    index,     \* the version each search document shows
    inFlight,  \* index PUTs of live writes not answered yet
    writes,    \* the live writes so far
    options,   \* the run's options
    phase,     \* "idle", "reading", "flushing", "finished" or "aborted"
    pass,      \* position in Passes
    unread,    \* ids the current source has not got to
    page,      \* ids read and not yet looked at
    copy,      \* what was read of each
    batch,     \* ids of the current batch
    seen,      \* sum of BackfillStats.seen
    indexed,   \* BackfillStats.indexed
    failed,    \* BackfillStats.failed
    call,      \* the _bulk call: its documents, what it has written, what
               \* it reports
    atStart    \* when the run started: the objects, and those with a put of
               \* an older version still in flight

liveVars == <<dynamo, inFlight, writes>>
readVars == <<pass, unread, page, copy>>
statVars == <<seen, indexed, failed>>
vars == <<liveVars, readVars, statVars, index, options, phase, batch, call,
          atStart>>

NoCall == [docs |-> {}, written |-> {}, indexed |-> {}, failed |-> {},
           outcome |-> "returned"]

Bulk == INSTANCE BulkContract WITH
    Docs <- Objects,
    batch <- call.docs,
    written <- call.written,
    indexed <- call.indexed,
    failed <- call.failed,
    outcome <- call.outcome

\* The object as the API shows it: the item, else the legacy copy.
Current(o) == IF dynamo[o] # Absent THEN dynamo[o] ELSE Legacy[o]

\* The run stays within its sources, and no batch is longer than --batch-size.
TypeOK ==
    /\ dynamo \in [Objects -> Copies]
    /\ index \in [Objects -> Nat]
    /\ inFlight \subseteq [id : Objects, version : Nat]
    /\ writes \subseteq [id : Objects, version : Nat]
    /\ options \in Options
    /\ phase \in {"idle", "reading", "flushing", "finished", "aborted"}
    /\ pass \in DOMAIN Passes
    /\ unread \subseteq Objects
    /\ page \subseteq Objects
    /\ copy \in [Objects -> Copies]
    /\ batch \subseteq Objects
    /\ Cardinality(batch) <= BatchSize
    /\ seen \in Nat
    /\ indexed \in Nat
    /\ failed \subseteq [pass : DOMAIN Passes, id : Objects, version : Nat]
    /\ call \in [docs : SUBSET Objects, written : SUBSET Objects,
                 indexed : SUBSET Objects, failed : SUBSET Objects,
                 outcome : {"running", "returned", "raised"}]
    /\ atStart \in [current : [Objects -> Copies], overtaken : SUBSET Objects]

\* Items are newer than the legacy copy they replace, every object is indexed
\* or was missed by the index, and the put of an earlier version of an item may
\* still be on its way.
Init ==
    /\ dynamo \in [Objects -> {Absent} \union
                      [version : {2}, stamp : {"undated", "before"}]]
    /\ \A o \in Objects :
          dynamo[o] # Absent /\ Legacy[o].stamp = "before"
              => dynamo[o].stamp = "before"
    /\ index \in [Objects -> 0 .. 2]
    /\ \A o \in Objects : index[o] \in {0, Current(o).version}
    /\ inFlight \in {{}} \union {{[id |-> o, version |-> 1]} : o \in {x \in Objects : dynamo[x] # Absent}}
    /\ writes = {}
    /\ options \in Options
    /\ phase = "idle"
    /\ pass = 1
    /\ unread = {}
    /\ page = {}
    /\ copy = [o \in Objects |-> Absent]
    /\ batch = {}
    /\ seen = 0
    /\ indexed = 0
    /\ failed = {}
    /\ call = NoCall
    /\ atStart = [current |-> [o \in Objects |-> Absent], overtaken |-> {}]

-----------------------------------------------------------------------------
(* The live write path. *)

\* A mutation puts the next version of an object; one that goes by way of
\* update_general_task also dates it, the others leave its dates alone.
LiveWrite(o) ==
    /\ Cardinality(writes) < MaxWrites
    /\ \E stamp \in {Current(o).stamp, "since"} :
          dynamo' = [dynamo EXCEPT ![o] =
                        [version |-> Current(o).version + 1, stamp |-> stamp]]
    /\ LET put == [id |-> o, version |-> Current(o).version + 1]
       IN  /\ writes' = writes \union {put}
           /\ inFlight' = inFlight \union {put}
    /\ UNCHANGED <<index, options, phase, readVars, batch, statVars, call, atStart>>

\* index_document reaches the domain, or fails and is only logged.
LivePut(put) ==
    /\ inFlight' = inFlight \ {put}
    /\ \/ index' = [index EXCEPT ![put.id] = put.version]
       \/ UNCHANGED index
    /\ UNCHANGED <<dynamo, writes, options, phase, readVars, batch, statVars,
                   call, atStart>>

-----------------------------------------------------------------------------
(* run_backfill. *)

Members(p) == {o \in Objects : StoreOf[o] = Passes[p].store}

StartRun ==
    /\ phase = "idle"
    /\ phase' = "reading"
    /\ unread' = Members(1)
    /\ atStart' = [current |-> [o \in Objects |-> Current(o)],
                   overtaken |-> {put.id : put \in {p \in inFlight :
                                               p.version < Current(p.id).version}}]
    /\ UNCHANGED <<liveVars, index, options, pass, page, copy, batch, statVars,
                   call>>

Source(o) == IF Passes[pass].source = "legacy" THEN Legacy[o] ELSE dynamo[o]

\* The next page of the scan or of the listing, as it is when it is read.
ReadPage ==
    /\ phase = "reading"
    /\ page = {}
    /\ \E ids \in SUBSET unread :
          /\ ids # {}
          /\ unread' = unread \ ids
          /\ page' = {o \in ids : Source(o) # Absent}
          /\ copy' = [o \in Objects |-> IF o \in page' THEN Source(o) ELSE copy[o]]
    /\ UNCHANGED <<liveVars, index, options, phase, pass, batch, statVars, call,
                   atStart>>

\* A source that cannot be read ends the run.
ReadFails ==
    /\ phase = "reading"
    /\ page = {}
    /\ unread # {}
    /\ phase' = "aborted"
    /\ UNCHANGED <<liveVars, index, options, readVars, batch, statVars, call,
                   atStart>>

\* The filters; a document without a date passes --since.
Kept(o, doc) ==
    /\ o \notin Unselected
    /\ options.since => doc.stamp # "before"

Skip(o) ==
    /\ phase = "reading"
    /\ ~Kept(o, copy[o])
    /\ page' = page \ {o}
    /\ copy' = [copy EXCEPT ![o] = Absent]
    /\ UNCHANGED <<liveVars, index, options, phase, pass, unread, batch,
                   statVars, call, atStart>>

\* Mutant: the limit is checked against the documents before this one.
LimitPassed(n) == options.limit # None /\ n > options.limit

LimitReached(n) == options.limit # None /\ n >= options.limit

\* The loop over the source goes on, or the limit breaks it.
GoOn(o) ==
    IF LimitReached(seen + 1)
    THEN page' = {} /\ unread' = {}
    ELSE page' = page \ {o} /\ UNCHANGED unread

\* A dry run only counts.
Count(o) ==
    /\ phase = "reading"
    /\ ~options.execute
    /\ Kept(o, copy[o])
    /\ seen' = seen + 1
    /\ GoOn(o)
    /\ copy' = [copy EXCEPT ![o] = Absent]
    /\ UNCHANGED <<liveVars, index, options, phase, pass, batch, indexed, failed,
                   call, atStart>>

\* _flush makes the _bulk call.
Flush ==
    /\ phase' = "flushing"
    /\ call' = [NoCall EXCEPT !.docs = batch', !.outcome = "running"]

\* The document joins the batch, which is sent when it is long enough, large
\* enough in bytes, or the last one.
Take(o) ==
    /\ phase = "reading"
    /\ options.execute
    /\ Kept(o, copy[o])
    /\ seen' = seen + 1
    /\ batch' = batch \union {o}
    /\ GoOn(o)
    /\ \/ Flush
       \/ /\ Cardinality(batch') < BatchSize
          /\ ~LimitReached(seen + 1)
          /\ UNCHANGED <<phase, call>>
    /\ UNCHANGED <<liveVars, index, options, pass, copy, indexed, failed, atStart>>

\* Mutant: the documents left over at the end of a source are not sent.
DropRemainder ==
    /\ phase = "reading"
    /\ page = {} /\ unread = {}
    /\ batch' = {}
    /\ IF pass = Len(Passes) \/ LimitReached(seen)
       THEN phase' = "finished" /\ UNCHANGED <<pass, unread>>
       ELSE /\ pass' = pass + 1
            /\ unread' = Members(pass + 1)
            /\ UNCHANGED phase
    /\ UNCHANGED <<liveVars, index, options, page, copy, statVars, call, atStart>>

\* The end of a source: send what is left, then go on with the next source.
EndSource ==
    /\ phase = "reading"
    /\ page = {} /\ unread = {}
    /\ IF batch # {}
       THEN UNCHANGED <<batch, pass, unread>> /\ Flush
       ELSE /\ IF pass = Len(Passes) \/ LimitReached(seen)
               THEN phase' = "finished" /\ UNCHANGED <<pass, unread>>
               ELSE /\ pass' = pass + 1
                    /\ unread' = Members(pass + 1)
                    /\ UNCHANGED phase
            /\ UNCHANGED <<batch, call>>
    /\ UNCHANGED <<liveVars, index, options, page, copy, statVars, atStart>>

-----------------------------------------------------------------------------
(* The _bulk call of a batch. *)

Calling == phase = "flushing" /\ call.outcome = "running"

\* Some of the documents are written, perhaps once more.
BulkWrite ==
    /\ Calling
    /\ \E some \in SUBSET batch :
          /\ call' = [call EXCEPT !.written = @ \union some]
          /\ index' = [o \in Objects |->
                          IF o \in some THEN copy[o].version ELSE index[o]]
    /\ Bulk!Write
    /\ UNCHANGED <<liveVars, options, phase, readVars, batch, statVars, atStart>>

BulkReturn ==
    /\ Calling
    /\ \E rejected \in SUBSET batch :
          call' = [call EXCEPT !.indexed = batch \ rejected,
                               !.failed = rejected,
                               !.outcome = "returned"]
    /\ Bulk!Return
    /\ UNCHANGED <<liveVars, index, options, phase, readVars, batch, statVars,
                   atStart>>

\* The call raises, and the run with it.
BulkRaise ==
    /\ Calling
    /\ call' = [call EXCEPT !.outcome = "raised"]
    /\ Bulk!Raise
    /\ phase' = "aborted"
    /\ UNCHANGED <<liveVars, index, options, readVars, batch, statVars, atStart>>

\* Mutant: the run stops one rejected document too late.
FailuresExceeded ==
    options.maxFailures # None /\ Cardinality(failed') > options.maxFailures

TooManyFailures ==
    options.maxFailures # None /\ Cardinality(failed') >= options.maxFailures

\* Mutant: the counts of a call replace those of the calls before it.
AssignStats ==
    /\ indexed' = Cardinality(call.indexed)
    /\ failed' = {[pass |-> pass, id |-> o, version |-> copy[o].version] :
                     o \in call.failed}

AddStats ==
    /\ indexed' = indexed + Cardinality(call.indexed)
    /\ failed' = failed \union
          {[pass |-> pass, id |-> o, version |-> copy[o].version] :
              o \in call.failed}

\* Mutant: rejected documents are sent again until none is left.
RetryRejected ==
    /\ phase = "flushing"
    /\ call.outcome = "returned"
    /\ batch' = call.failed
    /\ indexed' = indexed + Cardinality(call.indexed)
    /\ IF call.failed = {}
       THEN phase' = "reading" /\ call' = NoCall
       ELSE /\ call' = [NoCall EXCEPT !.docs = batch', !.outcome = "running"]
            /\ UNCHANGED phase
    /\ copy' = [o \in Objects |->
                   IF o \in page \union batch' THEN copy[o] ELSE Absent]
    /\ UNCHANGED <<liveVars, index, options, pass, unread, page, seen, failed,
                   atStart>>

\* The rest of _flush: too many failures end the run.
Record ==
    /\ phase = "flushing"
    /\ call.outcome = "returned"
    /\ AddStats
    /\ phase' = IF TooManyFailures THEN "aborted" ELSE "reading"
    /\ batch' = {}
    /\ call' = NoCall
    /\ copy' = [o \in Objects |-> IF o \in page THEN copy[o] ELSE Absent]
    /\ UNCHANGED <<liveVars, index, options, pass, unread, page, seen, atStart>>

-----------------------------------------------------------------------------
Live ==
    \/ \E o \in Objects : LiveWrite(o)
    \/ \E put \in inFlight : LivePut(put)

Run ==
    \/ ReadPage \/ ReadFails
    \/ \E o \in page : Skip(o) \/ Count(o) \/ Take(o)
    \/ EndSource
    \/ BulkWrite \/ BulkReturn \/ BulkRaise \/ Record

Next == Live \/ StartRun \/ Run

Spec == Init /\ [][Next]_vars

\* A script that has been started runs until it ends; nobody has to start it
\* and no client has to write.
FairSpec == Spec /\ WF_vars(Run)

-----------------------------------------------------------------------------
Failed(o, version) ==
    \E f \in failed : f.id = o /\ f.version >= version

\* A run that has finished has brought every object it selects into the
\* index as it was when the run started, or newer, or lists it as failed;
\* whatever the live path writes meanwhile, and although the legacy copies go
\* first.  A put that a later one had overtaken before the run started may
\* still undo it: index_document carries no version.
Repaired ==
    phase = "finished" /\ options.execute /\ options.limit = None =>
        \A o \in Objects \ atStart.overtaken :
            LET copyThen == atStart.current[o]
            IN  copyThen # Absent /\ Kept(o, copyThen) =>
                    index[o] >= copyThen.version \/ Failed(o, copyThen.version)

\* Every document counted as read is counted as indexed, listed as failed or
\* waiting in the batch.
CountsAddUp ==
    options.execute /\ phase \in {"reading", "finished"} =>
        seen = indexed + Cardinality(failed) + Cardinality(batch)

\* The run reads on only below --max-failures.
StopsAtMaxFailures ==
    phase \in {"reading", "flushing", "finished"} /\ options.maxFailures # None =>
        Cardinality(failed) < options.maxFailures

\* "--limit: stop after this many documents" (backfill_search_index.py); it is
\* tested after a document is taken, so that --limit 0 takes one.
LimitRespected ==
    options.limit # None => seen <= options.limit \/ (options.limit = 0 /\ seen = 1)

\* A run that has been started ends.
EveryRunEnds == phase = "reading" ~> phase \in {"finished", "aborted"}
=============================================================================
