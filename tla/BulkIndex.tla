----------------------------- MODULE BulkIndex -----------------------------
(***************************************************************************)
(* bulk_index (data/search.py): one call for one batch of documents.  The  *)
(* batch is sent as one _bulk request; an oversized request is halved and  *)
(* each half sent by a call of its own, throttled requests and throttled   *)
(* documents are sent again, other rejections are listed.  The recursion   *)
(* of the code returns right after its two halves, so the calls still to   *)
(* run are a list of batches, the current one first.                       *)
(*                                                                         *)
(* One action per answer to a request.  What the cluster did before        *)
(* answering is its own business: a request that timed out or came back    *)
(* with a gateway error may have been applied, in part or whole.           *)
(***************************************************************************)
EXTENDS Integers, Sequences, FiniteSets

CONSTANTS
    Docs,         \* documents a caller may pass
    NotIndexed,   \* documents of the classes of search.NOT_INDEXED
    Oversized,    \* the batches over the domain's request size limit
    MaxAttempts   \* max_attempts (5 in the code)

ASSUME BulkAssumption ==
    /\ IsFiniteSet(Docs)
    /\ NotIndexed \subseteq Docs
    /\ Oversized \subseteq SUBSET Docs
    /\ MaxAttempts \in Nat \ {0}

VARIABLES
    batch,    \* the documents passed that are indexable
    work,     \* the batches still to send, the current one first
    attempt,  \* attempts of the current batch, this one included
    written,  \* documents the cluster has accepted
    indexed,  \* documents counted in BulkResult.indexed
    failed,   \* documents listed in BulkResult.failed
    outcome   \* "running", "returned" or "raised"

vars == <<batch, work, attempt, written, indexed, failed, outcome>>

\* Every call keeps within its attempts and never sends an empty request.
TypeOK ==
    /\ batch \in SUBSET Docs
    /\ work \in Seq((SUBSET Docs) \ {{}})
    /\ attempt \in 1 .. MaxAttempts
    /\ written \in SUBSET Docs
    /\ indexed \in SUBSET Docs
    /\ failed \in SUBSET Docs
    /\ outcome \in {"running", "returned", "raised"}

\* The call: prepare_document on every indexable document; nothing to send
\* returns at once.
Init ==
    /\ \E documents \in SUBSET Docs : batch = documents \ NotIndexed
    /\ work = IF batch = {} THEN <<>> ELSE <<batch>>
    /\ attempt = 1
    /\ written = {}
    /\ indexed = {}
    /\ failed = {}
    /\ outcome = IF batch = {} THEN "returned" ELSE "running"

-----------------------------------------------------------------------------
Sending == outcome = "running"
Pending == Head(work)

\* The cluster may have applied any part of a request it gave no proper answer
\* to, unless the request never reached it for its size.
MaybeApplied ==
    \E some \in SUBSET Pending :
        /\ Pending \in Oversized => some = {}
        /\ written' = written \union some

\* The batches left: when none is, the call returns its result.
Continue(rest) ==
    /\ work' = rest
    /\ attempt' = 1
    /\ outcome' = IF rest = <<>> THEN "returned" ELSE "running"

\* An exception leaves every frame of the recursion, and the partial results
\* with it.
RaiseError ==
    /\ outcome' = "raised"
    /\ indexed' = {}
    /\ failed' = {}
    /\ work' = <<>>
    /\ UNCHANGED <<batch, attempt>>

\* Mutant: rounding the halves down on both sides loses a document.
BothHalvesDown(B, first, second) ==
    /\ first \union second \subseteq B
    /\ first \intersect second = {}
    /\ Cardinality(first) = Cardinality(B) \div 2
    /\ Cardinality(second) = Cardinality(B) \div 2

\* pending[:half] and pending[half:].
Halves(B, first, second) ==
    /\ first \union second = B
    /\ first \intersect second = {}
    /\ Cardinality(first) = Cardinality(B) \div 2

\* 413: the batch is halved; a single document that does not fit is listed.
TooLarge ==
    /\ Sending
    /\ Pending \in Oversized
    /\ IF Cardinality(Pending) = 1
       THEN /\ failed' = failed \union Pending
            /\ Continue(Tail(work))
       ELSE /\ \E first, second \in SUBSET Pending :
                  /\ Halves(Pending, first, second)
                  /\ Continue(<<first, second>> \o Tail(work))
            /\ UNCHANGED failed
    /\ UNCHANGED <<batch, written, indexed>>

\* Mutant: the attempts start over at the limit.
StartOver == attempt' = IF attempt < MaxAttempts THEN attempt + 1 ELSE 1
NextAttempt ==
    /\ attempt < MaxAttempts
    /\ attempt' = attempt + 1

\* 429, 502, 503, 504 for the whole request, with an attempt left.
RetryRequest ==
    /\ Sending
    /\ MaybeApplied
    /\ NextAttempt
    /\ UNCHANGED <<batch, work, indexed, failed, outcome>>

\* The same with no attempt left, any other error status, a timeout or a lost
\* connection, and a cluster write block.
RequestFails ==
    /\ Sending
    /\ MaybeApplied
    /\ RaiseError

\* Mutant: documents throttled on the last attempt are dropped.
DropThrottled(throttled, rejected) ==
    /\ failed' = failed \union rejected
    /\ IF throttled # {} /\ attempt < MaxAttempts
       THEN /\ work' = <<throttled>> \o Tail(work)
            /\ NextAttempt
            /\ UNCHANGED outcome
       ELSE Continue(Tail(work))

\* Documents throttled with an attempt left are sent again by themselves;
\* every other rejection is listed.
SendAgainOrList(throttled, rejected) ==
    IF throttled # {} /\ attempt < MaxAttempts
    THEN /\ failed' = failed \union rejected
         /\ work' = <<throttled>> \o Tail(work)
         /\ NextAttempt
         /\ UNCHANGED outcome
    ELSE /\ failed' = failed \union rejected \union throttled
         /\ Continue(Tail(work))

\* The request is answered document by document.
Answered ==
    /\ Sending
    /\ Pending \notin Oversized
    /\ \E throttled, rejected \in SUBSET Pending :
          LET accepted == Pending \ (throttled \union rejected)
          IN  /\ throttled \intersect rejected = {}
              /\ written' = written \union accepted
              /\ indexed' = indexed \union accepted
              /\ SendAgainOrList(throttled, rejected)
    /\ UNCHANGED batch

-----------------------------------------------------------------------------
Next == TooLarge \/ RetryRequest \/ RequestFails \/ Answered

Spec == Init /\ [][Next]_vars

\* Every request is answered or times out, and the loop sends the next one.
FairSpec == Spec /\ WF_vars(Next)

-----------------------------------------------------------------------------
Unsent == UNION {work[i] : i \in DOMAIN work}

\* Through halving, retries and partial answers, every document is in exactly
\* one place: still to be sent, counted as indexed, or listed as failed.
EachDocumentOnce ==
    outcome # "raised" =>
        /\ batch = Unsent \union indexed \union failed
        /\ indexed \intersect failed = {}
        /\ Unsent \intersect (indexed \union failed) = {}
        /\ \A i, j \in DOMAIN work : i # j => work[i] \intersect work[j] = {}

\* A document counted as indexed is in the index.
IndexedIsWritten == indexed \subseteq written

\* Every call ends, also when the domain never stops refusing.
EveryCallEnds == <>(outcome # "running")

\* bulk_index implements what run_backfill relies on: the caller sees the
\* counts only once the call has returned.
Told(result) == IF outcome = "returned" THEN result ELSE {}
Contract == INSTANCE BulkContract WITH
    indexed <- Told(indexed),
    failed <- Told(failed)
ImplementsContract == Contract!Spec
=============================================================================
