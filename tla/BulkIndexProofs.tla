------------------------- MODULE BulkIndexProofs ---------------------------
(***************************************************************************)
(* Proofs about BulkIndex, for every set of documents, every size limit    *)
(* and every number of attempts: no document is lost or counted twice, the *)
(* count of indexed documents is true, and the call implements BulkContract.*)
(***************************************************************************)
EXTENDS BulkIndex, FiniteSetTheorems, SequenceTheorems, TLAPS

-----------------------------------------------------------------------------
(* The list of batches still to send. *)

Batches == (SUBSET Docs) \ {{}}

DocsOf(w) == UNION {w[i] : i \in DOMAIN w}

Apart(w) == \A i, j \in DOMAIN w : i # j => w[i] \intersect w[j] = {}

\* Taking the current batch off the list leaves the documents of the others.
LEMMA TakeBatch ==
    ASSUME NEW w \in Seq(Batches), w # <<>>, Apart(w)
    PROVE  /\ Head(w) \in Batches
           /\ Tail(w) \in Seq(Batches)
           /\ DocsOf(w) = Head(w) \union DocsOf(Tail(w))
           /\ Head(w) \intersect DocsOf(Tail(w)) = {}
           /\ Apart(Tail(w))
<1> DEFINE rest == Tail(w)
<1>1. /\ Head(w) = w[1]
      /\ w[1] \in Batches
      /\ rest \in Seq(Batches)
      /\ DOMAIN w = 1 .. Len(w)
      /\ DOMAIN rest = 1 .. Len(w) - 1
      /\ Len(w) \in Nat \ {0}
      /\ \A i \in 1 .. Len(w) - 1 : rest[i] = w[i + 1]
  OBVIOUS
<1>2. DocsOf(w) = w[1] \union DocsOf(rest)
  <2>1. ASSUME NEW d \in DocsOf(w), d \notin w[1] PROVE d \in DocsOf(rest)
    <3>1. PICK i \in DOMAIN w : d \in w[i]
      BY <2>1 DEF DocsOf
    <3>2. i - 1 \in DOMAIN rest /\ rest[i - 1] = w[i]
      BY <1>1, <2>1, <3>1
    <3> QED BY <3>1, <3>2 DEF DocsOf
  <2>2. ASSUME NEW d \in DocsOf(rest) PROVE d \in DocsOf(w)
    <3>1. PICK i \in DOMAIN rest : d \in rest[i]
      BY <2>2 DEF DocsOf
    <3>2. i + 1 \in DOMAIN w /\ rest[i] = w[i + 1]
      BY <1>1, <3>1
    <3> QED BY <3>1, <3>2 DEF DocsOf
  <2>3. w[1] \subseteq DocsOf(w)
    BY <1>1 DEF DocsOf
  <2> QED BY <2>1, <2>2, <2>3
<1>3. w[1] \intersect DocsOf(rest) = {}
  <2> SUFFICES ASSUME NEW i \in DOMAIN rest PROVE w[1] \intersect rest[i] = {}
    BY DEF DocsOf
  <2>1. 1 \in DOMAIN w /\ i + 1 \in DOMAIN w /\ i + 1 # 1 /\ rest[i] = w[i + 1]
    BY <1>1
  <2> QED BY <2>1 DEF Apart
<1>4. Apart(rest)
  <2> SUFFICES ASSUME NEW i \in DOMAIN rest, NEW j \in DOMAIN rest, i # j
               PROVE  rest[i] \intersect rest[j] = {}
    BY DEF Apart
  <2>1. i + 1 \in DOMAIN w /\ j + 1 \in DOMAIN w /\ i + 1 # j + 1
    BY <1>1
  <2>2. rest[i] = w[i + 1] /\ rest[j] = w[j + 1]
    BY <1>1
  <2> QED BY <2>1, <2>2 DEF Apart
<1> QED BY <1>1, <1>2, <1>3, <1>4

\* Putting a batch of other documents in front adds exactly these.
LEMMA PutBatch ==
    ASSUME NEW B \in Batches, NEW w \in Seq(Batches), Apart(w),
           B \intersect DocsOf(w) = {}
    PROVE  /\ <<B>> \o w \in Seq(Batches)
           /\ <<B>> \o w # <<>>
           /\ DocsOf(<<B>> \o w) = B \union DocsOf(w)
           /\ Apart(<<B>> \o w)
<1> DEFINE v == <<B>> \o w
<1>1. /\ v \in Seq(Batches)
      /\ DOMAIN v = 1 .. Len(w) + 1
      /\ DOMAIN w = 1 .. Len(w)
      /\ Len(w) \in Nat
      /\ v[1] = B
      /\ \A i \in 2 .. Len(w) + 1 : v[i] = w[i - 1]
  OBVIOUS
<1>2. v # <<>>
  BY <1>1
<1>3. DocsOf(v) = B \union DocsOf(w)
  <2>1. ASSUME NEW d \in DocsOf(v), d \notin B PROVE d \in DocsOf(w)
    <3>1. PICK i \in DOMAIN v : d \in v[i]
      BY <2>1 DEF DocsOf
    <3>2. i - 1 \in DOMAIN w /\ v[i] = w[i - 1]
      BY <1>1, <2>1, <3>1
    <3> QED BY <3>1, <3>2 DEF DocsOf
  <2>2. ASSUME NEW d \in DocsOf(w) PROVE d \in DocsOf(v)
    <3>1. PICK i \in DOMAIN w : d \in w[i]
      BY <2>2 DEF DocsOf
    <3>2. i + 1 \in DOMAIN v /\ v[i + 1] = w[i]
      BY <1>1, <3>1
    <3> QED BY <3>1, <3>2 DEF DocsOf
  <2>3. B \subseteq DocsOf(v)
    BY <1>1 DEF DocsOf
  <2> QED BY <2>1, <2>2, <2>3
<1>4. Apart(v)
  <2>1. ASSUME NEW i \in DOMAIN w PROVE B \intersect w[i] = {}
    BY DEF DocsOf
  <2> SUFFICES ASSUME NEW i \in DOMAIN v, NEW j \in DOMAIN v, i # j
               PROVE  v[i] \intersect v[j] = {}
    BY DEF Apart
  <2>2. CASE i = 1
    <3>1. j - 1 \in DOMAIN w /\ v[j] = w[j - 1]
      BY <1>1, <2>2
    <3> QED BY <1>1, <2>1, <2>2, <3>1
  <2>3. CASE j = 1
    <3>1. i - 1 \in DOMAIN w /\ v[i] = w[i - 1]
      BY <1>1, <2>3
    <3> QED BY <1>1, <2>1, <2>3, <3>1
  <2>4. CASE i # 1 /\ j # 1
    <3>1. i - 1 \in DOMAIN w /\ j - 1 \in DOMAIN w /\ i - 1 # j - 1
      BY <1>1, <2>4
    <3>2. v[i] = w[i - 1] /\ v[j] = w[j - 1]
      BY <1>1, <2>4
    <3> QED BY <3>1, <3>2 DEF Apart
  <2> QED BY <2>2, <2>3, <2>4
<1> QED BY <1>1, <1>2, <1>3, <1>4

LEMMA NoBatch == DocsOf(<<>>) = {} /\ Apart(<<>>)
BY DEF DocsOf, Apart

\* Two batches in front are put there one after the other.
LEMMA TwoBatches ==
    ASSUME NEW A \in Batches, NEW B \in Batches, NEW w \in Seq(Batches)
    PROVE  <<A, B>> \o w = <<A>> \o (<<B>> \o w)
<1> DEFINE both == <<A>> \o <<B>>
<1>1. <<A, B>> = both
  <2>1. /\ <<A, B>> \in Seq(Batches)
        /\ both \in Seq(Batches)
        /\ Len(<<A, B>>) = Len(both)
    OBVIOUS
  <2>2. \A i \in 1 .. Len(both) : <<A, B>>[i] = both[i]
    OBVIOUS
  <2> QED BY <2>1, <2>2, SeqEqual
<1>2. <<A>> \in Seq(Batches) /\ <<B>> \in Seq(Batches)
  OBVIOUS
<1>3. both \o w = <<A>> \o (<<B>> \o w)
  BY <1>2, ConcatAssociative
<1> QED BY <1>1, <1>3

\* Neither half of a batch of several documents is empty.
LEMMA HalvesNotEmpty ==
    ASSUME NEW B \in Batches, Cardinality(B) # 1,
           NEW first \in SUBSET B, NEW second \in SUBSET B,
           Halves(B, first, second)
    PROVE  first # {} /\ second # {}
<1>1. IsFiniteSet(B) /\ IsFiniteSet(first) /\ B # {}
  <2>1. B \subseteq Docs /\ B # {}
    BY DEF Batches
  <2>2. IsFiniteSet(Docs)
    BY BulkAssumption
  <2>3. IsFiniteSet(B)
    BY <2>1, <2>2, FS_Subset
  <2> QED BY <2>1, <2>3, FS_Subset
<1>2. Cardinality(B) \in Nat /\ Cardinality(B) # 0
  BY <1>1, FS_CardinalityType, FS_EmptySet
<1>3. /\ Cardinality(B) \div 2 # 0
      /\ Cardinality(B) \div 2 # Cardinality(B)
  BY <1>2
<1>4. first # {}
  BY <1>1, <1>3, FS_EmptySet DEF Halves
<1>5. second # {}
  BY <1>3 DEF Halves
<1> QED BY <1>4, <1>5

-----------------------------------------------------------------------------
(* The inductive invariant. *)

BulkInv ==
    /\ TypeOK
    /\ outcome = "running" <=> work # <<>>
    /\ EachDocumentOnce
    /\ written \subseteq batch
    /\ IndexedIsWritten

LEMMA InitInv == Init => BulkInv
<1> SUFFICES ASSUME Init PROVE BulkInv
  OBVIOUS
<1> USE DEF Init
<1>1. batch \in SUBSET Docs /\ 1 \in 1 .. MaxAttempts
  BY BulkAssumption
<1>2. CASE batch = {}
  <2>1. work = <<>> /\ outcome = "returned" /\ work \in Seq(Batches)
    BY <1>2
  <2>2. EachDocumentOnce
    BY <1>2, <2>1 DEF EachDocumentOnce, Unsent
  <2> QED BY <1>1, <2>1, <2>2 DEF BulkInv, TypeOK, IndexedIsWritten, Batches
<1>3. CASE batch # {}
  <2>1. batch \in Batches /\ <<>> \in Seq(Batches)
    BY <1>1, <1>3 DEF Batches
  <2>2. work = <<batch>> \o <<>>
    BY <1>3, <2>1
  <2>3. /\ work \in Seq(Batches)
        /\ work # <<>>
        /\ DocsOf(work) = batch
        /\ Apart(work)
    BY <2>1, <2>2, PutBatch, NoBatch
  <2>4. EachDocumentOnce
    BY <2>3 DEF EachDocumentOnce, Unsent, DocsOf, Apart
  <2>5. TypeOK
    BY <1>1, <1>3, <2>3 DEF TypeOK, Batches
  <2> QED BY <1>3, <2>3, <2>4, <2>5 DEF BulkInv, IndexedIsWritten
<1> QED BY <1>2, <1>3

\* What the invariant says of the batch being sent.
LEMMA SendingFacts ==
    ASSUME BulkInv, Sending
    PROVE  /\ Pending \in Batches
           /\ Pending \subseteq batch
           /\ Tail(work) \in Seq(Batches)
           /\ Apart(Tail(work))
           /\ Pending \intersect DocsOf(Tail(work)) = {}
           /\ batch = Pending \union DocsOf(Tail(work)) \union indexed \union failed
           /\ indexed \intersect failed = {}
           /\ Pending \intersect (indexed \union failed) = {}
           /\ DocsOf(Tail(work)) \intersect (indexed \union failed) = {}
<1>1. /\ work \in Seq(Batches)
      /\ work # <<>>
      /\ Apart(work)
      /\ batch = DocsOf(work) \union indexed \union failed
      /\ indexed \intersect failed = {}
      /\ DocsOf(work) \intersect (indexed \union failed) = {}
  BY DEF BulkInv, TypeOK, Sending, EachDocumentOnce, Unsent, DocsOf, Apart, Batches
<1>2. /\ Pending \in Batches
      /\ Tail(work) \in Seq(Batches)
      /\ DocsOf(work) = Pending \union DocsOf(Tail(work))
      /\ Pending \intersect DocsOf(Tail(work)) = {}
      /\ Apart(Tail(work))
  BY <1>1, TakeBatch DEF Pending
<1> QED BY <1>1, <1>2

\* A step that moves the documents of the current batch between the places
\* they can be in, losing and doubling none, keeps the invariant.
LEMMA MovesKeepInv ==
    ASSUME BulkInv, Sending,
           work' \in Seq(Batches), Apart(work'),
           attempt' \in 1 .. MaxAttempts,
           outcome' = IF work' = <<>> THEN "returned" ELSE "running",
           batch' = batch,
           written \subseteq written', written' \subseteq batch,
           indexed' \subseteq written', failed' \subseteq batch,
           batch = DocsOf(work') \union indexed' \union failed',
           indexed' \intersect failed' = {},
           DocsOf(work') \intersect (indexed' \union failed') = {}
    PROVE  BulkInv'
<1>1. TypeOK'
  <2>1. batch \in SUBSET Docs
    BY DEF BulkInv, TypeOK
  <2> QED BY <2>1 DEF TypeOK, Batches
<1>2. EachDocumentOnce'
  BY DEF EachDocumentOnce, Unsent, DocsOf, Apart
<1> QED BY <1>1, <1>2 DEF BulkInv, IndexedIsWritten

LEMMA TooLargeInv == BulkInv /\ TooLarge => BulkInv'
<1> SUFFICES ASSUME BulkInv, TooLarge PROVE BulkInv'
  OBVIOUS
<1>1. Sending /\ UNCHANGED <<batch, written, indexed>> /\ attempt' = 1
  BY DEF TooLarge, Continue
<1>2. 1 \in 1 .. MaxAttempts
  BY BulkAssumption
<1>3. written \subseteq batch /\ indexed \subseteq written /\ batch \subseteq Docs
  BY DEF BulkInv, TypeOK, IndexedIsWritten
<1>4. CASE Cardinality(Pending) = 1
  <2>1. /\ failed' = failed \union Pending
        /\ work' = Tail(work)
        /\ outcome' = IF work' = <<>> THEN "returned" ELSE "running"
    BY <1>4 DEF TooLarge, Continue
  <2>2. /\ failed' \subseteq batch
        /\ batch = DocsOf(work') \union indexed' \union failed'
        /\ indexed' \intersect failed' = {}
        /\ DocsOf(work') \intersect (indexed' \union failed') = {}
    BY <1>1, <2>1, SendingFacts
  <2> QED BY <1>1, <1>2, <1>3, <2>1, <2>2, SendingFacts, MovesKeepInv
<1>5. CASE Cardinality(Pending) # 1
  <2>1. PICK first, second \in SUBSET Pending :
            /\ Halves(Pending, first, second)
            /\ Continue(<<first, second>> \o Tail(work))
    BY <1>5 DEF TooLarge
  <2>2. failed' = failed
    BY <1>5 DEF TooLarge
  <2>3. first \in Batches /\ second \in Batches
    BY <1>1, <1>5, <2>1, SendingFacts, HalvesNotEmpty DEF Batches
  <2>4. first \union second = Pending /\ first \intersect second = {}
    BY <2>1 DEF Halves
  <2> DEFINE rest == <<second>> \o Tail(work)
  <2>5. /\ rest \in Seq(Batches)
        /\ DocsOf(rest) = second \union DocsOf(Tail(work))
        /\ Apart(rest)
    <3>1. second \intersect DocsOf(Tail(work)) = {}
      BY <1>1, <2>4, SendingFacts
    <3>2. Tail(work) \in Seq(Batches) /\ Apart(Tail(work))
      BY <1>1, SendingFacts
    <3> HIDE DEF rest
    <3>3. /\ <<second>> \o Tail(work) \in Seq(Batches)
          /\ DocsOf(<<second>> \o Tail(work)) = second \union DocsOf(Tail(work))
          /\ Apart(<<second>> \o Tail(work))
      BY <2>3, <3>1, <3>2, PutBatch
    <3> QED BY <3>3 DEF rest
  <2>6. work' = <<first>> \o rest
    BY <1>1, <2>1, <2>3, SendingFacts, TwoBatches DEF Continue
  <2>7. outcome' = IF work' = <<>> THEN "returned" ELSE "running"
    BY <2>1 DEF Continue
  <2> HIDE DEF rest
  <2>8. /\ work' \in Seq(Batches)
        /\ DocsOf(work') = first \union DocsOf(rest)
        /\ Apart(work')
    <3>1. first \intersect DocsOf(rest) = {}
      BY <1>1, <2>4, <2>5, SendingFacts
    <3> QED BY <2>3, <2>5, <2>6, <3>1, PutBatch
  <2>9. /\ failed' \subseteq batch
        /\ batch = DocsOf(work') \union indexed' \union failed'
        /\ indexed' \intersect failed' = {}
        /\ DocsOf(work') \intersect (indexed' \union failed') = {}
    BY <1>1, <2>2, <2>4, <2>5, <2>8, SendingFacts
  <2> QED BY <1>1, <1>2, <1>3, <2>7, <2>8, <2>9, MovesKeepInv
<1> QED BY <1>4, <1>5

LEMMA AnsweredInv == BulkInv /\ Answered => BulkInv'
<1> SUFFICES ASSUME BulkInv, Answered PROVE BulkInv'
  OBVIOUS
<1>1. Sending /\ batch' = batch
  BY DEF Answered
<1>2. PICK throttled, rejected \in SUBSET Pending :
          LET accepted == Pending \ (throttled \union rejected)
          IN  /\ throttled \intersect rejected = {}
              /\ written' = written \union accepted
              /\ indexed' = indexed \union accepted
              /\ SendAgainOrList(throttled, rejected)
  BY DEF Answered
<1> DEFINE accepted == Pending \ (throttled \union rejected)
<1>3. /\ written \subseteq batch /\ indexed \subseteq written
      /\ batch \subseteq Docs
      /\ attempt \in 1 .. MaxAttempts /\ 1 \in 1 .. MaxAttempts
  BY BulkAssumption DEF BulkInv, TypeOK, IndexedIsWritten
<1>4. /\ written \subseteq written' /\ written' \subseteq batch
      /\ indexed' \subseteq written'
  BY <1>1, <1>2, <1>3, SendingFacts
<1>5. CASE throttled # {} /\ attempt < MaxAttempts
  <2>1. /\ failed' = failed \union rejected
        /\ work' = <<throttled>> \o Tail(work)
        /\ attempt' = attempt + 1
        /\ outcome' = "running"
    BY <1>1, <1>2, <1>5 DEF SendAgainOrList, NextAttempt, Sending
  <2>2. throttled \in Batches
    BY <1>1, <1>5, SendingFacts DEF Batches
  <2>3. throttled \intersect DocsOf(Tail(work)) = {}
    BY <1>1, SendingFacts
  <2>4. /\ work' \in Seq(Batches)
        /\ work' # <<>>
        /\ DocsOf(work') = throttled \union DocsOf(Tail(work))
        /\ Apart(work')
    BY <1>1, <2>1, <2>2, <2>3, SendingFacts, PutBatch
  <2>5. attempt' \in 1 .. MaxAttempts
    BY <1>3, <1>5, <2>1, BulkAssumption
  <2>6. /\ failed' \subseteq batch
        /\ batch = DocsOf(work') \union indexed' \union failed'
        /\ indexed' \intersect failed' = {}
        /\ DocsOf(work') \intersect (indexed' \union failed') = {}
    BY <1>1, <1>2, <2>1, <2>4, SendingFacts
  <2> QED BY <1>1, <1>4, <2>1, <2>4, <2>5, <2>6, MovesKeepInv
<1>6. CASE ~(throttled # {} /\ attempt < MaxAttempts)
  <2>1. /\ failed' = failed \union rejected \union throttled
        /\ work' = Tail(work)
        /\ attempt' = 1
        /\ outcome' = IF work' = <<>> THEN "returned" ELSE "running"
    BY <1>2, <1>6 DEF SendAgainOrList, Continue
  <2>2. /\ failed' \subseteq batch
        /\ batch = DocsOf(work') \union indexed' \union failed'
        /\ indexed' \intersect failed' = {}
        /\ DocsOf(work') \intersect (indexed' \union failed') = {}
    BY <1>1, <1>2, <2>1, SendingFacts
  <2> QED BY <1>1, <1>3, <1>4, <2>1, <2>2, SendingFacts, MovesKeepInv
<1> QED BY <1>5, <1>6

\* A request without a proper answer writes only documents of the batch.
LEMMA MaybeWithin ==
    ASSUME BulkInv, Sending, MaybeApplied
    PROVE  written \subseteq written' /\ written' \subseteq batch
<1>1. Pending \subseteq batch /\ written \subseteq batch
  BY SendingFacts DEF BulkInv
<1> QED BY <1>1 DEF MaybeApplied

LEMMA RetryRequestInv == BulkInv /\ RetryRequest => BulkInv'
<1> SUFFICES ASSUME BulkInv, RetryRequest PROVE BulkInv'
  OBVIOUS
<1>1. /\ Sending /\ MaybeApplied
      /\ UNCHANGED <<batch, work, indexed, failed, outcome>>
      /\ attempt < MaxAttempts /\ attempt' = attempt + 1
  BY DEF RetryRequest, NextAttempt
<1>2. written \subseteq written' /\ written' \subseteq batch
  BY <1>1, MaybeWithin
<1>3. TypeOK'
  <2>1. attempt' \in 1 .. MaxAttempts
    BY <1>1, BulkAssumption DEF BulkInv, TypeOK
  <2> QED BY <1>1, <1>2, <2>1 DEF BulkInv, TypeOK
<1>4. EachDocumentOnce'
  BY <1>1 DEF BulkInv, EachDocumentOnce, Unsent
<1> QED BY <1>1, <1>2, <1>3, <1>4 DEF BulkInv, IndexedIsWritten

LEMMA RequestFailsInv == BulkInv /\ RequestFails => BulkInv'
<1> SUFFICES ASSUME BulkInv, RequestFails PROVE BulkInv'
  OBVIOUS
<1>1. /\ Sending /\ MaybeApplied
      /\ outcome' = "raised" /\ indexed' = {} /\ failed' = {} /\ work' = <<>>
      /\ UNCHANGED <<batch, attempt>>
  BY DEF RequestFails, RaiseError
<1>2. written \subseteq written' /\ written' \subseteq batch
  BY <1>1, MaybeWithin
<1>3. TypeOK'
  BY <1>1, <1>2 DEF BulkInv, TypeOK
<1>4. EachDocumentOnce'
  BY <1>1 DEF EachDocumentOnce
<1> QED BY <1>1, <1>2, <1>3, <1>4 DEF BulkInv, IndexedIsWritten

LEMMA NextInv == BulkInv /\ [Next]_vars => BulkInv'
<1> SUFFICES ASSUME BulkInv, [Next]_vars PROVE BulkInv'
  OBVIOUS
<1>1. CASE UNCHANGED vars
  BY <1>1 DEF vars, BulkInv, TypeOK, EachDocumentOnce, Unsent, IndexedIsWritten
<1> QED BY <1>1, TooLargeInv, RetryRequestInv, RequestFailsInv, AnsweredInv
        DEF Next

THEOREM BulkInvariant == Spec => []BulkInv
<1> QED BY InitInv, NextInv, PTL DEF Spec

\* Every reachable state of a call is type correct: no attempt past the limit,
\* and never an empty request.
THEOREM TypeCorrect == Spec => []TypeOK
<1>1. BulkInv => TypeOK
  BY DEF BulkInv
<1> QED BY <1>1, BulkInvariant, PTL

\* Through any halving, retrying and partial answers every document of the
\* call is in exactly one place, and at the end reported exactly once.
THEOREM NoDocumentLost == Spec => []EachDocumentOnce
<1>1. BulkInv => EachDocumentOnce
  BY DEF BulkInv
<1> QED BY <1>1, BulkInvariant, PTL

\* The number of documents reported as indexed is never larger than what the
\* cluster has accepted.
THEOREM CountIsTrue == Spec => []IndexedIsWritten
<1>1. BulkInv => IndexedIsWritten
  BY DEF BulkInv
<1> QED BY <1>1, BulkInvariant, PTL

-----------------------------------------------------------------------------
(* The contract. *)

LEMMA InitContract == Init => Contract!Init
<1> SUFFICES ASSUME Init PROVE Contract!Init
  OBVIOUS
<1>1. batch \in SUBSET Docs
  BY BulkAssumption DEF Init
<1>2. Contract!Called(batch)
  BY DEF Init, Contract!Called, Told
<1> QED BY <1>1, <1>2 DEF Contract!Init

\* Every step writes documents of the batch at most, and keeps the batch.
LEMMA StepsWriteBatch ==
    ASSUME BulkInv, Next
    PROVE  /\ Sending
           /\ batch' = batch
           /\ written \subseteq written' /\ written' \subseteq batch
<1>1. Sending /\ batch' = batch
  BY DEF Next, TooLarge, RetryRequest, RequestFails, RaiseError, Answered
<1>2. Pending \subseteq batch /\ written \subseteq batch
  BY <1>1, SendingFacts DEF BulkInv
<1>3. CASE TooLarge
  BY <1>1, <1>2, <1>3 DEF TooLarge
<1>4. CASE RetryRequest
  BY <1>1, <1>4, MaybeWithin DEF RetryRequest
<1>5. CASE RequestFails
  BY <1>1, <1>5, MaybeWithin DEF RequestFails
<1>6. CASE Answered
  BY <1>1, <1>2, <1>6 DEF Answered
<1> QED BY <1>1, <1>3, <1>4, <1>5, <1>6 DEF Next

LEMMA NextContract ==
    BulkInv /\ BulkInv' /\ [Next]_vars => [Contract!Next]_(Contract!contractVars)
<1> SUFFICES ASSUME BulkInv, BulkInv', [Next]_vars
             PROVE  [Contract!Next]_(Contract!contractVars)
  OBVIOUS
<1>1. CASE UNCHANGED vars
  BY <1>1 DEF vars, Contract!contractVars, Told
<1>2. CASE Next
  <2>1. /\ outcome = "running"
        /\ batch' = batch
        /\ written \subseteq written' /\ written' \subseteq batch
    BY <1>2, StepsWriteBatch DEF Sending
  <2>2. Contract!MoreWritten
    BY <2>1 DEF Contract!MoreWritten
  <2>3. CASE outcome' = "running"
    BY <2>1, <2>2, <2>3 DEF Contract!Next, Contract!Write, Told
  <2>4. CASE outcome' = "raised"
    BY <2>1, <2>2, <2>4 DEF Contract!Next, Contract!Raise, Told
  <2>5. CASE outcome' = "returned"
    <3>1. work' = <<>> /\ EachDocumentOnce' /\ IndexedIsWritten' /\ TypeOK'
      BY <2>5 DEF BulkInv
    <3>2. Unsent' = {}
      BY <3>1 DEF Unsent
    <3>3. /\ failed' \subseteq batch
          /\ indexed' = batch \ failed'
          /\ indexed' \subseteq written'
      BY <2>1, <2>5, <3>1, <3>2 DEF EachDocumentOnce, IndexedIsWritten
    <3>4. Told(indexed)' = indexed' /\ Told(failed)' = failed'
      BY <2>5 DEF Told
    <3>5. Contract!Return
      BY <2>1, <2>2, <2>5, <3>3, <3>4 DEF Contract!Return
    <3> QED BY <3>5 DEF Contract!Next
  <2>6. outcome' \in {"running", "returned", "raised"}
    BY DEF BulkInv, TypeOK
  <2> QED BY <2>3, <2>4, <2>5, <2>6
<1> QED BY <1>1, <1>2

\* bulk_index implements the contract run_backfill relies on: whatever the
\* cluster answers, a call that returns accounts for every document of its
\* batch, and a call that raises has told nothing.
THEOREM BulkImplementsContract == Spec => ImplementsContract
<1> QED BY InitContract, NextContract, BulkInvariant, PTL
        DEF Spec, ImplementsContract, Contract!Spec

-----------------------------------------------------------------------------
(* How many requests a call can make. *)

\* Halving n documents down to single ones makes 2n - 1 requests, each with
\* up to MaxAttempts attempts.
Pieces(w) == 2 * Cardinality(DocsOf(w)) - Len(w)

RequestsLeft == IF Sending THEN Pieces(work) * MaxAttempts - (attempt - 1) ELSE 0

LEMMA DocsFinite ==
    ASSUME NEW w \in Seq(Batches)
    PROVE  IsFiniteSet(DocsOf(w)) /\ Cardinality(DocsOf(w)) \in Nat
<1>1. DocsOf(w) \subseteq Docs
  BY DEF DocsOf, Batches
<1> QED BY <1>1, BulkAssumption, FS_Subset, FS_CardinalityType

LEMMA BatchSizes ==
    ASSUME NEW B \in Batches
    PROVE  IsFiniteSet(B) /\ Cardinality(B) \in Nat /\ Cardinality(B) >= 1
<1>1. B \subseteq Docs /\ B # {}
  BY DEF Batches
<1>2. IsFiniteSet(B)
  BY <1>1, BulkAssumption, FS_Subset
<1> QED BY <1>1, <1>2, FS_CardinalityType, FS_EmptySet

LEMMA ApartSizes ==
    ASSUME NEW A, NEW B, IsFiniteSet(A), IsFiniteSet(B), A \intersect B = {}
    PROVE  Cardinality(A \union B) = Cardinality(A) + Cardinality(B)
<1>1. Cardinality(A) \in Nat /\ Cardinality(B) \in Nat /\ Cardinality({}) = 0
  BY FS_CardinalityType, FS_EmptySet
<1>2. Cardinality(A \union B) = Cardinality(A) + Cardinality(B) - Cardinality({})
  <2>1. Cardinality(A \cup B) = Cardinality(A) + Cardinality(B) - Cardinality(A \cap B)
    BY FS_Union
  <2> QED BY <2>1
<1> QED BY <1>1, <1>2

\* The list is no longer than the documents on it.
LEMMA OneDocumentEach ==
    ASSUME NEW w \in Seq(Batches), Apart(w)
    PROVE  Len(w) <= Cardinality(DocsOf(w))
<1> DEFINE f == [i \in 1 .. Len(w) |-> CHOOSE d \in w[i] : TRUE]
<1>1. Len(w) \in Nat /\ DOMAIN w = 1 .. Len(w)
  OBVIOUS
<1>2. \A i \in 1 .. Len(w) : f[i] \in w[i]
  <2>1. \A i \in 1 .. Len(w) : w[i] # {}
    BY <1>1 DEF Batches
  <2> QED BY <2>1
<1>3. f \in [1 .. Len(w) -> DocsOf(w)]
  BY <1>1, <1>2 DEF DocsOf
<1>4. \A i, j \in 1 .. Len(w) : f[i] = f[j] => i = j
  BY <1>1, <1>2 DEF Apart
<1> HIDE DEF f
<1>5. f \in Injection(1 .. Len(w), DocsOf(w))
  BY <1>3, <1>4 DEF Injection, IsInjective
<1>6. Cardinality(1 .. Len(w)) = Len(w)
  BY <1>1, FS_Interval
<1> QED BY <1>5, <1>6, DocsFinite, FS_Injection

LEMMA PiecesType ==
    ASSUME NEW w \in Seq(Batches), Apart(w)
    PROVE  Pieces(w) \in Nat /\ (w # <<>> => Pieces(w) > 0)
<1>1. Cardinality(DocsOf(w)) \in Nat /\ Len(w) \in Nat /\ Len(w) <= Cardinality(DocsOf(w))
  BY DocsFinite, OneDocumentEach
<1>2. w # <<>> => Len(w) > 0
  OBVIOUS
<1> QED BY <1>1, <1>2 DEF Pieces

\* A batch of n documents in front of the list adds 2n - 1.
LEMMA PiecesPut ==
    ASSUME NEW B \in Batches, NEW w \in Seq(Batches), Apart(w), B \intersect DocsOf(w) = {}
    PROVE  Pieces(<<B>> \o w) = Pieces(w) + 2 * Cardinality(B) - 1
<1>1. Cardinality(B \union DocsOf(w)) = Cardinality(B) + Cardinality(DocsOf(w))
  BY BatchSizes, DocsFinite, ApartSizes
<1>2. DocsOf(<<B>> \o w) = B \union DocsOf(w)
  BY PutBatch
<1>3. Len(<<B>> \o w) = Len(w) + 1 /\ Len(w) \in Nat
  OBVIOUS
<1>4. Cardinality(B) \in Nat /\ Cardinality(DocsOf(w)) \in Nat
  BY BatchSizes, DocsFinite
<1>5. /\ Pieces(w) = 2 * Cardinality(DocsOf(w)) - Len(w)
      /\ Pieces(<<B>> \o w)
           = 2 * (Cardinality(B) + Cardinality(DocsOf(w))) - (Len(w) + 1)
  BY <1>1, <1>2, <1>3 DEF Pieces
<1>6. PICK b \in Nat, d \in Nat, n \in Nat :
         b = Cardinality(B) /\ d = Cardinality(DocsOf(w)) /\ n = Len(w)
  BY <1>3, <1>4
<1>7. Pieces(w) = 2 * d - n /\ Pieces(<<B>> \o w) = 2 * (b + d) - (n + 1)
  BY <1>5, <1>6
<1>8. 2 * (b + d) - (n + 1) = (2 * d - n) + 2 * b - 1
  OBVIOUS
<1> QED BY <1>6, <1>7, <1>8

LEMMA PiecesTake ==
    ASSUME NEW w \in Seq(Batches), w # <<>>, Apart(w)
    PROVE  Pieces(w) = Pieces(Tail(w)) + 2 * Cardinality(Head(w)) - 1
<1>1. /\ Head(w) \in Batches /\ Tail(w) \in Seq(Batches)
      /\ Head(w) \intersect DocsOf(Tail(w)) = {} /\ Apart(Tail(w))
  BY TakeBatch
<1>2. w = <<Head(w)>> \o Tail(w)
  <2>1. /\ w \in Seq(Batches) /\ <<Head(w)>> \o Tail(w) \in Seq(Batches)
        /\ Len(w) = Len(<<Head(w)>> \o Tail(w))
    BY <1>1
  <2>2. \A i \in 1 .. Len(w) : w[i] = (<<Head(w)>> \o Tail(w))[i]
    BY <1>1
  <2> QED BY <2>1, <2>2, SeqEqual
<1> QED BY <1>1, <1>2, PiecesPut

\* Fewer pieces count for more than attempts.
LEMMA Fewer ==
    ASSUME NEW a \in Nat, NEW b \in Nat, NEW M \in Nat \ {0}, NEW t \in 1 .. M, NEW u \in 1 .. M,
           b < a \/ (b = a /\ t < u)
    PROVE  b * M - (u - 1) < a * M - (t - 1)
<1>1. CASE b < a
  <2>1. PICK k \in Nat : a = b + 1 + k
    <3>1. a - b - 1 \in Nat /\ a = b + 1 + (a - b - 1)
      BY <1>1
    <3> QED BY <3>1
  <2>2. a * M = b * M + M + k * M /\ k * M \in Nat /\ b * M \in Nat
    BY <2>1
  <2> QED BY <2>2
<1>2. CASE b = a /\ t < u
  <2>1. a * M \in Nat
    OBVIOUS
  <2> QED BY <1>2, <2>1
<1> QED BY <1>1, <1>2

\* While requests are sent, at least one is left.
LEMMA SomeLeft ==
    ASSUME BulkInv
    PROVE  /\ RequestsLeft \in Nat
           /\ Sending <=> RequestsLeft > 0
<1>1. CASE Sending
  <2>1. work \in Seq(Batches) /\ work # <<>> /\ Apart(work)
    BY <1>1 DEF BulkInv, TypeOK, Sending, EachDocumentOnce, Apart, Batches
  <2>2. Pieces(work) \in Nat /\ Pieces(work) > 0
    BY <2>1, PiecesType
  <2>3. attempt \in 1 .. MaxAttempts /\ MaxAttempts \in Nat \ {0}
    BY BulkAssumption DEF BulkInv, TypeOK
  <2> DEFINE n == Pieces(work)
  <2>4. n * MaxAttempts >= MaxAttempts /\ n * MaxAttempts \in Nat
    <3> HIDE DEF n
    <3>1. n - 1 \in Nat /\ n * MaxAttempts = (n - 1) * MaxAttempts + MaxAttempts
      BY <2>2, <2>3 DEF n
    <3>2. (n - 1) * MaxAttempts \in Nat
      BY <2>3, <3>1
    <3> QED BY <2>3, <3>1, <3>2
  <2>5. RequestsLeft = n * MaxAttempts - (attempt - 1)
    BY <1>1 DEF RequestsLeft
  <2> QED BY <1>1, <2>3, <2>4, <2>5
<1>2. CASE ~Sending
  BY <1>2 DEF RequestsLeft
<1> QED BY <1>1, <1>2

\* A request is used up when the list it leaves is cut into fewer pieces, or
\* into as many with one attempt more.
LEMMA OneLess ==
    ASSUME BulkInv, BulkInv', Sending,
           \/ work' = <<>>
           \/ Pieces(work') < Pieces(work)
           \/ Pieces(work') = Pieces(work) /\ attempt' = attempt + 1
    PROVE  RequestsLeft' < RequestsLeft
<1>1. RequestsLeft > 0 /\ RequestsLeft \in Nat
  BY SomeLeft
<1>2. CASE ~Sending'
  BY <1>1, <1>2 DEF RequestsLeft
<1>3. CASE Sending'
  <2>1. /\ work \in Seq(Batches) /\ Apart(work) /\ attempt \in 1 .. MaxAttempts
        /\ MaxAttempts \in Nat \ {0}
    BY BulkAssumption DEF BulkInv, TypeOK, Sending, EachDocumentOnce, Apart, Batches
  <2>2. /\ work' \in Seq(Batches) /\ Apart(work') /\ attempt' \in 1 .. MaxAttempts
        /\ work' # <<>>
    BY <1>3 DEF BulkInv, TypeOK, Sending, EachDocumentOnce, Apart, Batches
  <2>3. Pieces(work) \in Nat /\ Pieces(work') \in Nat
    BY <2>1, <2>2, PiecesType
  <2>4. \/ Pieces(work') < Pieces(work)
        \/ Pieces(work') = Pieces(work) /\ attempt < attempt'
    BY <2>1, <2>2
  <2>5. /\ RequestsLeft = Pieces(work) * MaxAttempts - (attempt - 1)
        /\ RequestsLeft' = Pieces(work') * MaxAttempts - (attempt' - 1)
    BY <1>3 DEF RequestsLeft, Pieces, DocsOf
  <2> DEFINE a == Pieces(work)
             b == Pieces(work')
  <2>6. b * MaxAttempts - (attempt' - 1) < a * MaxAttempts - (attempt - 1)
    <3>1. /\ a \in Nat /\ b \in Nat /\ MaxAttempts \in Nat \ {0}
          /\ attempt \in 1 .. MaxAttempts /\ attempt' \in 1 .. MaxAttempts
          /\ b < a \/ (b = a /\ attempt < attempt')
      BY <2>1, <2>2, <2>3, <2>4
    <3> HIDE DEF a, b
    <3> QED BY <3>1, Fewer
  <2> QED BY <2>5, <2>6
<1> QED BY <1>2, <1>3

\* A batch of the list, or a part of it, in place of the current one.
LEMMA PartInFront ==
    ASSUME BulkInv, Sending, NEW B \in Batches, B \subseteq Pending
    PROVE  /\ Pieces(Tail(work)) < Pieces(work)
           /\ Pieces(<<B>> \o Tail(work)) <= Pieces(work)
<1>1. /\ work \in Seq(Batches) /\ work # <<>> /\ Apart(work)
      /\ Pending \in Batches /\ Tail(work) \in Seq(Batches) /\ Apart(Tail(work))
      /\ Pending \intersect DocsOf(Tail(work)) = {}
  BY SendingFacts DEF BulkInv, TypeOK, Sending, EachDocumentOnce, Apart, Batches
<1>2. Pieces(work) = Pieces(Tail(work)) + 2 * Cardinality(Pending) - 1
  BY <1>1, PiecesTake DEF Pending
<1>3. Pieces(<<B>> \o Tail(work)) = Pieces(Tail(work)) + 2 * Cardinality(B) - 1
  <2>1. B \intersect DocsOf(Tail(work)) = {}
    BY <1>1
  <2> QED BY <1>1, <2>1, PiecesPut
<1>4. /\ Pieces(Tail(work)) \in Nat
      /\ Cardinality(Pending) \in Nat /\ Cardinality(Pending) >= 1
      /\ Cardinality(B) \in Nat
  BY <1>1, PiecesType, BatchSizes
<1>5. Cardinality(B) <= Cardinality(Pending)
  BY <1>1, BatchSizes, FS_Subset
<1> QED BY <1>2, <1>3, <1>4, <1>5

LEMMA TooLargeLess ==
    ASSUME BulkInv, BulkInv', TooLarge
    PROVE  RequestsLeft' < RequestsLeft
<1>1. Sending
  BY DEF TooLarge
<1>2. /\ Pending \in Batches /\ Tail(work) \in Seq(Batches) /\ Apart(Tail(work))
      /\ Pending \intersect DocsOf(Tail(work)) = {}
      /\ work \in Seq(Batches) /\ work # <<>> /\ Apart(work)
  BY <1>1, SendingFacts DEF BulkInv, TypeOK, Sending, EachDocumentOnce, Apart, Batches
<1>3. CASE Cardinality(Pending) = 1
  <2>1. work' = Tail(work)
    BY <1>3 DEF TooLarge, Continue
  <2>2. Pieces(work') < Pieces(work)
    BY <1>1, <1>2, <2>1, PartInFront
  <2> QED BY <1>1, <2>2, OneLess
<1>4. CASE Cardinality(Pending) # 1
  <2>1. PICK first, second \in SUBSET Pending :
            /\ Halves(Pending, first, second)
            /\ Continue(<<first, second>> \o Tail(work))
    BY <1>4 DEF TooLarge
  <2>2. /\ first \in Batches /\ second \in Batches
        /\ first \union second = Pending /\ first \intersect second = {}
    BY <1>2, <1>4, <2>1, HalvesNotEmpty DEF Batches, Halves
  <2> DEFINE rest == <<second>> \o Tail(work)
  <2>3. /\ rest \in Seq(Batches) /\ Apart(rest)
        /\ DocsOf(rest) = second \union DocsOf(Tail(work))
        /\ Pieces(rest) = Pieces(Tail(work)) + 2 * Cardinality(second) - 1
    <3>1. second \intersect DocsOf(Tail(work)) = {}
      BY <1>2, <2>2
    <3> QED BY <1>2, <2>2, <3>1, PutBatch, PiecesPut
  <2>4. work' = <<first>> \o rest
    BY <1>2, <2>1, <2>2, TwoBatches DEF Continue
  <2> HIDE DEF rest
  <2>5. Pieces(work') = Pieces(rest) + 2 * Cardinality(first) - 1
    <3>1. first \intersect DocsOf(rest) = {}
      BY <1>2, <2>2, <2>3
    <3>2. Pieces(<<first>> \o rest) = Pieces(rest) + 2 * Cardinality(first) - 1
      BY <2>2, <2>3, <3>1, PiecesPut
    <3> QED BY <2>4, <3>2
  <2>6. Pieces(work) = Pieces(Tail(work)) + 2 * Cardinality(Pending) - 1
    BY <1>2, PiecesTake DEF Pending
  <2>7. Cardinality(Pending) = Cardinality(first) + Cardinality(second)
    <3>1. IsFiniteSet(first) /\ IsFiniteSet(second)
      BY <2>2, BatchSizes
    <3> QED BY <2>2, <3>1, ApartSizes
  <2>8. /\ Cardinality(first) \in Nat /\ Cardinality(second) \in Nat
        /\ Pieces(Tail(work)) \in Nat
    BY <1>2, <2>2, BatchSizes, PiecesType
  <2>9. Pieces(work') < Pieces(work)
    BY <2>3, <2>5, <2>6, <2>7, <2>8
  <2> QED BY <1>1, <2>9, OneLess
<1> QED BY <1>3, <1>4

LEMMA AnsweredLess ==
    ASSUME BulkInv, BulkInv', Answered
    PROVE  RequestsLeft' < RequestsLeft
<1>1. Sending
  BY DEF Answered
<1>2. PICK throttled, rejected \in SUBSET Pending : SendAgainOrList(throttled, rejected)
  BY DEF Answered
<1>3. Pending \in Batches
  BY <1>1, SendingFacts
<1>4. CASE throttled # {} /\ attempt < MaxAttempts
  <2>1. work' = <<throttled>> \o Tail(work) /\ attempt' = attempt + 1
    BY <1>2, <1>4 DEF SendAgainOrList, NextAttempt
  <2>2. throttled \in Batches
    BY <1>3, <1>4 DEF Batches
  <2>3. Pieces(work') <= Pieces(work)
    BY <1>1, <2>1, <2>2, PartInFront
  <2>4. Pieces(work') \in Nat /\ Pieces(work) \in Nat
    <3>1. work' \in Seq(Batches) /\ Apart(work')
      <4>1. throttled \intersect DocsOf(Tail(work)) = {}
        BY <1>1, SendingFacts
      <4> QED BY <1>1, <2>1, <2>2, <4>1, SendingFacts, PutBatch
    <3>2. work \in Seq(Batches) /\ Apart(work)
      BY <1>1 DEF BulkInv, TypeOK, Sending, EachDocumentOnce, Apart, Batches
    <3> QED BY <3>1, <3>2, PiecesType
  <2>5. Pieces(work') < Pieces(work) \/ Pieces(work') = Pieces(work)
    BY <2>3, <2>4
  <2> QED BY <1>1, <2>1, <2>5, OneLess
<1>5. CASE ~(throttled # {} /\ attempt < MaxAttempts)
  <2>1. work' = Tail(work)
    BY <1>2, <1>5 DEF SendAgainOrList, Continue
  <2>2. Pieces(work') < Pieces(work)
    BY <1>1, <1>3, <2>1, PartInFront
  <2> QED BY <1>1, <2>2, OneLess
<1> QED BY <1>4, <1>5

LEMMA StepLess ==
    ASSUME BulkInv, BulkInv', Next
    PROVE  RequestsLeft' < RequestsLeft
<1>1. CASE TooLarge
  BY <1>1, TooLargeLess
<1>2. CASE RetryRequest
  <2>1. Sending /\ work' = work /\ attempt' = attempt + 1
    BY <1>2 DEF RetryRequest, NextAttempt
  <2> QED BY <2>1, OneLess DEF Pieces, DocsOf
<1>3. CASE RequestFails
  <2>1. Sending /\ work' = <<>>
    BY <1>3 DEF RequestFails, RaiseError
  <2> QED BY <2>1, OneLess
<1>4. CASE Answered
  BY <1>4, AnsweredLess
<1> QED BY <1>1, <1>2, <1>3, <1>4 DEF Next

LEMMA InitLeft ==
    Init => RequestsLeft = IF batch = {} THEN 0
                           ELSE (2 * Cardinality(batch) - 1) * MaxAttempts
<1> SUFFICES ASSUME Init
             PROVE  RequestsLeft = IF batch = {} THEN 0
                                   ELSE (2 * Cardinality(batch) - 1) * MaxAttempts
  OBVIOUS
<1>1. CASE batch = {}
  BY <1>1 DEF Init, RequestsLeft, Sending
<1>2. CASE batch # {}
  <2>1. batch \in Batches /\ <<>> \in Seq(Batches)
    BY <1>2, BulkAssumption DEF Init, Batches
  <2>2. work = <<batch>> \o <<>> /\ Sending /\ attempt = 1
    BY <1>2, <2>1 DEF Init, Sending
  <2>3. Pieces(work) = Pieces(<<>>) + 2 * Cardinality(batch) - 1
    BY <2>1, <2>2, NoBatch, PiecesPut
  <2>4. Pieces(<<>>) = 0
    BY NoBatch, FS_EmptySet DEF Pieces
  <2>5. Cardinality(batch) \in Nat /\ MaxAttempts \in Nat
    BY <2>1, BatchSizes, BulkAssumption
  <2>6. Pieces(work) = 2 * Cardinality(batch) - 1
    BY <2>3, <2>4, <2>5
  <2>7. RequestsLeft = (2 * Cardinality(batch) - 1) * MaxAttempts - (1 - 1)
    BY <2>2, <2>6 DEF RequestsLeft
  <2>8. (2 * Cardinality(batch) - 1) * MaxAttempts \in Int
    BY <2>5
  <2> QED BY <1>2, <2>7, <2>8
<1> QED BY <1>1, <1>2

\* A call for n documents sends at most (2n - 1) * MaxAttempts requests,
\* whatever the cluster answers: that many are left when it starts, every
\* request uses one up, and the call has ended when none is left.
THEOREM RequestsAreBounded ==
    /\ Init => RequestsLeft = IF batch = {} THEN 0
                              ELSE (2 * Cardinality(batch) - 1) * MaxAttempts
    /\ Spec => [](RequestsLeft \in Nat /\ (outcome # "running" <=> RequestsLeft = 0))
    /\ Spec => [][RequestsLeft' < RequestsLeft]_vars
<1>1. BulkInv => RequestsLeft \in Nat /\ (outcome # "running" <=> RequestsLeft = 0)
  <2> SUFFICES ASSUME BulkInv
               PROVE  RequestsLeft \in Nat /\ (outcome # "running" <=> RequestsLeft = 0)
    OBVIOUS
  <2>1. RequestsLeft \in Nat /\ (Sending <=> RequestsLeft > 0)
    BY SomeLeft
  <2> QED BY <2>1 DEF Sending
<1>2. BulkInv /\ BulkInv' /\ [Next]_vars => [RequestsLeft' < RequestsLeft]_vars
  BY StepLess
<1> QED BY <1>1, <1>2, InitLeft, BulkInvariant, PTL DEF Spec
=============================================================================
