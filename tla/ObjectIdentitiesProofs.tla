----------------------- MODULE ObjectIdentitiesProofs -----------------------
(***************************************************************************)
(* Proofs about the two cursor listings: ObjectIdentities, for tables and  *)
(* pages of any size and any number of creates and retyped items beside    *)
(* the listing; and LegacyIdentities, for any prefixes, shown or not: what *)
(* holds until a client is sent back, and that only a gap does that.       *)
(***************************************************************************)
EXTENDS ObjectIdentities, FiniteSetTheorems, WellFoundedInduction, TLAPS

\* Between two pages the client has what is listed up to its cursor, and
\* nothing beyond; while a page is collected, it and the page together have
\* what is listed up to where the next scan starts.
Progress ==
    /\ pc = "client" => /\ given \subseteq 1 .. cursor
                        /\ stable \intersect (1 .. cursor) \subseteq given
    /\ pc = "server" => /\ cursor <= startKey
                        /\ given \subseteq 1 .. cursor
                        /\ results \subseteq cursor + 1 .. startKey
                        /\ stable \intersect (1 .. startKey)
                               \subseteq given \union results
    /\ NoneMissed

ListingInv ==
    /\ TypeOK
    /\ stable \subseteq Listed
    /\ Progress
    /\ NoDuplicates

LEMMA IdsFinite == ASSUME NEW S \in SUBSET Ids PROVE IsFiniteSet(S)
<1>1. IsFiniteSet(Ids)
  BY IdentitiesAssumption, FS_Interval DEF Ids
<1> QED BY <1>1, FS_Subset

\* Ids the client does not have yet are counted one by one.
LEMMA NewIdsCounted ==
    ASSUME NEW A \in SUBSET Ids, NEW B \in SUBSET Ids, A \intersect B = {}
    PROVE  /\ Cardinality(A \union B) = Cardinality(A) + Cardinality(B)
           /\ Cardinality(B) \in Nat
<1>1. IsFiniteSet(A) /\ IsFiniteSet(B) /\ IsFiniteSet(A \intersect B)
  BY IdsFinite
<1>2. Cardinality(A \intersect B) = 0
  BY FS_EmptySet
<1>3. /\ Cardinality(A) \in Nat /\ Cardinality(B) \in Nat
  BY <1>1, FS_CardinalityType
<1>4. Cardinality(A \union B)
          = Cardinality(A) + Cardinality(B) - Cardinality(A \intersect B)
  BY <1>1, FS_Union
<1> QED BY <1>2, <1>3, <1>4

LEMMA InitInv == Init => ListingInv
<1> SUFFICES ASSUME Init PROVE ListingInv
  OBVIOUS
<1>1. Cardinality({}) = 0
  BY FS_EmptySet
<1>2. TypeOK
  BY <1>1, IdentitiesAssumption DEF Init, TypeOK, Listed
<1>3. Progress
  BY IdentitiesAssumption DEF Init, Progress, NoneMissed
<1> QED BY <1>1, <1>2, <1>3 DEF Init, ListingInv, NoDuplicates

LEMMA ChangeInv ==
    ASSUME ListingInv, NEW p \in Ids, Change(p) PROVE ListingInv'
<1>1. /\ UNCHANGED <<pc, startKey, results, cursor, given, edges>>
      /\ stable' = stable \intersect Listed'
  BY DEF Change, serverVars, clientVars
<1>2. TypeOK'
  <2>1. changes' \in 0 .. MaxChanges
    BY IdentitiesAssumption DEF ListingInv, TypeOK, Change
  <2>2. type' \in [Ids -> {"listed", "other", "none"}]
    BY DEF ListingInv, TypeOK, Change
  <2> QED BY <1>1, <2>1, <2>2 DEF ListingInv, TypeOK
<1>3. Progress'
  BY <1>1 DEF ListingInv, Progress, NoneMissed
<1> QED BY <1>1, <1>2, <1>3 DEF ListingInv, NoDuplicates

LEMMA AskInv == ASSUME ListingInv, Ask PROVE ListingInv'
<1>1. Cardinality({}) = 0
  BY FS_EmptySet
<1>2. TypeOK'
  BY <1>1, IdentitiesAssumption
  DEF ListingInv, TypeOK, Ask, clientVars
<1>3. Progress'
  BY DEF ListingInv, TypeOK, Progress, NoneMissed, Ask, clientVars
<1>4. (stable \subseteq Listed)'
  BY DEF ListingInv, Listed, Ask
<1> QED BY <1>2, <1>3, <1>4 DEF ListingInv, NoDuplicates, Ask, clientVars

\* The ids a scan adds lie beyond the cursor, and beyond what was collected.
LEMMA PageBeyond ==
    ASSUME ListingInv, pc = "server", NEW end \in startKey .. Last
    PROVE  /\ Page(end) \subseteq startKey + 1 .. end
           /\ Page(end) \subseteq Ids
           /\ results \union Page(end) \subseteq cursor + 1 .. end
           /\ given \intersect (results \union Page(end)) = {}
           /\ stable \intersect (1 .. end) \subseteq given \union results \union Page(end)
<1>1. /\ Page(end) \subseteq startKey + 1 .. end
      /\ Page(end) \subseteq Ids
      /\ startKey \in 0 .. Last /\ cursor \in 0 .. Last /\ cursor <= startKey
      /\ results \subseteq cursor + 1 .. startKey
      /\ given \subseteq 1 .. cursor
  BY IdentitiesAssumption DEF ListingInv, TypeOK, Progress, Page, Ids
<1>2. results \union Page(end) \subseteq cursor + 1 .. end
  <2>1. cursor + 1 .. startKey \subseteq cursor + 1 .. end
    BY <1>1, IdentitiesAssumption
  <2>2. startKey + 1 .. end \subseteq cursor + 1 .. end
    BY <1>1, IdentitiesAssumption
  <2> QED BY <1>1, <2>1, <2>2
<1>3. given \intersect (results \union Page(end)) = {}
  BY <1>1, <1>2
<1>4. ASSUME NEW p \in stable, p \in 1 .. end
      PROVE  p \in given \union results \union Page(end)
  <2>1. CASE p <= startKey
    <3>1. p \in 1 .. startKey
      BY <1>1, <1>4, <2>1
    <3> QED BY <3>1 DEF ListingInv, Progress
  <2>2. CASE p > startKey
    <3>1. p \in startKey + 1 .. end
      BY <1>1, <1>4, <2>2
    <3> QED BY <3>1 DEF ListingInv, Listed, Page
  <2> QED BY <1>1, <1>4, <2>1, <2>2
<1> QED BY <1>1, <1>2, <1>3, <1>4

\* What an answer does to what the client has.
LEMMA AnswerCounts ==
    ASSUME ListingInv, pc = "server", NEW end \in startKey .. Last,
           NEW ids \in SUBSET (results \union Page(end)),
           given' = given \union ids, edges' = edges + Cardinality(ids)
    PROVE  /\ given \intersect ids = {}
           /\ ids \in SUBSET Ids
           /\ edges' \in Nat
           /\ NoDuplicates'
<1>1. /\ given \intersect ids = {} /\ ids \in SUBSET Ids /\ given \in SUBSET Ids
  BY PageBeyond DEF ListingInv, TypeOK
<1>2. /\ Cardinality(given \union ids) = Cardinality(given) + Cardinality(ids)
      /\ Cardinality(ids) \in Nat
  BY <1>1, NewIdsCounted
<1>3. edges = Cardinality(given) /\ edges \in Nat
  BY DEF ListingInv, NoDuplicates, TypeOK
<1>4. edges' = Cardinality(given') /\ edges' \in Nat
  BY <1>2, <1>3
<1> QED BY <1>1, <1>2, <1>4 DEF NoDuplicates

LEMMA FillInv ==
    ASSUME ListingInv, pc = "server", NEW end \in startKey .. Last, Fill(end),
           UNCHANGED <<type, changes, stable>>
    PROVE  ListingInv'
<1>1. PICK ids \in SUBSET Page(end) :
          /\ \A p \in ids, q \in Page(end) \ ids : p < q
          /\ Cardinality(results \union ids) = First
          /\ Answer(results \union ids, TRUE)
  BY DEF Fill
<1> DEFINE page == results \union ids
<1>2. page # {}
  BY <1>1, FS_EmptySet, IdentitiesAssumption
<1>3. PICK last \in page : (\A p \in page : p <= last) /\ cursor' = last
  BY <1>1, <1>2 DEF Answer
<1>4. pc' = "client" /\ results' = {} /\ startKey' = 0
  BY <1>1 DEF Answer
<1>5. page \in SUBSET (results \union Page(end))
  OBVIOUS
<1>6. /\ given' = given \union page /\ page \in SUBSET Ids
      /\ edges' \in Nat /\ NoDuplicates'
  <2>1. given' = given \union page /\ edges' = edges + Cardinality(page)
    BY <1>1 DEF Answer
  <2> HIDE DEF page
  <2> QED BY <1>5, <2>1, AnswerCounts
<1>7. /\ startKey \in 0 .. Last /\ cursor \in 0 .. Last /\ end \in 0 .. Last
      /\ Last \in Nat
      /\ given \subseteq 1 .. cursor /\ cursor <= startKey
      /\ page \subseteq cursor + 1 .. end
  BY PageBeyond, IdentitiesAssumption DEF ListingInv, TypeOK, Progress
<1>8. cursor' \in 1 .. end /\ cursor' > cursor
  BY <1>3, <1>7
<1>9. given' \subseteq 1 .. cursor'
  <2>1. 1 .. cursor \subseteq 1 .. cursor'
    BY <1>7, <1>8
  <2>2. \A p \in page : p \in 1 .. cursor'
    BY <1>3, <1>7, <1>8
  <2> QED BY <1>6, <1>7, <2>1, <2>2
<1>10. ASSUME NEW p \in stable, p \in 1 .. cursor' PROVE p \in given'
  <2>1. p \in 1 .. end
    BY <1>7, <1>8, <1>10
  <2>2. p \in given \union results \union Page(end)
    BY <1>10, <2>1, PageBeyond
  <2>3. CASE p \in Page(end) \ ids
    <3>1. \A q \in ids : q < p
      BY <1>1, <2>3
    <3>2. \A q \in results : q < p
      BY <1>7, <2>3, PageBeyond DEF ListingInv, TypeOK, Progress
    <3>3. last < p
      BY <1>3, <3>1, <3>2
    <3> QED BY <1>3, <1>7, <1>8, <1>10, <3>3
  <2> QED BY <1>6, <2>2, <2>3
<1>11. Progress'
  BY <1>4, <1>9, <1>10 DEF Progress, NoneMissed
<1>12. TypeOK'
  <2>1. Cardinality(results') < First
    BY <1>4, FS_EmptySet, IdentitiesAssumption
  <2>2. cursor' \in 0 .. Last /\ startKey' \in 0 .. Last
    BY <1>4, <1>7, <1>8
  <2> QED BY <1>4, <1>6, <2>1, <2>2 DEF ListingInv, TypeOK
<1> QED BY <1>6, <1>11, <1>12 DEF ListingInv, Listed

LEMMA ScanOnInv ==
    ASSUME ListingInv, pc = "server", NEW end \in startKey .. Last, ScanOn(end),
           UNCHANGED <<type, changes, stable>>
    PROVE  ListingInv'
<1>1. /\ Cardinality(results \union Page(end)) < First
      /\ results' = results \union Page(end)
      /\ startKey' = end
      /\ UNCHANGED <<pc, cursor, given, edges>>
  BY DEF ScanOn, clientVars
<1>2. startKey \in 0 .. Last /\ Last \in Nat /\ end \in 0 .. Last
  BY IdentitiesAssumption DEF ListingInv, TypeOK
<1>3. TypeOK'
  BY <1>1, <1>2, PageBeyond DEF ListingInv, TypeOK
<1>4. Progress'
  <2>1. cursor <= startKey /\ cursor \in 0 .. Last /\ given \subseteq 1 .. cursor
    BY DEF ListingInv, TypeOK, Progress
  <2>2. cursor' <= startKey'
    BY <1>1, <1>2, <2>1
  <2>3. results' \subseteq cursor' + 1 .. startKey'
    BY <1>1, PageBeyond
  <2>4. stable' \intersect (1 .. startKey') \subseteq given' \union results'
    BY <1>1, PageBeyond
  <2> QED BY <1>1, <2>1, <2>2, <2>3, <2>4 DEF Progress, NoneMissed
<1> QED BY <1>1, <1>3, <1>4 DEF ListingInv, Listed, NoDuplicates

LEMMA EndOfTableInv ==
    ASSUME ListingInv, pc = "server", NEW end \in startKey .. Last,
           EndOfTable(end), UNCHANGED <<type, changes, stable>>
    PROVE  ListingInv'
<1> DEFINE page == results \union Page(end)
<1>1. end = Last /\ Answer(page, FALSE)
  BY DEF EndOfTable
<1>2. /\ pc' = "done" /\ results' = {} /\ startKey' = 0
      /\ cursor' = 0 \/ cursor' \in page
  BY <1>1 DEF Answer
<1>3. /\ given' = given \union page /\ page \in SUBSET Ids
      /\ edges' \in Nat /\ NoDuplicates'
  <2>1. given' = given \union page /\ edges' = edges + Cardinality(page)
    BY <1>1 DEF Answer
  <2>2. page \in SUBSET (results \union Page(end))
    OBVIOUS
  <2> HIDE DEF page
  <2> QED BY <2>1, <2>2, AnswerCounts
<1>4. stable \subseteq given'
  <2>1. stable \subseteq 1 .. end
    BY <1>1 DEF ListingInv, TypeOK, Ids
  <2> QED BY <1>3, <2>1, PageBeyond
<1>5. Progress'
  BY <1>2, <1>4 DEF Progress, NoneMissed
<1>6. TypeOK'
  <2>1. Cardinality(results') < First
    BY <1>2, FS_EmptySet, IdentitiesAssumption
  <2>2. cursor' \in 0 .. Last /\ startKey' \in 0 .. Last
    BY <1>2, <1>3, IdentitiesAssumption DEF Ids
  <2> QED BY <1>2, <1>3, <2>1, <2>2 DEF ListingInv, TypeOK
<1> QED BY <1>3, <1>5, <1>6 DEF ListingInv, Listed

LEMMA NextInv == ListingInv /\ [Next]_vars => ListingInv'
<1> SUFFICES ASSUME ListingInv, [Next]_vars PROVE ListingInv'
  OBVIOUS
<1>1. CASE Scan
  <2>1. PICK end \in startKey .. Last : Fill(end) \/ ScanOn(end) \/ EndOfTable(end)
    BY <1>1 DEF Scan
  <2>2. pc = "server" /\ UNCHANGED <<type, changes, stable>>
    BY <1>1 DEF Scan
  <2> QED BY <2>1, <2>2, FillInv, ScanOnInv, EndOfTableInv
<1>2. CASE UNCHANGED vars
  BY <1>2 DEF vars, serverVars, clientVars, ListingInv, TypeOK, Listed,
              Progress, NoneMissed, NoDuplicates
<1> QED BY <1>1, <1>2, AskInv, ChangeInv DEF Next

THEOREM ListingInvariant == Spec => []ListingInv
<1> QED BY InitInv, NextInv, PTL DEF Spec

\* Every reachable state is type correct; the page being collected is never
\* full.
THEOREM TypeCorrect == Spec => []TypeOK
<1>1. ListingInv => TypeOK
  BY DEF ListingInv
<1> QED BY <1>1, ListingInvariant, PTL

\* For any table, page size and concurrent mutations: no page repeats an id.
THEOREM PagesRepeatNothing == Spec => []NoDuplicates
<1>1. ListingInv => NoDuplicates
  BY DEF ListingInv
<1> QED BY <1>1, ListingInvariant, PTL

\* For any table, page size and concurrent mutations: a client told that there
\* is no more has every id that was listed all the time.
THEOREM ListingComplete == Spec => []NoneMissed
<1>1. ListingInv => NoneMissed
  BY DEF ListingInv, Progress
<1> QED BY <1>1, ListingInvariant, PTL

-----------------------------------------------------------------------------
LEMMA InitListing == Init => Listing!Init
BY DEF Init, Listing!Init, Listed

LEMMA AnswerIsPage ==
    ASSUME ListingInv, ListingInv', pc = "server",
           NEW end \in startKey .. Last,
           NEW ids \in SUBSET (results \union Page(end)),
           NEW hasMore \in BOOLEAN, Answer(ids, hasMore), stable' = stable
    PROVE  Listing!Page
<1>1. \E i \in SUBSET (Ids \ given) :
          given' = given \union i /\ edges' = edges + Cardinality(i)
  <2>1. given' = given \union ids /\ edges' = edges + Cardinality(ids)
    BY DEF Answer
  <2>2. ids \in SUBSET (Ids \ given)
    BY <2>1, AnswerCounts
  <2> QED BY <2>1, <2>2, Zenon
<1>2. (pc = "done")' \in BOOLEAN /\ ~(pc = "done")
  OBVIOUS
<1>3. (pc = "done")' => stable \subseteq given'
  BY DEF ListingInv, Progress, NoneMissed
<1>4. UNCHANGED stable
  OBVIOUS
<1>5. \A S : Listing!Cardinality(S) = Cardinality(S)
  BY Zenon DEF Listing!Cardinality, Cardinality
<1> QED BY <1>1, <1>2, <1>3, <1>4, <1>5, Zenon DEF Listing!Page

LEMMA NextListing ==
    ListingInv /\ ListingInv' /\ [Next]_vars
        => [Listing!Next]_(Listing!listingVars)
<1> SUFFICES ASSUME ListingInv, ListingInv', [Next]_vars
             PROVE  [Listing!Next]_(Listing!listingVars)
  OBVIOUS
<1>1. CASE Ask
  BY <1>1 DEF Ask, clientVars, Listing!listingVars
<1>2. CASE Scan
  <2>1. PICK end \in startKey .. Last : Fill(end) \/ ScanOn(end) \/ EndOfTable(end)
    BY <1>2 DEF Scan
  <2>2. pc = "server" /\ stable' = stable
    BY <1>2 DEF Scan
  <2>3. CASE Fill(end)
    <3>1. PICK ids \in SUBSET Page(end) : Answer(results \union ids, TRUE)
      BY <2>3 DEF Fill
    <3>2. results \union ids \in SUBSET (results \union Page(end))
      OBVIOUS
    <3> QED BY <2>2, <3>1, <3>2, AnswerIsPage DEF Listing!Next
  <2>4. CASE ScanOn(end)
    BY <2>2, <2>4 DEF ScanOn, clientVars, Listing!listingVars
  <2>5. CASE EndOfTable(end)
    <3>1. Answer(results \union Page(end), FALSE)
      BY <2>5 DEF EndOfTable
    <3> QED BY <2>2, <3>1, AnswerIsPage DEF Listing!Next
  <2> QED BY <2>1, <2>3, <2>4, <2>5
<1>3. CASE \E p \in Ids : Change(p)
  <2>1. /\ stable' \subseteq stable
        /\ UNCHANGED <<given, edges, pc>>
    BY <1>3 DEF Change, clientVars
  <2> QED BY <2>1 DEF Listing!Next, Listing!Leave
<1>4. CASE UNCHANGED vars
  BY <1>4 DEF vars, clientVars, Listing!listingVars
<1> QED BY <1>1, <1>2, <1>3, <1>4 DEF Next

\* object_identities implements the listing contract.
THEOREM IdentitiesImplementListing == Spec => ImplementsListing
<1> QED BY InitListing, NextListing, ListingInvariant, PTL
        DEF Spec, ImplementsListing, Listing!Spec

-----------------------------------------------------------------------------
(* How many scans a listing can take. *)

\* A page moves the cursor on, and its scans move from the cursor to the end
\* of the table at most.
StepsLeft ==
    CASE pc = "client" -> (Last - cursor) * (Last + 2) + Last + 2
      [] pc = "server" -> (Last - cursor) * (Last + 2) + (Last - startKey) + 1
      [] OTHER         -> 0

LEMMA OnePageLess ==
    ASSUME NEW L \in Nat, NEW a \in Nat, NEW b \in Nat, b < a
    PROVE  b * (L + 2) + L + 2 <= a * (L + 2)
<1>1. a - b - 1 \in Nat /\ a = b + 1 + (a - b - 1)
  OBVIOUS
<1> DEFINE k == a - b - 1
<1>2. k \in Nat /\ a = b + 1 + k
  BY <1>1
<1> HIDE DEF k
<1>3. /\ a * (L + 2) = b * (L + 2) + (L + 2) + k * (L + 2)
      /\ k * (L + 2) \in Nat /\ b * (L + 2) \in Nat
  BY <1>2
<1> QED BY <1>3

LEMMA StepsLeftType ==
    ASSUME ListingInv
    PROVE  StepsLeft \in Nat /\ (StepsLeft = 0 <=> pc = "done")
<1>1. /\ Last \in Nat /\ Last - cursor \in Nat /\ Last - startKey \in Nat
      /\ pc \in {"client", "server", "done"}
  BY IdentitiesAssumption DEF ListingInv, TypeOK
<1>2. (Last - cursor) * (Last + 2) \in Nat
  BY <1>1
<1> QED BY <1>1, <1>2 DEF StepsLeft

\* A position further on has less before it to the end.
LEMMA LessToGo ==
    ASSUME NEW L \in Nat, NEW c \in 0 .. L, NEW d \in c + 1 .. L
    PROVE  L - d \in Nat /\ L - c \in Nat /\ L - d < L - c
OBVIOUS

\* A full page moves the cursor on.
LEMMA FillAdvances ==
    ASSUME ListingInv, pc = "server", NEW end \in startKey .. Last, Fill(end)
    PROVE  pc' = "client" /\ cursor' \in cursor + 1 .. Last
<1>1. PICK ids \in SUBSET Page(end) :
          /\ Cardinality(results \union ids) = First
          /\ Answer(results \union ids, TRUE)
  BY DEF Fill
<1>2. results \union ids # {}
  BY <1>1, FS_EmptySet, IdentitiesAssumption
<1>3. pc' = "client" /\ cursor' \in results \union ids
  BY <1>1, <1>2 DEF Answer
<1>4. cursor' \in cursor + 1 .. end
  BY <1>3, PageBeyond
<1> QED BY <1>3, <1>4, IdentitiesAssumption DEF ListingInv, TypeOK

LEMMA StepsLeftStep ==
    ASSUME ListingInv, ListingInv', Next
    PROVE  /\ StepsLeft' <= StepsLeft
           /\ Ask \/ Scan => StepsLeft' < StepsLeft
<1>1. /\ Last \in Nat /\ cursor \in 0 .. Last /\ startKey \in 0 .. Last
      /\ Last - cursor \in Nat
  BY IdentitiesAssumption DEF ListingInv, TypeOK
<1> DEFINE pagesAfter == (Last - cursor) * (Last + 2)
<1>2. pagesAfter \in Nat
  BY <1>1
<1>3. CASE Ask
  <2>1. StepsLeft = pagesAfter + Last + 2
    BY <1>3 DEF Ask, StepsLeft
  <2>2. StepsLeft' = pagesAfter + (Last - cursor) + 1
    BY <1>3 DEF Ask, clientVars, StepsLeft
  <2> HIDE DEF pagesAfter
  <2> QED BY <1>1, <1>2, <2>1, <2>2
<1>4. CASE Scan
  <2>1. PICK end \in startKey .. Last : Fill(end) \/ ScanOn(end) \/ EndOfTable(end)
    BY <1>4 DEF Scan
  <2>2. pc = "server"
    BY <1>4 DEF Scan
  <2>3. StepsLeft = pagesAfter + (Last - startKey) + 1
    BY <2>2 DEF StepsLeft
  <2>4. CASE Fill(end)
    <3>1. pc' = "client" /\ cursor' \in cursor + 1 .. Last
      BY <2>2, <2>4, FillAdvances
    <3>2. StepsLeft' = (Last - cursor') * (Last + 2) + Last + 2
      BY <3>1 DEF StepsLeft
    <3>3. Last - cursor' \in Nat /\ Last - cursor' < Last - cursor
      <4>1. Last \in Nat /\ cursor \in 0 .. Last
        BY <1>1
      <4>2. cursor' \in cursor + 1 .. Last
        BY <3>1
      <4> QED BY <4>1, <4>2, LessToGo
    <3>4. StepsLeft' <= pagesAfter
      BY <1>1, <3>2, <3>3, OnePageLess
    <3>5. StepsLeft' \in Nat
      <4>1. (Last - cursor') * (Last + 2) \in Nat
        BY <1>1, <3>3
      <4> QED BY <1>1, <3>2, <4>1
    <3> HIDE DEF pagesAfter
    <3> QED BY <1>1, <1>2, <2>3, <3>4, <3>5
  <2>5. CASE ScanOn(end)
    <3>1. /\ pc' = pc /\ cursor' = cursor /\ startKey' = end /\ startKey < end
      BY <2>5 DEF ScanOn, clientVars
    <3>2. StepsLeft' = pagesAfter + (Last - end) + 1
      BY <2>2, <3>1 DEF StepsLeft
    <3> HIDE DEF pagesAfter
    <3> QED BY <1>1, <1>2, <2>1, <2>3, <3>1, <3>2
  <2>6. CASE EndOfTable(end)
    <3>1. pc' = "done"
      BY <2>6 DEF EndOfTable, Answer
    <3>2. StepsLeft' = 0
      BY <3>1 DEF StepsLeft
    <3> HIDE DEF pagesAfter
    <3> QED BY <1>1, <1>2, <2>3, <3>2
  <2> QED BY <2>1, <2>4, <2>5, <2>6
<1>5. CASE \E p \in Ids : Change(p)
  <2>1. UNCHANGED <<pc, cursor, startKey>>
    BY <1>5 DEF Change, serverVars, clientVars
  <2>2. StepsLeft' = StepsLeft /\ StepsLeft \in Nat
    BY <2>1, StepsLeftType DEF StepsLeft
  <2>3. ~(Ask \/ Scan)
    <3>1. changes' = changes + 1 /\ changes \in Nat
      BY <1>5 DEF Change, ListingInv, TypeOK
    <3>2. Ask \/ Scan => changes' = changes
      BY DEF Ask, Scan
    <3> QED BY <3>1, <3>2
  <2> QED BY <2>2, <2>3
<1> QED BY <1>3, <1>4, <1>5 DEF Next

\* The requests and scans of one listing are bounded by the size of the table,
\* however many creates and retyped items come between them: each uses up a
\* step, no mutation adds one, and the client is done when none is left.
THEOREM ListingIsBounded ==
    /\ Init => StepsLeft = (Last + 1) * (Last + 2)
    /\ Spec => [](StepsLeft \in Nat /\ (StepsLeft = 0 <=> pc = "done"))
    /\ Spec => [][/\ StepsLeft' <= StepsLeft
                  /\ Ask \/ Scan => StepsLeft' < StepsLeft]_vars
<1>1. Init => StepsLeft = (Last + 1) * (Last + 2)
  BY IdentitiesAssumption DEF Init, StepsLeft
<1>2. ListingInv => StepsLeft \in Nat /\ (StepsLeft = 0 <=> pc = "done")
  BY StepsLeftType
<1>3. ListingInv /\ ListingInv' /\ [Next]_vars
         => [/\ StepsLeft' <= StepsLeft
             /\ Ask \/ Scan => StepsLeft' < StepsLeft]_vars
  BY StepsLeftStep
<1> QED BY <1>1, <1>2, <1>3, ListingInvariant, PTL DEF Spec

-----------------------------------------------------------------------------
(* legacy_object_identities. *)

CONSTANTS MaxKeys, MaxPages
VARIABLES shown, pages, failed, sentBack, done

Legacy == INSTANCE LegacyIdentities

\* A gap that fills the page after this key.
GapAt(key) ==
    /\ key + Legacy!PageSize < Last
    /\ \A p \in key + 1 .. key + Legacy!PageSize : p \notin shown

\* Without a failure the client has what is shown up to its cursor, and until
\* it is sent back no more than that; it never gets past a gap.
LegacyInv ==
    /\ shown \in SUBSET Ids
    /\ given \in SUBSET shown
    /\ edges \in Nat
    /\ cursor \in 0 .. Last
    /\ cursor \in shown \union {0}
    /\ ~failed =>
          /\ shown \intersect (1 .. cursor) \subseteq given
          /\ done => shown \subseteq given
          /\ Legacy!NoDuplicates
          /\ ~sentBack /\ ~done => given \subseteq 1 .. cursor
          /\ \A key \in shown \union {0} : GapAt(key) => ~done /\ cursor <= key
          /\ sentBack => \E key \in shown \union {0} : GapAt(key)

Below == {pair \in Nat \X Nat : pair[1] < pair[2]}

LEMMA LastExists ==
    ASSUME NEW items \in SUBSET Ids, items # {}
    PROVE  \E x \in items : \A y \in items : y <= x
<1> DEFINE rest == {Last - x : x \in items}
<1>1. \A x \in items : Last - x \in Nat
  BY IdentitiesAssumption DEF Ids
<1>2. rest \subseteq Nat /\ rest # {}
  BY <1>1
<1>3. IsWellFoundedOn(Below, Nat)
  <2>1. OpToRel(<, Nat) = Below
    BY Zenon DEF OpToRel, Below
  <2> QED BY <2>1, NatLessThanWellFounded
<1>4. PICK t \in rest : \A u \in rest : <<u, t>> \notin Below
  <2> HIDE DEF rest
  <2> QED BY <1>2, <1>3, WFMin, Zenon
<1>5. PICK x \in items : t = Last - x
  OBVIOUS
<1>6. ASSUME NEW y \in items PROVE y <= x
  <2>1. <<Last - y, t>> \notin Below /\ Last - y \in Nat /\ t \in Nat
    BY <1>1, <1>4, <1>5
  <2>2. ~(Last - y < t)
    BY <2>1 DEF Below
  <2> QED BY <1>5, <2>2, IdentitiesAssumption DEF Ids
<1> QED BY <1>6

\* The last id kept is the cursor of the next request.
LEMMA LastIdIsLast ==
    ASSUME NEW items \in SUBSET Ids
    PROVE  /\ Legacy!LastId(items) \in 0 .. Last
           /\ items # {} => /\ Legacy!LastId(items) \in items
                            /\ \A y \in items : y <= Legacy!LastId(items)
<1>1. CASE items = {}
  BY <1>1, IdentitiesAssumption DEF Legacy!LastId
<1>2. CASE items # {}
  <2>1. \E x \in items : \A y \in items : y <= x
    BY <1>2, LastExists
  <2>2. /\ Legacy!LastId(items) \in items
        /\ \A y \in items : y <= Legacy!LastId(items)
    BY <1>2, <2>1 DEF Legacy!LastId
  <2>3. Ids \subseteq 0 .. Last
    BY IdentitiesAssumption DEF Ids
  <2> QED BY <1>2, <2>2, <2>3
<1> QED BY <1>1, <1>2

LEMMA PageSizeType ==
    ASSUME MaxKeys \in Nat \ {0}
    PROVE  Legacy!PageSize \in Nat \ {0}
BY IdentitiesAssumption DEF Legacy!PageSize

\* What a page does, in terms of what it lists and what could not be read.
LEMMA LegacyPageDoes ==
    ASSUME LegacyInv, Legacy!Page, MaxKeys \in Nat \ {0}
    PROVE  /\ ~done /\ UNCHANGED shown /\ done' \in BOOLEAN
           /\ done' <=> ~(cursor + Legacy!PageSize < Last)
           /\ \E listed \in SUBSET shown : \E unreadable \in SUBSET listed :
                 /\ listed = {p \in shown : cursor < p /\ p <= cursor + Legacy!PageSize}
                 /\ unreadable # {} => ~failed
                 /\ failed' = (failed \/ unreadable # {})
                 /\ given' = given \union (listed \ unreadable)
                 /\ edges' = edges + Cardinality(listed \ unreadable)
                 /\ cursor' = Legacy!LastId(listed \ unreadable)
                 /\ sentBack' = (sentBack \/ (listed \ unreadable = {} /\ ~done'))
<1> DEFINE listed == Legacy!ListedAfter(cursor) \intersect shown
<1>1. \A S : Legacy!Cardinality(S) = Cardinality(S)
  BY Zenon DEF Legacy!Cardinality, Cardinality
<1>2. Legacy!HasMore(cursor) \in BOOLEAN /\ done' = ~Legacy!HasMore(cursor)
  BY DEF Legacy!Page, Legacy!HasMore, Legacy!IsTruncated
<1>3. PICK unreadable \in SUBSET listed :
        /\ unreadable # {} => ~failed
        /\ failed' = (failed \/ unreadable # {})
        /\ given' = given \union (listed \ unreadable)
        /\ edges' = edges + Cardinality(listed \ unreadable)
        /\ cursor' = Legacy!LastId(listed \ unreadable)
        /\ sentBack' = (sentBack \/ (listed \ unreadable = {} /\ ~done'))
  <2>1. Legacy!HasMore(cursor) = ~done'
    BY <1>2
  <2> QED BY <1>1, <2>1 DEF Legacy!Page
<1>4. listed = {p \in shown : cursor < p /\ p <= cursor + Legacy!PageSize}
  BY DEF LegacyInv, Legacy!ListedAfter, Legacy!Ids, Ids
<1>5. ~done /\ UNCHANGED shown /\ listed \in SUBSET shown
  BY DEF Legacy!Page
<1>6. done' <=> ~(cursor + Legacy!PageSize < Last)
  BY <1>2 DEF Legacy!HasMore, Legacy!IsTruncated
<1> HIDE DEF listed
<1> QED BY <1>2, <1>3, <1>4, <1>5, <1>6, Zenon

LEMMA LegacyPage ==
    ASSUME LegacyInv, Legacy!Page, MaxKeys \in Nat \ {0}
    PROVE  LegacyInv'
<1>0. PICK k \in Nat \ {0} : k = Legacy!PageSize
  BY PageSizeType
<1>1. /\ Last \in Nat /\ cursor \in 0 .. Last /\ Ids = 1 .. Last
      /\ shown \in SUBSET Ids /\ given \in SUBSET shown /\ edges \in Nat
      /\ ~done /\ shown' = shown /\ done' \in BOOLEAN
      /\ done' <=> ~(cursor + k < Last)
  BY <1>0, LegacyPageDoes, IdentitiesAssumption DEF LegacyInv, Ids
<1>2. PICK listed \in SUBSET shown : \E unreadable \in SUBSET listed :
        /\ listed = {p \in shown : cursor < p /\ p <= cursor + k}
        /\ failed' = (failed \/ unreadable # {})
        /\ given' = given \union (listed \ unreadable)
        /\ edges' = edges + Cardinality(listed \ unreadable)
        /\ cursor' = Legacy!LastId(listed \ unreadable)
        /\ sentBack' = (sentBack \/ (listed \ unreadable = {} /\ ~done'))
  BY <1>0, LegacyPageDoes
<1>3. PICK unreadable \in SUBSET listed :
        /\ failed' = (failed \/ unreadable # {})
        /\ given' = given \union (listed \ unreadable)
        /\ edges' = edges + Cardinality(listed \ unreadable)
        /\ cursor' = Legacy!LastId(listed \ unreadable)
        /\ sentBack' = (sentBack \/ (listed \ unreadable = {} /\ ~done'))
  BY <1>2
<1>4. listed = {p \in shown : cursor < p /\ p <= cursor + k}
  BY <1>2
<1> DEFINE items == listed \ unreadable
<1>5. /\ items \in SUBSET Ids /\ Cardinality(items) \in Nat
      /\ cursor' \in 0 .. Last
      /\ items # {} => cursor' \in items /\ \A y \in items : y <= cursor'
      /\ items = {} => cursor' = 0
  <2>1. items \in SUBSET Ids
    BY <1>1, <1>2
  <2> HIDE DEF items
  <2>2. Cardinality(items) \in Nat
    BY <2>1, IdsFinite, FS_CardinalityType
  <2>3. cursor' = Legacy!LastId(items)
    BY <1>3 DEF items
  <2> QED BY <2>1, <2>2, <2>3, LastIdIsLast DEF Legacy!LastId
<1>6. /\ given' \in SUBSET shown /\ edges' \in Nat /\ cursor' \in shown \union {0}
  <2>1. items \subseteq shown
    BY <1>2
  <2>2. given' = given \union items /\ edges' = edges + Cardinality(items)
    BY <1>3
  <2> HIDE DEF items
  <2>3. given' \in SUBSET shown
    BY <1>1, <2>1, <2>2
  <2>4. edges' \in Nat
    BY <1>1, <1>5, <2>2
  <2>5. cursor' \in shown \union {0}
    BY <1>5, <2>1
  <2> QED BY <2>3, <2>4, <2>5
<1>7. ASSUME ~failed'
      PROVE  /\ shown \intersect (1 .. cursor') \subseteq given'
             /\ done' => shown \subseteq given'
             /\ Legacy!NoDuplicates'
             /\ ~sentBack' /\ ~done' => given' \subseteq 1 .. cursor'
             /\ \A key \in shown \union {0} : GapAt(key) => ~done' /\ cursor' <= key
             /\ sentBack' => \E key \in shown \union {0} : GapAt(key)
  <2>1. /\ ~failed /\ items = listed
        /\ given' = given \union listed /\ edges' = edges + Cardinality(listed)
    BY <1>3, <1>7
  <2>2. /\ shown \intersect (1 .. cursor) \subseteq given
        /\ ~sentBack => given \subseteq 1 .. cursor
        /\ Legacy!NoDuplicates
        /\ sentBack => \E key \in shown \union {0} : GapAt(key)
    BY <1>1, <2>1 DEF LegacyInv
  <2>3. sentBack' <=> sentBack \/ (listed = {} /\ ~done')
    BY <1>3, <2>1
  <2>4. /\ listed # {} => cursor' \in listed /\ \A y \in listed : y <= cursor'
        /\ listed = {} => cursor' = 0
    BY <1>5, <2>1
  <2>5. ASSUME NEW p \in shown, p <= cursor + k PROVE p \in given'
    <3>1. p \in 1 .. Last
      BY <1>1
    <3>2. p <= cursor => p \in given
      BY <2>2, <3>1, <1>1
    <3>3. cursor < p => p \in listed
      BY <1>4, <2>5
    <3> QED BY <1>1, <2>1, <3>1, <3>2, <3>3
  <2>6. shown \intersect (1 .. cursor') \subseteq given'
    <3>1. cursor' <= cursor + k
      BY <1>0, <1>1, <1>4, <2>4
    <3> QED BY <1>0, <1>1, <1>5, <2>5, <3>1
  <2>7. done' => shown \subseteq given'
    BY <1>0, <1>1, <2>5
  <2>8. Legacy!NoDuplicates'
    <3>1. \A S : Legacy!Cardinality(S) = Cardinality(S)
      BY Zenon DEF Legacy!Cardinality, Cardinality
    <3> SUFFICES ASSUME ~sentBack' PROVE edges' = Cardinality(given')
      BY <3>1 DEF Legacy!NoDuplicates
    <3>2. ~sentBack /\ given \subseteq 1 .. cursor
      BY <2>2, <2>3
    <3>3. edges = Cardinality(given)
      BY <2>1, <2>2, <3>1, <3>2 DEF Legacy!NoDuplicates
    <3>4. given \intersect listed = {}
      <4> SUFFICES ASSUME NEW p \in listed, p \in given PROVE FALSE
        OBVIOUS
      <4>1. p \in 1 .. cursor /\ cursor < p
        BY <1>4, <3>2
      <4> QED BY <1>1, <4>1
    <3>5. given \in SUBSET Ids /\ listed \in SUBSET Ids
      BY <1>1, <1>2
    <3> QED BY <2>1, <3>3, <3>4, <3>5, NewIdsCounted
  <2>9. ~sentBack' /\ ~done' => given' \subseteq 1 .. cursor'
    <3> SUFFICES ASSUME ~sentBack', ~done', NEW p \in given' PROVE p \in 1 .. cursor'
      OBVIOUS
    <3>1. listed # {} /\ given \subseteq 1 .. cursor
      BY <2>2, <2>3
    <3>2. cursor' \in listed /\ \A y \in listed : y <= cursor'
      BY <2>4, <3>1
    <3>3. cursor < cursor' /\ cursor' \in 1 .. Last
      BY <1>1, <1>4, <3>2
    <3>4. CASE p \in given
      BY <1>1, <3>1, <3>3, <3>4
    <3>5. CASE p \in listed
      <4>1. p \in 1 .. Last
        BY <1>1, <3>5
      <4> QED BY <3>2, <3>3, <3>5, <4>1
    <3> QED BY <2>1, <3>4, <3>5
  <2>10. ASSUME NEW key \in shown \union {0}, GapAt(key) PROVE ~done' /\ cursor' <= key
    <3>1. /\ key \in 0 .. Last /\ key + k < Last /\ cursor <= key
          /\ \A p \in key + 1 .. key + k : p \notin shown
      BY <1>0, <1>1, <2>1, <2>10 DEF LegacyInv, GapAt
    <3>2. ~done'
      BY <1>0, <1>1, <3>1
    <3>3. ASSUME NEW p \in listed PROVE p <= key
      <4>1. p \in 1 .. Last /\ p \in shown /\ p <= cursor + k
        BY <1>1, <1>4
      <4>2. ~(key < p)
        BY <1>0, <1>1, <3>1, <4>1
      <4> QED BY <3>1, <4>1, <4>2
    <3>4. cursor' <= key
      <4>1. CASE listed = {}
        BY <2>4, <3>1, <4>1
      <4>2. CASE listed # {}
        <5>1. cursor' \in listed
          BY <2>4, <4>2
        <5> QED BY <3>3, <5>1
      <4> QED BY <4>1, <4>2
    <3> QED BY <3>2, <3>4
  <2>11. sentBack' => \E key \in shown \union {0} : GapAt(key)
    <3>1. ASSUME listed = {}, ~done' PROVE GapAt(cursor)
      <4>1. cursor + k < Last
        BY <1>1, <3>1
      <4>2. \A p \in cursor + 1 .. cursor + k : p \notin shown
        <5> SUFFICES ASSUME NEW p \in shown, p \in cursor + 1 .. cursor + k PROVE FALSE
          OBVIOUS
        <5>1. p \in listed
          BY <1>0, <1>1, <1>4
        <5> QED BY <3>1, <5>1
      <4> QED BY <1>0, <4>1, <4>2 DEF GapAt
    <3>2. cursor \in shown \union {0}
      BY DEF LegacyInv
    <3> QED BY <2>2, <2>3, <3>1, <3>2
  <2> QED BY <2>6, <2>7, <2>8, <2>9, <2>10, <2>11
<1>8. \A key : GapAt(key)' <=> GapAt(key)
  BY <1>1 DEF GapAt, Legacy!PageSize
<1> HIDE DEF GapAt, items
<1> QED BY <1>1, <1>5, <1>6, <1>7, <1>8 DEF LegacyInv

LEMMA LegacyInit == MaxKeys \in Nat \ {0} /\ Legacy!Init => LegacyInv
<1> SUFFICES ASSUME MaxKeys \in Nat \ {0}, Legacy!Init PROVE LegacyInv
  OBVIOUS
<1>1. \A S : Legacy!Cardinality(S) = Cardinality(S)
  BY Zenon DEF Legacy!Cardinality, Cardinality
<1>2. \A key \in shown \union {0} : 0 <= key
  BY IdentitiesAssumption DEF Legacy!Init, Legacy!Ids
<1> QED BY <1>1, <1>2, IdentitiesAssumption, FS_EmptySet
    DEF Legacy!Init, LegacyInv, Legacy!NoDuplicates, Legacy!Ids, Ids

LEMMA LegacyStep ==
    ASSUME MaxKeys \in Nat \ {0}
    PROVE  LegacyInv /\ [Legacy!Next]_(Legacy!vars) => LegacyInv'
<1>1. ASSUME LegacyInv, Legacy!PageFails PROVE LegacyInv'
  BY <1>1, IdentitiesAssumption DEF Legacy!PageFails, LegacyInv
<1>2. ASSUME LegacyInv, UNCHANGED Legacy!vars PROVE LegacyInv'
  BY <1>2 DEF Legacy!vars, LegacyInv, Legacy!NoDuplicates, GapAt, Legacy!PageSize
<1> QED BY <1>1, <1>2, LegacyPage DEF Legacy!Next

\* For any legacy objects, shown or not, and any page size: until S3 fails or
\* the client is sent back no page of legacy_object_identities repeats an id,
\* and a listing that ends has missed none unless S3 failed.
THEOREM LegacyListingComplete ==
    ASSUME MaxKeys \in Nat \ {0}
    PROVE  Legacy!Spec => [](Legacy!NoDuplicates /\ Legacy!NoneMissed)
<1>1. LegacyInv => Legacy!NoneMissed
  BY DEF LegacyInv, Legacy!NoneMissed
<1>2. LegacyInv => Legacy!NoDuplicates
  BY DEF LegacyInv, Legacy!NoDuplicates
<1> QED BY <1>1, <1>2, LegacyInit, LegacyStep, PTL DEF Legacy!Spec

LEMMA GapIsSomewhere ==
    Legacy!GapFillsPage <=> \E key \in shown \union {0} : GapAt(key)
BY DEF Legacy!GapFillsPage, GapAt

\* A gap that fills a page keeps the client from the end for ever, as long as
\* S3 answers, and nothing else sends a client back.
THEOREM LegacyGapDecides ==
    ASSUME MaxKeys \in Nat \ {0}
    PROVE  Legacy!Spec => [](/\ Legacy!EndsWithoutGap
                             /\ sentBack /\ ~failed => Legacy!GapFillsPage)
<1>1. LegacyInv => Legacy!EndsWithoutGap
  BY GapIsSomewhere DEF LegacyInv, Legacy!EndsWithoutGap
<1>2. LegacyInv => (sentBack /\ ~failed => Legacy!GapFillsPage)
  BY GapIsSomewhere DEF LegacyInv
<1> QED BY <1>1, <1>2, LegacyInit, LegacyStep, PTL DEF Legacy!Spec

\* What a client may expect of a listing, with the legacy objects shown.
LegacyListing == INSTANCE CursorListing WITH stable <- shown

\* A page that goes to a client which has not been sent back, while S3 has
\* answered every request.
LEMMA LegacyPageIsPage ==
    ASSUME LegacyInv, LegacyInv', Legacy!Page, ~failed', ~sentBack', MaxKeys \in Nat \ {0}
    PROVE  LegacyListing!Page
<1>1. PICK listed \in SUBSET shown, unreadable \in SUBSET shown :
        /\ unreadable \subseteq listed
        /\ listed = {p \in shown : cursor < p /\ p <= cursor + Legacy!PageSize}
        /\ failed' = (failed \/ unreadable # {})
        /\ given' = given \union (listed \ unreadable)
        /\ edges' = edges + Cardinality(listed \ unreadable)
        /\ sentBack' = (sentBack \/ (listed \ unreadable = {} /\ ~done'))
  BY LegacyPageDoes
<1>2. ~done /\ shown' = shown /\ done' \in BOOLEAN
  BY LegacyPageDoes
<1>3. ~failed /\ ~sentBack /\ listed \ unreadable = listed
  BY <1>1
<1>4. listed \in SUBSET (Ids \ given)
  <2>1. given \subseteq 1 .. cursor /\ shown \in SUBSET Ids /\ cursor \in 0 .. Last
    BY <1>2, <1>3 DEF LegacyInv
  <2>2. ASSUME NEW p \in listed PROVE p \in Ids /\ p \notin given
    BY <1>1, <2>1, <2>2, IdentitiesAssumption DEF Ids
  <2> QED BY <2>2
<1>5. given' = given \union listed /\ edges' = edges + Cardinality(listed)
  BY <1>1, <1>3
<1>6. done' => shown \subseteq given'
  BY <1>2 DEF LegacyInv
<1>7. \A S : LegacyListing!Cardinality(S) = Cardinality(S)
  BY Zenon DEF LegacyListing!Cardinality, Cardinality
<1>8. \E ids \in SUBSET (Ids \ given) :
          given' = given \union ids /\ edges' = edges + Cardinality(ids)
  BY <1>4, <1>5, Zenon
<1> QED BY <1>2, <1>6, <1>7, <1>8, Zenon DEF LegacyListing!Page

\* legacy_object_identities keeps the promise of object_identities, whatever
\* is shown, up to the first request S3 fails to answer and the first page
\* that sends the client back.
THEOREM LegacyIsAListing ==
    ASSUME MaxKeys \in Nat \ {0}
    PROVE  Legacy!Spec => /\ LegacyListing!Init
                          /\ [][failed' \/ sentBack' \/ LegacyListing!Next]_(LegacyListing!listingVars)
<1>1. Legacy!Init => LegacyListing!Init
  BY IdentitiesAssumption DEF Legacy!Init, Legacy!Ids, LegacyListing!Init, Ids
<1>2. LegacyInv /\ LegacyInv' /\ [Legacy!Next]_(Legacy!vars)
         => [failed' \/ sentBack' \/ LegacyListing!Next]_(LegacyListing!listingVars)
  <2>1. ASSUME LegacyInv, LegacyInv', Legacy!Page, ~failed', ~sentBack' PROVE LegacyListing!Next
    BY <2>1, LegacyPageIsPage DEF LegacyListing!Next
  <2>2. ASSUME Legacy!PageFails PROVE failed'
    BY <2>2 DEF Legacy!PageFails
  <2>3. ASSUME UNCHANGED Legacy!vars PROVE UNCHANGED LegacyListing!listingVars
    BY <2>3 DEF Legacy!vars, LegacyListing!listingVars
  <2> QED BY <2>1, <2>2, <2>3 DEF Legacy!Next
<1> QED BY <1>1, <1>2, LegacyInit, LegacyStep, PTL DEF Legacy!Spec

\* Without a gap only a failure of S3 sends the cursor back, and only one page
\* has one.
PagesLeft ==
    IF done THEN 0 ELSE (IF failed THEN 0 ELSE Last + 1) + (Last - cursor) + 1

LEMMA LegacyPageLess ==
    ASSUME LegacyInv, Legacy!Page, MaxKeys \in Nat \ {0}, ~Legacy!GapFillsPage
    PROVE  PagesLeft' < PagesLeft
<1>0. PICK k \in Nat \ {0} : k = Legacy!PageSize
  BY PageSizeType
<1>1. /\ Last \in Nat /\ cursor \in 0 .. Last /\ Ids = 1 .. Last /\ shown \in SUBSET Ids
      /\ ~done /\ done' \in BOOLEAN
      /\ done' <=> ~(cursor + k < Last)
  BY <1>0, LegacyPageDoes, IdentitiesAssumption DEF LegacyInv, Ids
<1>2. PICK listed \in SUBSET shown, unreadable \in SUBSET shown :
        /\ unreadable \subseteq listed
        /\ listed = {p \in shown : cursor < p /\ p <= cursor + k}
        /\ unreadable # {} => ~failed
        /\ failed' = (failed \/ unreadable # {})
        /\ cursor' = Legacy!LastId(listed \ unreadable)
  BY <1>0, LegacyPageDoes
<1>3. CASE done'
  BY <1>1, <1>3 DEF PagesLeft
<1>4. CASE ~done' /\ listed \ unreadable # {}
  <2>1. cursor' \in listed \ unreadable
    BY <1>1, <1>2, <1>4, LastIdIsLast
  <2>2. Last - cursor' \in Nat /\ Last - cursor \in Nat /\ Last - cursor' < Last - cursor
    <3>1. cursor' \in cursor + 1 .. Last
      BY <1>1, <1>2, <2>1
    <3>2. Last \in Nat /\ cursor \in 0 .. Last
      BY <1>1
    <3> QED BY <3>1, <3>2, LessToGo
  <2>3. failed => failed'
    BY <1>2
  <2>4. CASE failed
    BY <1>1, <1>4, <2>2, <2>3, <2>4 DEF PagesLeft
  <2>5. CASE ~failed /\ failed'
    BY <1>1, <1>4, <2>2, <2>5 DEF PagesLeft
  <2>6. CASE ~failed /\ ~failed'
    BY <1>1, <1>4, <2>2, <2>6 DEF PagesLeft
  <2> QED BY <2>4, <2>5, <2>6
<1>5. CASE ~done' /\ listed \ unreadable = {}
  <2>1. listed # {}
    <3> SUFFICES ASSUME listed = {} PROVE Legacy!GapFillsPage
      OBVIOUS
    <3>1. cursor + k < Last
      BY <1>1, <1>5
    <3>2. \A p \in cursor + 1 .. cursor + k : p \notin shown
      <4> SUFFICES ASSUME NEW p \in shown, p \in cursor + 1 .. cursor + k PROVE FALSE
        OBVIOUS
      <4>1. p \in listed
        BY <1>0, <1>1, <1>2
      <4> QED BY <4>1
    <3>3. cursor \in shown \union {0}
      BY DEF LegacyInv
    <3>4. GapAt(cursor)
      BY <1>0, <3>1, <3>2 DEF GapAt
    <3> QED BY <3>3, <3>4, GapIsSomewhere
  <2>2. ~failed /\ failed' /\ cursor' = 0
    <3>1. unreadable # {} /\ Legacy!LastId({}) = 0
      BY <1>5, <2>1 DEF Legacy!LastId
    <3>2. ~failed /\ failed'
      BY <1>2, <3>1
    <3> QED BY <1>2, <1>5, <3>1, <3>2
  <2> QED BY <1>1, <1>5, <2>2 DEF PagesLeft
<1> QED BY <1>3, <1>4, <1>5

\* Without a gap that fills a page a listing takes at most 2 * Last + 2 pages,
\* one of which may have failed: each page uses one up, and the client is done
\* when none is left.
THEOREM LegacyListingIsBounded ==
    ASSUME MaxKeys \in Nat \ {0}
    PROVE  /\ Legacy!Init => PagesLeft = 2 * Last + 2
           /\ Legacy!Spec => [](PagesLeft \in Nat /\ (PagesLeft = 0 <=> done))
           /\ Legacy!Spec => [][Legacy!GapFillsPage \/ PagesLeft' < PagesLeft]_(Legacy!vars)
<1>1. Legacy!Init => PagesLeft = 2 * Last + 2
  BY IdentitiesAssumption DEF Legacy!Init, PagesLeft
<1>2. LegacyInv => PagesLeft \in Nat /\ (PagesLeft = 0 <=> done)
  BY IdentitiesAssumption DEF LegacyInv, PagesLeft
<1>3. LegacyInv /\ [Legacy!Next]_(Legacy!vars)
         => [Legacy!GapFillsPage \/ PagesLeft' < PagesLeft]_(Legacy!vars)
  <2>1. ASSUME LegacyInv, Legacy!PageFails PROVE PagesLeft' < PagesLeft
    BY <2>1, IdentitiesAssumption DEF Legacy!PageFails, LegacyInv, PagesLeft
  <2> QED BY <2>1, LegacyPageLess DEF Legacy!Next
<1> QED BY <1>1, <1>2, <1>3, LegacyInit, LegacyStep, PTL DEF Legacy!Spec
=============================================================================
