------------------------ MODULE ObjectCreationProofs ------------------------
(***************************************************************************)
(* Theorems about ObjectCreation, for any number of concurrent creates,    *)
(* any classes and suffixes, any number of attempts, stale counter reads,  *)
(* and a ToshiIdentity item that is there from the start or not.  All hold *)
(* up to the step that puts the counter back, which a stage whose item     *)
(* exists never takes (SeededIsNeverRewound); that a create stores one     *)
(* object at most holds after it too (OneObjectEach).                      *)
(***************************************************************************)
EXTENDS ObjectCreation, TLAPS

Allocating == {"new", "read", "seed", "transact"}

\* An attempt that is still running has not used up the attempts.
AttemptsLeft == \A r \in Requests : pc[r] \in Allocating => attempt[r] < MaxAttempts

\* The counter is a number from FIRST_ID on, or it is absent: then no read has
\* found it and no create is about to commit.
CounterInv ==
    \/ FirstId <= counter
    \/ /\ counter = NoItem
       /\ replicas = {NoItem}
       /\ \A r \in Requests : pc[r] # "transact"

\* Every stored object's number is behind the counter, its request is past
\* its transaction, and numbers and owners identify objects.
ObjectsInv ==
    /\ \A o \in objects : FirstId <= o.num /\ o.num < counter
    /\ \A o \in objects : pc[o.owner] \notin Allocating
    /\ \A n \in Nat : FirstId <= n /\ n < counter => \E o \in objects : o.num = n
    /\ DistinctNumbers
    /\ OneObjectPerRequest

\* What depends on a stored object is there only if the object is; an upload
\* key belongs to a create that returned.
DerivedInv ==
    /\ AcknowledgedIsStored
    /\ DerivedDataBacked
    /\ \A o \in placeholders \union uploads : pc[o.owner] = "done"

CreateInv == CounterInv /\ ObjectsInv /\ DerivedInv

-----------------------------------------------------------------------------
\* A put of an object into a set of objects leaves a set of objects.
LEMMA PutIntoType ==
    ASSUME NEW S \in SUBSET Object, NEW o \in Object
    PROVE  PutInto(S, o) \in SUBSET Object
BY DEF PutInto

\* A put whose number no element of S has only adds.
LEMMA PutIntoFresh ==
    ASSUME NEW S \in SUBSET Object, NEW o \in Object,
           \A p \in S : p.num = o.num => p = o
    PROVE  PutInto(S, o) = S \union {o}
BY DEF PutInto, SameKey

LEMMA ObjectOfType ==
    ASSUME TypeOK, NEW r \in Requests
    PROVE  /\ ObjectOf(r) \in Object
           /\ ObjectOf(r).num = cur[r]
           /\ ObjectOf(r).owner = r
BY DEF TypeOK, ObjectOf, Object

\* The type invariant is inductive together with the bound on the attempts.
LEMMA TypeStep ==
    ASSUME TypeOK, AttemptsLeft, [Next]_vars
    PROVE  TypeOK' /\ AttemptsLeft'
<1> USE CreationAssumption
<1> USE DEF NoItem, PC, Live, Ended, Allocating, counterVars, s3Vars, localVars
<1> USE DEF TypeOK, AttemptsLeft
<1>1. ASSUME NEW r \in Requests, BeginCreate(r) PROVE TypeOK' /\ AttemptsLeft'
  BY <1>1 DEF BeginCreate, Goto
<1>2. ASSUME NEW r \in Requests, ReadCurrentId(r) PROVE TypeOK' /\ AttemptsLeft'
  BY <1>2 DEF ReadCurrentId, Goto
<1>3. ASSUME NEW r \in Requests, ReadNoItem(r) PROVE TypeOK' /\ AttemptsLeft'
  BY <1>3 DEF ReadNoItem, Goto
<1>4. ASSUME NEW r \in Requests, SeedCounter(r) PROVE TypeOK' /\ AttemptsLeft'
  BY <1>4 DEF SeedCounter, Goto
<1>5. ASSUME NEW r \in Requests, CommitTransaction(r) PROVE TypeOK' /\ AttemptsLeft'
  <2>1. counter \in Nat /\ counter' = counter + 1
    BY <1>5 DEF CommitTransaction, CounterUnchanged
  <2>2. replicas' \subseteq Nat \union {NoItem}
    BY <1>5, <2>1 DEF CommitTransaction
  <2>3. objects' \subseteq Object
    BY <1>5, PutIntoType, ObjectOfType DEF CommitTransaction
  <2>4. pc' \in [Requests -> PC] /\ AttemptsLeft'
    BY <1>5 DEF CommitTransaction
  <2>5. QED
    BY <1>5, <2>1, <2>2, <2>3, <2>4 DEF CommitTransaction
<1>6. ASSUME NEW r \in Requests, CancelTransaction(r) PROVE TypeOK' /\ AttemptsLeft'
  <2>1. attempt[r] \in Nat /\ attempt[r] < MaxAttempts
    BY <1>6 DEF CancelTransaction
  <2>2. attempt' \in [Requests -> 0 .. MaxAttempts]
    BY <1>6, <2>1 DEF CancelTransaction
  <2>3. pc' \in [Requests -> PC]
    BY <1>6 DEF CancelTransaction
  <2>4. AttemptsLeft'
    BY <1>6, <2>1 DEF CancelTransaction
  <2>5. QED
    BY <1>6, <2>2, <2>3, <2>4 DEF CancelTransaction
<1>7. ASSUME NEW r \in Requests, RaiseError(r) PROVE TypeOK' /\ AttemptsLeft'
  BY <1>7 DEF RaiseError
<1>8. ASSUME NEW r \in Requests, IndexDocument(r) PROVE TypeOK' /\ AttemptsLeft'
  <2>1. index' \subseteq Object
    BY <1>8, PutIntoType, ObjectOfType DEF IndexDocument
  <2>2. pc' \in [Requests -> PC] /\ AttemptsLeft'
    BY <1>8 DEF IndexDocument, Goto, AfterIndex
  <2>3. QED
    BY <1>8, <2>1, <2>2 DEF IndexDocument
<1>9. ASSUME NEW r \in Requests, PresignedPost(r) PROVE TypeOK' /\ AttemptsLeft'
  <2>1. placeholders' \subseteq Object /\ uploads' \subseteq Object
    BY <1>9, PutIntoType, ObjectOfType DEF PresignedPost
  <2>2. pc' \in [Requests -> PC] /\ AttemptsLeft'
    BY <1>9 DEF PresignedPost, Goto
  <2>3. QED
    BY <1>9, <2>1, <2>2 DEF PresignedPost
<1>10. ASSUME NEW r \in Requests, ClientUpload(r) PROVE TypeOK' /\ AttemptsLeft'
  <2>1. placeholders' \subseteq Object /\ uploads' \subseteq Object
    BY <1>10, PutIntoType, ObjectOfType DEF ClientUpload
  <2>2. QED
    BY <1>10, <2>1 DEF ClientUpload
<1>11. ASSUME NEW r \in Requests, Kill(r) PROVE TypeOK' /\ AttemptsLeft'
  BY <1>11 DEF Kill
<1>12. CASE UNCHANGED vars
  BY <1>12 DEF vars
<1>13. QED
  BY <1>1, <1>2, <1>3, <1>4, <1>5, <1>6, <1>7, <1>8, <1>9, <1>10, <1>11, <1>12
     DEF Next, Step

LEMMA TypeInit == Init => TypeOK /\ AttemptsLeft
<1> SUFFICES ASSUME Init PROVE TypeOK /\ AttemptsLeft
  OBVIOUS
<1>1. counter \in Nat \union {NoItem} /\ replicas \subseteq Nat \union {NoItem}
  BY CreationAssumption DEF Init, NoItem
<1>2. rewound \in BOOLEAN
  BY DEF Init
<1>3. /\ objects \subseteq Object /\ index \subseteq Object
      /\ placeholders \subseteq Object /\ uploads \subseteq Object
  BY DEF Init
<1>4. /\ pc \in [Requests -> PC] /\ clazz \in [Requests -> Classes]
      /\ cur \in [Requests -> Nat] /\ uniq \in [Requests -> Suffixes]
      /\ attempt \in [Requests -> 0 .. MaxAttempts]
  BY CreationAssumption DEF Init, PC
<1>5. AttemptsLeft
  BY CreationAssumption DEF Init, AttemptsLeft
<1>6. QED
  BY <1>1, <1>2, <1>3, <1>4, <1>5 DEF TypeOK

\* TypeOK holds in every reachable state, with a seeded counter or without.
THEOREM TypeCorrect == Spec => []TypeOK
<1>1. TypeOK /\ AttemptsLeft /\ [Next]_vars => TypeOK' /\ AttemptsLeft'
  BY TypeStep
<1>2. QED
  BY TypeInit, <1>1, PTL DEF Spec
-----------------------------------------------------------------------------
\* Once the counter was put back it stays so.
LEMMA RewoundStays ==
    ASSUME rewound, TypeOK, [Next]_vars
    PROVE  rewound'
<1> USE DEF counterVars
<1>1. ASSUME NEW r \in Requests, SeedCounter(r) PROVE rewound'
  BY <1>1 DEF SeedCounter
<1>2. ASSUME NEW r \in Requests,
             \/ BeginCreate(r) \/ ReadCurrentId(r) \/ ReadNoItem(r)
             \/ CommitTransaction(r) \/ CancelTransaction(r) \/ RaiseError(r)
             \/ IndexDocument(r) \/ PresignedPost(r) \/ ClientUpload(r) \/ Kill(r)
      PROVE  rewound'
  BY <1>2 DEF BeginCreate, ReadCurrentId, ReadNoItem, CommitTransaction, CancelTransaction,
              RaiseError, IndexDocument, PresignedPost, ClientUpload, Kill
<1>3. QED
  BY <1>1, <1>2 DEF Next, Step, vars

\* The history variable stays a Boolean.
LEMMA RewoundTyped ==
    ASSUME TypeOK, [Next]_vars
    PROVE  rewound' \in BOOLEAN
BY DEF TypeOK, Next, Step, vars, counterVars, BeginCreate, ReadCurrentId, ReadNoItem,
       SeedCounter, CommitTransaction, CancelTransaction, RaiseError, IndexDocument,
       PresignedPost, ClientUpload, Kill

\* A create that found the counter finds it from then on.
LEMMA CounterStep ==
    ASSUME TypeOK, CounterInv, [Next]_vars
    PROVE  CounterInv'
<1> USE CreationAssumption DEF NoItem, counterVars, s3Vars, localVars, CounterInv
<1>1. ASSUME NEW r \in Requests, BeginCreate(r) PROVE CounterInv'
  BY <1>1 DEF TypeOK, BeginCreate, Goto
<1>2. ASSUME NEW r \in Requests, ReadCurrentId(r) PROVE CounterInv'
  BY <1>2 DEF TypeOK, ReadCurrentId, Goto
<1>3. ASSUME NEW r \in Requests, ReadNoItem(r) PROVE CounterInv'
  BY <1>3 DEF TypeOK, ReadNoItem, Goto
<1>4. ASSUME NEW r \in Requests, SeedCounter(r) PROVE CounterInv'
  BY <1>4 DEF SeedCounter
<1>5. ASSUME NEW r \in Requests, CommitTransaction(r) PROVE CounterInv'
  BY <1>5 DEF TypeOK, CommitTransaction
<1>6. ASSUME NEW r \in Requests, CancelTransaction(r) PROVE CounterInv'
  BY <1>6 DEF TypeOK, CancelTransaction
<1>7. ASSUME NEW r \in Requests, RaiseError(r) PROVE CounterInv'
  BY <1>7 DEF TypeOK, RaiseError
<1>8. ASSUME NEW r \in Requests, IndexDocument(r) PROVE CounterInv'
  BY <1>8 DEF TypeOK, IndexDocument, Goto, AfterIndex
<1>9. ASSUME NEW r \in Requests, PresignedPost(r) PROVE CounterInv'
  BY <1>9 DEF TypeOK, PresignedPost, Goto
<1>10. ASSUME NEW r \in Requests, ClientUpload(r) PROVE CounterInv'
  BY <1>10 DEF TypeOK, ClientUpload
<1>11. ASSUME NEW r \in Requests, Kill(r) PROVE CounterInv'
  BY <1>11 DEF TypeOK, Kill
<1>12. CASE UNCHANGED vars
  BY <1>12 DEF vars
<1>13. QED
  BY <1>1, <1>2, <1>3, <1>4, <1>5, <1>6, <1>7, <1>8, <1>9, <1>10, <1>11, <1>12
     DEF Next, Step

\* A seed that does not put the counter back comes before the first object.
LEMMA EarlySeed ==
    ASSUME TypeOK, CounterInv, ObjectsInv, NEW r \in Requests, SeedCounter(r), ~rewound'
    PROVE  counter' = FirstId /\ objects = {} /\ objects' = {}
<1>1. counter' = FirstId /\ objects' = objects /\ ~(counter > FirstId)
  BY DEF SeedCounter
<1>2. counter \in Int /\ FirstId \in Nat /\ \A o \in objects : o.num \in Nat
  BY CreationAssumption DEF TypeOK, NoItem, Object
<1>3. objects = {}
  BY <1>1, <1>2 DEF ObjectsInv
<1>4. QED
  BY <1>1, <1>3

\* A committing request stores its object under the counter's value, which no
\* stored object has, and adds it without replacing anything.
LEMMA CommitAdds ==
    ASSUME TypeOK, CounterInv, ObjectsInv, NEW r \in Requests, CommitTransaction(r)
    PROVE  /\ counter' = counter + 1
           /\ cur[r] = counter
           /\ \A o \in objects : o.num < cur[r] /\ o.owner # r
           /\ objects' = objects \union {ObjectOf(r)}
<1>1. counter' = counter + 1 /\ cur[r] = counter /\ pc[r] = "transact"
  BY DEF CommitTransaction, CounterUnchanged
<1>2. \A o \in objects : o.num < cur[r] /\ o.owner # r
  BY <1>1 DEF ObjectsInv, Allocating
<1>3. \A o \in objects : o \in Object /\ o.num # ObjectOf(r).num
  BY <1>2, ObjectOfType DEF TypeOK, Object
<1>4. PutInto(objects, ObjectOf(r)) = objects \union {ObjectOf(r)}
  BY <1>3, ObjectOfType, PutIntoFresh DEF TypeOK
<1>5. QED
  BY <1>1, <1>2, <1>4 DEF CommitTransaction

\* Only the commit adds objects, only an early seed else moves the counter, and
\* a request that is past its transaction stays past it.
LEMMA OtherSteps ==
    ASSUME TypeOK, CounterInv, ObjectsInv, [Next]_vars, ~rewound',
           ~ \E r \in Requests : CommitTransaction(r)
    PROVE  /\ objects' = objects
           /\ counter' = counter \/ (objects = {} /\ counter' = FirstId)
           /\ \A r \in Requests : pc[r] \notin Allocating => pc'[r] \notin Allocating
<1> USE DEF counterVars, s3Vars, localVars, Allocating, Goto
<1>1. ASSUME NEW r \in Requests, \/ BeginCreate(r) \/ ReadCurrentId(r) \/ ReadNoItem(r)
                                 \/ CancelTransaction(r) \/ RaiseError(r)
      PROVE  /\ objects' = objects
             /\ counter' = counter
             /\ \A q \in Requests : pc[q] \notin Allocating => pc'[q] \notin Allocating
  BY <1>1 DEF TypeOK, BeginCreate, ReadCurrentId, ReadNoItem, CancelTransaction, RaiseError
<1>2. ASSUME NEW r \in Requests, SeedCounter(r)
      PROVE  /\ objects' = objects /\ objects = {} /\ counter' = FirstId
             /\ \A q \in Requests : pc[q] \notin Allocating => pc'[q] \notin Allocating
  <2>1. \A q \in Requests : pc[q] \notin Allocating => pc'[q] \notin Allocating
    BY <1>2 DEF TypeOK, SeedCounter
  <2>2. QED
    BY <1>2, <2>1, EarlySeed
<1>3. ASSUME NEW r \in Requests, \/ IndexDocument(r) \/ PresignedPost(r)
                                 \/ ClientUpload(r) \/ Kill(r)
      PROVE  /\ objects' = objects
             /\ counter' = counter
             /\ \A q \in Requests : pc[q] \notin Allocating => pc'[q] \notin Allocating
  BY <1>3 DEF TypeOK, IndexDocument, AfterIndex, PresignedPost, ClientUpload, Kill
<1>4. CASE UNCHANGED vars
  BY <1>4 DEF vars
<1>5. QED
  BY <1>1, <1>2, <1>3, <1>4 DEF Next, Step

\* No other step touches the objects, a late seed included.
LEMMA ObjectsKept ==
    ASSUME [Next]_vars, ~ \E r \in Requests : CommitTransaction(r)
    PROVE  objects' = objects
BY DEF Next, Step, vars, BeginCreate, ReadCurrentId, ReadNoItem, SeedCounter,
       CancelTransaction, RaiseError, IndexDocument, PresignedPost, ClientUpload, Kill

LEMMA ObjectsStep ==
    ASSUME TypeOK, CounterInv, ObjectsInv, [Next]_vars, ~rewound'
    PROVE  ObjectsInv'
<1>1. ASSUME NEW r \in Requests, CommitTransaction(r) PROVE ObjectsInv'
  <2> DEFINE new == ObjectOf(r)
  <2>1. /\ counter' = counter + 1
        /\ cur[r] = counter
        /\ \A o \in objects : o.num < cur[r] /\ o.owner # r
        /\ objects' = objects \union {new}
    BY <1>1, CommitAdds
  <2>2. new.num = counter /\ new.owner = r
    BY <2>1, ObjectOfType
  <2>3. counter \in Nat /\ FirstId \in Nat /\ FirstId <= counter
    BY <1>1, CreationAssumption DEF CounterInv, CommitTransaction, TypeOK, NoItem
  <2>4. \A o \in objects : o.num \in Nat /\ o.owner \in Requests
    BY DEF TypeOK, Object
  <2> HIDE DEF new
  <2>5. \A o \in objects' : FirstId <= o.num /\ o.num < counter'
    BY <2>1, <2>2, <2>3, <2>4 DEF ObjectsInv
  <2>6. \A o \in objects' : pc'[o.owner] \notin Allocating
    BY <1>1, <2>1, <2>2, <2>4 DEF ObjectsInv, CommitTransaction, TypeOK, Allocating
  <2>7. \A n \in Nat : FirstId <= n /\ n < counter' => \E o \in objects' : o.num = n
    <3> SUFFICES ASSUME NEW n \in Nat, FirstId <= n, n < counter'
                 PROVE  \E o \in objects' : o.num = n
      OBVIOUS
    <3>1. CASE n = counter
      BY <3>1, <2>1, <2>2
    <3>2. CASE n < counter
      BY <3>2, <2>1 DEF ObjectsInv
    <3>3. QED
      BY <3>1, <3>2, <2>1, <2>3
  <2>8. DistinctNumbers'
    BY <2>1, <2>2, <2>3, <2>4 DEF ObjectsInv, DistinctNumbers
  <2>9. OneObjectPerRequest'
    BY <2>1, <2>2 DEF ObjectsInv, OneObjectPerRequest
  <2>10. QED
    BY <2>5, <2>6, <2>7, <2>8, <2>9 DEF ObjectsInv
<1>2. CASE ~ \E r \in Requests : CommitTransaction(r)
  <2>1. \A o \in objects : o.owner \in Requests
    BY DEF TypeOK, Object
  <2>2. CASE objects = {} /\ objects' = {} /\ counter' = FirstId
    BY <2>2, CreationAssumption DEF ObjectsInv, DistinctNumbers, OneObjectPerRequest
  <2>3. CASE objects' = objects /\ counter' = counter
    BY <1>2, <2>1, <2>3, OtherSteps DEF ObjectsInv, DistinctNumbers, OneObjectPerRequest
  <2>4. QED
    BY <1>2, <2>2, <2>3, OtherSteps
<1>3. QED
  BY <1>1, <1>2

\* A stored object is the only object of its number, so a put of a stored
\* object into stored objects only adds it, and takes no other object away.
LEMMA StoredPut ==
    ASSUME TypeOK, DistinctNumbers, NEW o \in objects, NEW S, S \subseteq objects
    PROVE  /\ PutInto(S, o) = S \union {o}
           /\ {p \in S : ~SameKey(p, o)} = S \ {o}
<1>1. \A p \in S : SameKey(p, o) => p = o
  BY DEF DistinctNumbers, SameKey
<1>2. SameKey(o, o)
  BY DEF SameKey
<1>3. QED
  BY <1>1, <1>2 DEF PutInto

LEMMA DerivedStep ==
    ASSUME TypeOK, CounterInv, ObjectsInv, DerivedInv, [Next]_vars, ~rewound'
    PROVE  DerivedInv'
<1> USE DEF DerivedInv, AcknowledgedIsStored, DerivedDataBacked
<1> USE DEF counterVars, s3Vars, localVars
<1>0. ~rewound
  BY RewoundStays
<1> USE <1>0
<1>a. \A o \in objects : o.owner \in Requests
  BY DEF TypeOK, Object
<1>b. DistinctNumbers
  BY DEF ObjectsInv
<1>1. ASSUME NEW r \in Requests, \/ BeginCreate(r) \/ ReadCurrentId(r) \/ ReadNoItem(r)
                                 \/ SeedCounter(r) \/ CancelTransaction(r) \/ RaiseError(r)
      PROVE DerivedInv'
  <2>1. /\ UNCHANGED <<objects, index, placeholders, uploads, clazz>>
        /\ pc[r] \in {"new", "read", "seed", "transact"}
        /\ \E end \in {"read", "seed", "transact", "error"} : pc' = [pc EXCEPT ![r] = end]
        /\ \A q \in Requests \ {r} : cur'[q] = cur[q] /\ uniq'[q] = uniq[q]
    BY <1>1 DEF TypeOK, BeginCreate, ReadCurrentId, ReadNoItem, SeedCounter,
                CancelTransaction, RaiseError, Goto
  <2>2. \A q \in Requests \ {r} : ObjectOf(q)' = ObjectOf(q) /\ pc'[q] = pc[q]
    BY <2>1 DEF ObjectOf, TypeOK
  <2>3. pc'[r] \notin {"index", "post", "done"}
    BY <2>1 DEF TypeOK
  <2>4. AcknowledgedIsStored'
    BY <2>1, <2>2, <2>3
  <2>5. \A o \in placeholders \union uploads : pc[o.owner] = "done" /\ o.owner # r
    BY <2>1
  <2>6. \A o \in placeholders \union uploads : pc'[o.owner] = "done"
    BY <2>5, <2>2, <1>a
  <2>7. QED
    BY <2>1, <2>4, <2>6
<1>3. ASSUME NEW r \in Requests, CommitTransaction(r) PROVE DerivedInv'
  <2>1. objects' = objects \union {ObjectOf(r)}
    BY <1>3, CommitAdds
  <2>2. /\ UNCHANGED <<index, placeholders, uploads, clazz, cur, uniq>>
        /\ pc[r] = "transact"
        /\ \E end \in {"index", "error"} : pc' = [pc EXCEPT ![r] = end]
    BY <1>3 DEF CommitTransaction
  <2>3. \A q \in Requests : ObjectOf(q)' = ObjectOf(q)
    BY <2>2 DEF ObjectOf
  <2>4. \A q \in Requests \ {r} : pc'[q] = pc[q]
    BY <2>2 DEF TypeOK
  <2>5. AcknowledgedIsStored'
    BY <2>1, <2>2, <2>3, <2>4
  <2>6. \A o \in placeholders \union uploads : pc[o.owner] = "done" /\ o.owner # r
    BY <2>2
  <2>7. \A o \in placeholders \union uploads : pc'[o.owner] = "done"
    BY <2>6, <2>4, <1>a
  <2>8. QED
    BY <2>1, <2>2, <2>5, <2>7
<1>4. ASSUME NEW r \in Requests, IndexDocument(r) PROVE DerivedInv'
  <2>1. ObjectOf(r) \in objects
    BY <1>4 DEF IndexDocument, Goto
  <2>2. index' \subseteq objects
    BY <1>4, <1>b, <2>1, StoredPut DEF IndexDocument
  <2>3. /\ UNCHANGED <<objects, placeholders, uploads, clazz, cur, uniq>>
        /\ pc[r] = "index"
        /\ \E end \in {"post", "done"} : pc' = [pc EXCEPT ![r] = end]
    BY <1>4 DEF IndexDocument, Goto, AfterIndex
  <2>4. \A q \in Requests : ObjectOf(q)' = ObjectOf(q)
    BY <2>3 DEF ObjectOf
  <2>5. \A q \in Requests \ {r} : pc'[q] = pc[q]
    BY <2>3 DEF TypeOK
  <2>6. AcknowledgedIsStored'
    BY <2>1, <2>3, <2>4, <2>5
  <2>7. \A o \in placeholders \union uploads : o.owner # r /\ pc'[o.owner] = "done"
    BY <2>3, <2>5, <1>a
  <2>8. QED
    BY <2>2, <2>3, <2>6, <2>7
<1>5. ASSUME NEW r \in Requests, PresignedPost(r) \/ ClientUpload(r) PROVE DerivedInv'
  <2>1. ObjectOf(r) \in objects /\ ObjectOf(r).owner = r
    BY <1>5, ObjectOfType DEF PresignedPost, ClientUpload, Goto
  <2>2. placeholders' \union uploads' \subseteq (placeholders \union uploads) \union {ObjectOf(r)}
    BY <1>5, <1>b, <2>1, StoredPut DEF PresignedPost, ClientUpload
  <2>3. /\ UNCHANGED <<objects, index, clazz, cur, uniq>>
        /\ pc' = [pc EXCEPT ![r] = "done"]
        /\ pc[r] \in {"post", "done"}
    BY <1>5 DEF PresignedPost, ClientUpload, Goto, TypeOK
  <2>4. \A q \in Requests : ObjectOf(q)' = ObjectOf(q)
    BY <2>3 DEF ObjectOf
  <2>5. pc'[r] = "done" /\ \A q \in Requests \ {r} : pc'[q] = pc[q]
    BY <2>3 DEF TypeOK
  <2>6. AcknowledgedIsStored'
    BY <2>1, <2>3, <2>4, <2>5
  <2>7. \A o \in placeholders' \union uploads' : pc'[o.owner] = "done"
    BY <2>1, <2>2, <2>5, <1>a
  <2>8. QED
    BY <2>1, <2>2, <2>3, <2>6, <2>7
<1>6. ASSUME NEW r \in Requests, Kill(r) PROVE DerivedInv'
  <2>1. /\ UNCHANGED <<objects, index, placeholders, uploads, clazz, cur, uniq>>
        /\ pc' = [pc EXCEPT ![r] = "killed"]
        /\ pc[r] # "done"
    BY <1>6 DEF Kill, Live
  <2>2. \A q \in Requests : ObjectOf(q)' = ObjectOf(q)
    BY <2>1 DEF ObjectOf
  <2>3. pc'[r] = "killed" /\ \A q \in Requests \ {r} : pc'[q] = pc[q]
    BY <2>1 DEF TypeOK
  <2>4. AcknowledgedIsStored'
    BY <2>1, <2>2, <2>3
  <2>5. \A o \in placeholders \union uploads : o.owner # r /\ pc'[o.owner] = "done"
    BY <2>1, <2>3, <1>a
  <2>6. QED
    BY <2>1, <2>4, <2>5
<1>7. CASE UNCHANGED vars
  <2>1. \A q \in Requests : ObjectOf(q)' = ObjectOf(q)
    BY <1>7 DEF ObjectOf, vars
  <2>2. QED
    BY <1>7, <2>1 DEF vars
<1>8. QED
  BY <1>1, <1>3, <1>4, <1>5, <1>6, <1>7 DEF Next, Step

LEMMA InvInit == Init => CreateInv
<1> SUFFICES ASSUME Init PROVE CreateInv
  OBVIOUS
<1>1. CounterInv
  BY CreationAssumption DEF Init, CounterInv, NoItem
<1>2. ObjectsInv
  BY CreationAssumption DEF Init, ObjectsInv, DistinctNumbers, OneObjectPerRequest, NoItem
<1>3. DerivedInv
  BY DEF Init, DerivedInv, AcknowledgedIsStored, DerivedDataBacked
<1>4. QED
  BY <1>1, <1>2, <1>3 DEF CreateInv

LEMMA InvStep ==
    TypeOK /\ (rewound \/ CreateInv) /\ [Next]_vars => (rewound \/ CreateInv)'
<1>1. rewound /\ TypeOK /\ [Next]_vars => rewound'
  BY RewoundStays
<1>2. TypeOK /\ CreateInv /\ [Next]_vars /\ ~rewound' => CreateInv'
  BY CounterStep, ObjectsStep, DerivedStep DEF CreateInv
<1>3. QED
  BY <1>1, <1>2

\* The inductive invariant of creation.
THEOREM CreateInvariant == Spec => [](rewound \/ CreateInv)
BY InvInit, InvStep, TypeCorrect, PTL DEF Spec

-----------------------------------------------------------------------------
\* Until the counter is put back no two objects share a number, however many
\* Lambdas create at once and however stale their counter reads are.
THEOREM NumbersUnique == Spec => []UniqueNumbers
<1>1. rewound \/ CreateInv => UniqueNumbers
  BY DEF CreateInv, ObjectsInv, UniqueNumbers
<1>2. QED
  BY <1>1, CreateInvariant, PTL

\* The numbers in use are exactly those the counter has passed.
THEOREM NumbersAreDense == Spec => []NumbersDense
<1>1. TypeOK /\ (rewound \/ CreateInv) => NumbersDense
  <2> SUFFICES ASSUME TypeOK, CreateInv
               PROVE  {o.num : o \in objects} = FirstId .. (counter - 1)
    BY DEF NumbersDense
  <2>1. counter \in Int /\ FirstId \in Nat
    BY CreationAssumption DEF TypeOK, NoItem
  <2>2. \A o \in objects : o.num \in FirstId .. (counter - 1)
    BY <2>1 DEF CreateInv, ObjectsInv, TypeOK, Object
  <2>3. \A n \in FirstId .. (counter - 1) : \E o \in objects : o.num = n
    BY <2>1 DEF CreateInv, ObjectsInv
  <2>4. QED
    BY <2>2, <2>3
<1>2. QED
  BY <1>1, CreateInvariant, TypeCorrect, PTL

\* A create that returned, or is about to, has its object stored, whatever
\* other creates did since.
THEOREM CreateIsDurable == Spec => []AcknowledgedIsStored
<1>1. rewound \/ CreateInv => AcknowledgedIsStored
  BY DEF CreateInv, DerivedInv, AcknowledgedIsStored
<1>2. QED
  BY <1>1, CreateInvariant, PTL

\* The search index and the upload keys are backed by stored objects, whatever
\* requests were killed or failed in between.
THEOREM DerivedDataIsBacked == Spec => []DerivedDataBacked
<1>1. rewound \/ CreateInv => DerivedDataBacked
  BY DEF CreateInv, DerivedInv, DerivedDataBacked
<1>2. QED
  BY <1>1, CreateInvariant, PTL

\* A request owns an object only once it is past its transaction; this does
\* not depend on the counter.
OwnersInv ==
    /\ \A o \in objects : pc[o.owner] \notin Allocating
    /\ OneObjectPerRequest

LEMMA OwnersStep ==
    ASSUME TypeOK, OwnersInv, [Next]_vars
    PROVE  OwnersInv'
<1> USE DEF Allocating, Goto
<1>0. \A o \in objects : o.owner \in Requests
  BY DEF TypeOK, Object
<1>1. ASSUME NEW r \in Requests, CommitTransaction(r) PROVE OwnersInv'
  <2>1. /\ pc[r] = "transact"
        /\ objects' \subseteq objects \union {ObjectOf(r)}
        /\ pc'[r] \in {"index", "error"} /\ \A q \in Requests \ {r} : pc'[q] = pc[q]
    BY <1>1 DEF CommitTransaction, PutInto, TypeOK
  <2>2. \A o \in objects : o.owner # r
    BY <2>1 DEF OwnersInv
  <2>3. ObjectOf(r).owner = r
    BY ObjectOfType
  <2> QED BY <1>0, <2>1, <2>2, <2>3 DEF OwnersInv, OneObjectPerRequest
<1>2. CASE ~ \E r \in Requests : CommitTransaction(r)
  <2>1. objects' = objects
    BY <1>2, ObjectsKept
  <2>2. ASSUME NEW r \in Requests, \/ BeginCreate(r) \/ ReadCurrentId(r) \/ ReadNoItem(r)
                                   \/ SeedCounter(r) \/ CancelTransaction(r) \/ RaiseError(r)
        PROVE  \A q \in Requests : pc[q] \notin Allocating => pc'[q] \notin Allocating
    BY <2>2 DEF TypeOK, BeginCreate, ReadCurrentId, ReadNoItem, SeedCounter, CancelTransaction,
                RaiseError
  <2>3. ASSUME NEW r \in Requests, \/ IndexDocument(r) \/ PresignedPost(r)
                                   \/ ClientUpload(r) \/ Kill(r)
        PROVE  \A q \in Requests : pc[q] \notin Allocating => pc'[q] \notin Allocating
    BY <2>3 DEF TypeOK, IndexDocument, AfterIndex, PresignedPost, ClientUpload, Kill
  <2>4. \A q \in Requests : pc[q] \notin Allocating => pc'[q] \notin Allocating
    BY <1>2, <2>2, <2>3 DEF Next, Step, vars
  <2> QED BY <1>0, <2>1, <2>4 DEF OwnersInv, OneObjectPerRequest
<1>3. QED
  BY <1>1, <1>2

\* One create stores at most one object, however often its attempts are
\* cancelled or their answers lost, and whoever puts the counter back.
THEOREM OneObjectEach == Spec => []OneObjectPerRequest
<1>1. Init => OwnersInv
  BY DEF Init, OwnersInv, OneObjectPerRequest
<1>2. TypeOK /\ OwnersInv /\ [Next]_vars => OwnersInv'
  BY OwnersStep
<1>3. OwnersInv => OneObjectPerRequest
  BY DEF OwnersInv
<1>4. QED
  BY <1>1, <1>2, <1>3, TypeCorrect, PTL DEF Spec

\* No create replaces a stored object, and each new object is numbered above
\* everything stored before it.
THEOREM CreationIsOrdered == Spec => CreateNeverOverwrites /\ NumbersFollowCreation
<1>1. ASSUME TypeOK, rewound \/ CreateInv, [Next]_vars
      PROVE  /\ [~rewound => objects \subseteq objects']_vars
             /\ [~rewound => \A o \in objects' \ objects :
                                \A p \in objects : p.num < o.num]_vars
  <2> SUFFICES ASSUME CreateInv
               PROVE  /\ objects \subseteq objects'
                      /\ \A o \in objects' \ objects : \A p \in objects : p.num < o.num
    BY <1>1
  <2>1. ASSUME NEW r \in Requests, CommitTransaction(r)
        PROVE  /\ objects \subseteq objects'
               /\ \A o \in objects' \ objects : \A p \in objects : p.num < o.num
    BY <1>1, <2>1, CommitAdds, ObjectOfType DEF CreateInv
  <2>2. CASE ~ \E r \in Requests : CommitTransaction(r)
    BY <1>1, <2>2, ObjectsKept
  <2>3. QED
    BY <2>1, <2>2
<1>2. QED
  BY <1>1, CreateInvariant, TypeCorrect, PTL
     DEF Spec, CreateNeverOverwrites, NumbersFollowCreation

\* Once a client's bytes are at an upload key no create's placeholder
\* replaces them.
THEOREM ClientBytesSurvive == Spec => UploadsSurvive
<1>1. ASSUME TypeOK, rewound \/ CreateInv, [Next]_vars
      PROVE  [~rewound => uploads \subseteq uploads']_vars
  <2> SUFFICES ASSUME CreateInv, ~rewound
               PROVE  uploads \subseteq uploads'
    BY <1>1
  <2> USE DEF CreateInv, ObjectsInv, DerivedInv, DerivedDataBacked, s3Vars
  <2>1. ASSUME NEW r \in Requests, PresignedPost(r) PROVE uploads \subseteq uploads'
    <3>1. ObjectOf(r) \in objects /\ ObjectOf(r).owner = r /\ pc[r] = "post"
      BY <1>1, <2>1, ObjectOfType DEF PresignedPost, Goto, AcknowledgedIsStored
    <3>2. ObjectOf(r) \notin uploads
      BY <1>1, <3>1
    <3>3. uploads' = uploads \ {ObjectOf(r)} \/ uploads' = uploads
      BY <1>1, <2>1, <3>1, StoredPut DEF PresignedPost
    <3>4. QED
      BY <3>2, <3>3
  <2>2. ASSUME NEW r \in Requests, ClientUpload(r) PROVE uploads \subseteq uploads'
    <3>1. ObjectOf(r) \in objects
      BY <1>1, <2>2 DEF ClientUpload
    <3>2. uploads' = uploads \union {ObjectOf(r)}
      BY <1>1, <2>2, <3>1, StoredPut DEF ClientUpload
    <3>3. QED
      BY <3>2
  <2>3. ASSUME NEW r \in Requests, \/ BeginCreate(r) \/ ReadCurrentId(r) \/ ReadNoItem(r)
                                   \/ SeedCounter(r) \/ CommitTransaction(r)
                                   \/ CancelTransaction(r) \/ RaiseError(r)
                                   \/ IndexDocument(r) \/ Kill(r)
        PROVE  uploads' = uploads
    BY <2>3 DEF BeginCreate, ReadCurrentId, ReadNoItem, SeedCounter, CommitTransaction,
                CancelTransaction, RaiseError, IndexDocument, Kill
  <2>4. QED
    BY <1>1, <2>1, <2>2, <2>3 DEF Next, Step, vars
<1>2. QED
  BY <1>1, CreateInvariant, TypeCorrect, PTL DEF Spec, UploadsSurvive

-----------------------------------------------------------------------------
\* The numbers issued by the transactions, as the abstract register sees them.
Issued == {[num |-> o.num, owner |-> o.owner] : o \in objects}

Register == INSTANCE IdRegister WITH
    Owners <- Requests, Numbers <- Nat, issued <- Issued, void <- rewound

\* Creation implements the abstract register of issued ids.
THEOREM CreationImplementsRegister == Spec => Register!Spec
<1>1. Init => Register!Init
  BY DEF Init, Register!Init, Issued
<1>2. ASSUME TypeOK, rewound \/ CreateInv, [Next]_vars
      PROVE  [Register!Next]_(Register!vars)
  <2> USE DEF Register!Next, Register!vars
  <2>1. CASE rewound
    BY <1>2, <2>1, RewoundStays DEF Register!Unpromised
  <2>2. ASSUME ~rewound, NEW r \in Requests, CommitTransaction(r) PROVE Register!Issue(r)
    <3>1. /\ cur[r] = counter
          /\ \A o \in objects : o.num < cur[r] /\ o.owner # r
          /\ objects' = objects \union {ObjectOf(r)}
      BY <1>2, <2>2, CommitAdds DEF CreateInv
    <3>2. ObjectOf(r).num = cur[r] /\ ObjectOf(r).owner = r /\ cur[r] \in Nat
      BY <1>2, ObjectOfType DEF TypeOK
    <3>3. Issued' = Issued \union {[num |-> cur[r], owner |-> r]}
      BY <3>1, <3>2 DEF Issued
    <3>4. Register!Fresh(cur[r]) /\ Register!Unserved(r)
      BY <3>1 DEF Issued, Register!Fresh, Register!Unserved
    <3>5. rewound' = rewound
      BY <2>2 DEF CommitTransaction
    <3>6. QED
      BY <2>2, <3>2, <3>3, <3>4, <3>5 DEF Register!Issue
  <2>3. CASE ~rewound /\ ~ \E r \in Requests : CommitTransaction(r)
    <3>1. objects' = objects
      BY <1>2, <2>3, ObjectsKept
    <3>2. Issued' = Issued
      BY <3>1 DEF Issued
    <3>3. rewound = FALSE /\ (rewound' = TRUE \/ rewound' = FALSE)
      BY <1>2, <2>3, RewoundTyped DEF TypeOK
    <3>4. QED
      BY <2>3, <3>2, <3>3 DEF Register!PutBack
  <2>4. QED
    BY <2>1, <2>2, <2>3
<1>3. QED
  BY <1>1, <1>2, CreateInvariant, TypeCorrect, PTL DEF Spec, Register!Spec

-----------------------------------------------------------------------------
\* A stage whose ToshiIdentity item exists before its first create: no read,
\* however stale, misses it, so nothing ever seeds.
SeededInv ==
    /\ counter \in Nat
    /\ replicas \subseteq Nat
    /\ \A r \in Requests : pc[r] # "seed"
    /\ ~rewound

LEMMA SeededStep ==
    ASSUME TypeOK, SeededInv, [Next]_vars
    PROVE  SeededInv'
<1> USE CreationAssumption DEF NoItem, SeededInv, counterVars, s3Vars, localVars
<1>1. ASSUME NEW r \in Requests, BeginCreate(r) \/ ReadCurrentId(r) PROVE SeededInv'
  <2>1. UNCHANGED <<counter, replicas, rewound>>
    BY <1>1 DEF BeginCreate, ReadCurrentId
  <2>2. \E end \in {"error", "read", "transact"} : pc' = [pc EXCEPT ![r] = end]
    BY <1>1 DEF BeginCreate, ReadCurrentId, Goto
  <2>3. \A q \in Requests : pc'[q] # "seed"
    BY <2>2 DEF TypeOK
  <2>4. QED
    BY <2>1, <2>3
<1>2. ASSUME NEW r \in Requests, ReadNoItem(r) \/ SeedCounter(r) PROVE FALSE
  BY <1>2 DEF ReadNoItem, SeedCounter, Goto
<1>3. ASSUME NEW r \in Requests, CommitTransaction(r) PROVE SeededInv'
  BY <1>3 DEF TypeOK, CommitTransaction
<1>4. ASSUME NEW r \in Requests, CancelTransaction(r) \/ RaiseError(r) \/ Kill(r)
      PROVE  SeededInv'
  <2>1. UNCHANGED <<counter, replicas, rewound>>
    BY <1>4 DEF CancelTransaction, RaiseError, Kill
  <2>2. \E end \in {"error", "read", "killed"} : pc' = [pc EXCEPT ![r] = end]
    BY <1>4 DEF CancelTransaction, RaiseError, Kill
  <2>3. \A q \in Requests : pc'[q] # "seed"
    BY <2>2 DEF TypeOK
  <2>4. QED
    BY <2>1, <2>3
<1>5. ASSUME NEW r \in Requests, IndexDocument(r) \/ PresignedPost(r) \/ ClientUpload(r)
      PROVE  SeededInv'
  <2>1. UNCHANGED <<counter, replicas, rewound>>
    BY <1>5 DEF IndexDocument, PresignedPost, ClientUpload
  <2>2. pc' = pc \/ \E end \in {"post", "done"} : pc' = [pc EXCEPT ![r] = end]
    BY <1>5 DEF IndexDocument, AfterIndex, PresignedPost, ClientUpload, Goto
  <2>3. \A q \in Requests : pc'[q] # "seed"
    BY <2>2 DEF TypeOK
  <2>4. QED
    BY <2>1, <2>3
<1>6. CASE UNCHANGED vars
  BY <1>6 DEF vars
<1>7. QED
  BY <1>1, <1>2, <1>3, <1>4, <1>5, <1>6 DEF Next, Step

\* There the counter is never put back, so the numbers are unique for good.
THEOREM SeededIsNeverRewound == Seeded /\ Spec => [](~rewound /\ DistinctNumbers)
<1>1. Seeded /\ Init => SeededInv
  BY CreationAssumption DEF Init, SeededInv
<1>2. TypeOK /\ SeededInv /\ [Next]_vars => SeededInv'
  BY SeededStep
<1>3. SeededInv /\ UniqueNumbers => ~rewound /\ DistinctNumbers
  BY DEF SeededInv, UniqueNumbers
<1>4. QED
  BY <1>1, <1>2, <1>3, TypeCorrect, NumbersUnique, PTL DEF Spec
-----------------------------------------------------------------------------
(* How many calls a create can make. *)

\* Every attempt is at most a get_item, a put_item and a transaction; then
\* come the index and the placeholder.
CallsLeft(r) ==
    CASE pc[r] = "new"      -> 3 * MaxAttempts + 3
      [] pc[r] = "read"     -> 3 * (MaxAttempts - attempt[r]) + 2
      [] pc[r] = "seed"     -> 3 * (MaxAttempts - attempt[r]) + 1
      [] pc[r] = "transact" -> 3 * (MaxAttempts - attempt[r])
      [] pc[r] = "index"    -> 2
      [] pc[r] = "post"     -> 1
      [] OTHER              -> 0

LEMMA CallsLeftType ==
    ASSUME TypeOK, AttemptsLeft, NEW r \in Requests
    PROVE  /\ CallsLeft(r) \in Nat
           /\ CallsLeft(r) = 0 <=> pc[r] \in Ended
           /\ pc[r] = "transact" => CallsLeft(r) > 2
<1>1. pc[r] \in PC /\ attempt[r] \in 0 .. MaxAttempts /\ MaxAttempts \in Nat
  BY CreationAssumption DEF TypeOK
<1>2. pc[r] \in Allocating => attempt[r] < MaxAttempts
  BY DEF AttemptsLeft
<1> QED BY <1>1, <1>2 DEF CallsLeft, PC, Live, Ended, Allocating

\* A step of one create takes it forward, and no other create moves with it.
LEMMA CallsLeftStep ==
    ASSUME TypeOK, AttemptsLeft, NEW r \in Requests,
           BeginCreate(r) \/ Step(r) \/ ClientUpload(r) \/ Kill(r)
    PROVE  /\ CallsLeft(r)' <= CallsLeft(r)
           /\ ~ClientUpload(r) => CallsLeft(r)' < CallsLeft(r)
           /\ \A q \in Requests \ {r} : CallsLeft(q)' = CallsLeft(q)
<1>1. /\ pc[r] \in PC /\ attempt[r] \in 0 .. MaxAttempts /\ MaxAttempts \in Nat
      /\ pc[r] \in Allocating => attempt[r] < MaxAttempts
      /\ DOMAIN pc = Requests /\ DOMAIN attempt = Requests
  BY CreationAssumption DEF TypeOK, AttemptsLeft
<1> DEFINE Forward == /\ CallsLeft(r)' < CallsLeft(r)
                      /\ CallsLeft(r)' <= CallsLeft(r)
                      /\ \A q \in Requests \ {r} : CallsLeft(q)' = CallsLeft(q)
<1>2. CASE BeginCreate(r)
  <2>1. /\ pc[r] = "new" /\ attempt' = attempt
        /\ pc' = [pc EXCEPT ![r] = IF ReadOnly THEN "error" ELSE "read"]
    BY <1>2 DEF BeginCreate, Goto, localVars
  <2>2. Forward
    BY <1>1, <2>1 DEF CallsLeft, Allocating
  <2> QED BY <1>1, <2>2
<1>3. CASE ReadCurrentId(r)
  <2>1. /\ pc[r] = "read" /\ attempt' = attempt /\ pc' = [pc EXCEPT ![r] = "transact"]
    BY <1>3 DEF ReadCurrentId, Goto
  <2>2. Forward
    BY <1>1, <2>1 DEF CallsLeft, Allocating
  <2> QED BY <2>2
<1>4. CASE ReadNoItem(r)
  <2>1. /\ pc[r] = "read" /\ attempt' = attempt /\ pc' = [pc EXCEPT ![r] = "seed"]
    BY <1>4 DEF ReadNoItem, Goto, localVars
  <2>2. Forward
    BY <1>1, <2>1 DEF CallsLeft, Allocating
  <2> QED BY <2>2
<1>5. CASE SeedCounter(r)
  <2>1. /\ pc[r] = "seed" /\ attempt' = attempt /\ pc' = [pc EXCEPT ![r] = "transact"]
    BY <1>5 DEF SeedCounter, Goto
  <2>2. Forward
    BY <1>1, <2>1 DEF CallsLeft, Allocating
  <2> QED BY <2>2
<1>6. CASE CommitTransaction(r)
  <2>1. /\ pc[r] = "transact" /\ attempt' = attempt
        /\ \E end \in {"index", "error"} : pc' = [pc EXCEPT ![r] = end]
    BY <1>6 DEF CommitTransaction, localVars
  <2>2. Forward
    BY <1>1, <2>1 DEF CallsLeft, Allocating
  <2> QED BY <2>2
<1>7. CASE CancelTransaction(r)
  <2>1. /\ pc[r] = "transact" /\ attempt' = [attempt EXCEPT ![r] = attempt[r] + 1]
        /\ \/ /\ attempt[r] + 1 < MaxAttempts
              /\ pc' = [pc EXCEPT ![r] = "read"]
           \/ pc' = [pc EXCEPT ![r] = "error"]
    BY <1>7 DEF CancelTransaction
  <2>2. Forward
    BY <1>1, <2>1 DEF CallsLeft, Allocating
  <2> QED BY <2>2
<1>8. CASE RaiseError(r)
  <2>1. /\ pc[r] \in Allocating \ {"new"} /\ attempt' = attempt
        /\ pc' = [pc EXCEPT ![r] = "error"]
    BY <1>8 DEF RaiseError, Allocating, localVars
  <2>2. Forward
    BY <1>1, <2>1 DEF CallsLeft, Allocating
  <2> QED BY <2>2
<1>9. CASE IndexDocument(r)
  <2>1. /\ pc[r] = "index" /\ attempt' = attempt
        /\ \E end \in {"post", "done"} : pc' = [pc EXCEPT ![r] = end]
    BY <1>9 DEF IndexDocument, Goto, AfterIndex, localVars
  <2>2. Forward
    BY <1>1, <2>1 DEF CallsLeft
  <2> QED BY <2>2
<1>10. CASE PresignedPost(r)
  <2>1. /\ pc[r] = "post" /\ attempt' = attempt /\ pc' = [pc EXCEPT ![r] = "done"]
    BY <1>10 DEF PresignedPost, Goto, localVars
  <2>2. Forward
    BY <1>1, <2>1 DEF CallsLeft
  <2> QED BY <2>2
<1>11. CASE ClientUpload(r)
  <2>1. pc' = pc /\ attempt' = attempt
    BY <1>11 DEF ClientUpload, localVars
  <2>2. \A q \in Requests : CallsLeft(q)' = CallsLeft(q) /\ CallsLeft(q) \in Nat
    BY <2>1, CallsLeftType DEF CallsLeft
  <2> QED BY <1>11, <2>2
<1>12. CASE Kill(r)
  <2>1. /\ pc[r] \in Live /\ attempt' = attempt /\ pc' = [pc EXCEPT ![r] = "killed"]
    BY <1>12 DEF Kill, localVars
  <2>2. Forward
    BY <1>1, <2>1 DEF CallsLeft, Live, Allocating
  <2> QED BY <2>2
<1> QED BY <1>2, <1>3, <1>4, <1>5, <1>6, <1>7, <1>8, <1>9, <1>10, <1>11, <1>12 DEF Step

\* A create makes at most 3 * MaxAttempts + 2 calls, however many others race
\* it: every step of its own uses one up, no step of another adds one, and it
\* has ended when none is left.
THEOREM CallsAreBounded ==
    /\ Init => \A r \in Requests : CallsLeft(r) = 3 * MaxAttempts + 3
    /\ Spec => [](\A r \in Requests :
                     CallsLeft(r) \in Nat /\ (CallsLeft(r) = 0 <=> pc[r] \in Ended))
    /\ Spec => [][\A r \in Requests :
                     /\ CallsLeft(r)' <= CallsLeft(r)
                     /\ Step(r) => CallsLeft(r)' < CallsLeft(r)]_vars
<1> DEFINE Left == \A r \in Requests :
                      CallsLeft(r) \in Nat /\ (CallsLeft(r) = 0 <=> pc[r] \in Ended)
           Fewer == \A r \in Requests :
                      /\ CallsLeft(r)' <= CallsLeft(r)
                      /\ Step(r) => CallsLeft(r)' < CallsLeft(r)
<1>1. Init => \A r \in Requests : CallsLeft(r) = 3 * MaxAttempts + 3
  BY DEF Init, CallsLeft
<1>2. TypeOK /\ AttemptsLeft => Left
  BY CallsLeftType
<1>3. TypeOK /\ AttemptsLeft /\ [Next]_vars => [Fewer]_vars
  <2> SUFFICES ASSUME TypeOK, AttemptsLeft, Next, NEW r \in Requests
               PROVE  /\ CallsLeft(r)' <= CallsLeft(r)
                      /\ Step(r) => CallsLeft(r)' < CallsLeft(r)
    OBVIOUS
  <2>1. CASE Step(r)
    <3>1. ~ClientUpload(r)
      BY <2>1 DEF Step, ClientUpload, ReadCurrentId, ReadNoItem, SeedCounter,
                  CommitTransaction, CancelTransaction, RaiseError, IndexDocument,
                  PresignedPost, Goto
    <3>2. CallsLeft(r)' < CallsLeft(r)
      BY <2>1, <3>1, CallsLeftStep
    <3> QED BY <2>1, <3>2, CallsLeftStep
  <2>2. CASE ~Step(r)
    <3>1. PICK p \in Requests : BeginCreate(p) \/ Step(p) \/ ClientUpload(p) \/ Kill(p)
      BY DEF Next
    <3>2. CASE r = p
      BY <2>2, <3>1, <3>2, CallsLeftStep
    <3>3. CASE r # p
      <4>1. CallsLeft(r)' = CallsLeft(r)
        BY <3>1, <3>3, CallsLeftStep
      <4>2. CallsLeft(r) \in Nat
        BY CallsLeftType
      <4> QED BY <2>2, <4>1, <4>2
    <3> QED BY <3>2, <3>3
  <2> QED BY <2>1, <2>2
<1>4. TypeOK /\ AttemptsLeft /\ [Next]_vars => TypeOK' /\ AttemptsLeft'
  BY TypeStep
<1> QED BY <1>1, <1>2, <1>3, <1>4, TypeInit, PTL DEF Spec
=============================================================================
