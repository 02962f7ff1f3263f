------------------------ MODULE ObjectUpdatesProofs ------------------------
(***************************************************************************)
(* Theorems about ObjectUpdates, for any objects, any number of concurrent *)
(* mutations of any kinds, stale reads and faults: what holds of relations *)
(* and of the index as long as no put has raced; that mutations are then   *)
(* the atomic appends of RecordAppends; and that no put races among        *)
(* mutations that come one at a time.                                      *)
(***************************************************************************)
EXTENDS ObjectUpdates, FiniteSetTheorems, TLAPS

Entries(o) == Current(o).entries

\* A request has a call once it left "idle", and has read an item when it is
\* about to write.
CallsInv ==
    \A r \in Requests :
        /\ pc[r] = "idle" => op[r] = NoCall
        /\ pc[r] # "idle" => op[r] \in Calls
        /\ pc[r] = "write" => buf[r] # Missing
        /\ pc[r] = "write" => op[r].kind # "reindex"
        /\ op[r].kind \notin TwoSided => side[r] = 1

\* Entries are added by requests that were called, and a relation's second
\* side after its first: what each request has stored at each pc.
SidesInv ==
    /\ \A o \in Objects : \A e \in Entries(o) : e.by \in Requests => pc[e.by] # "idle"
    /\ \A r \in Requests : op[r].kind \in TwoSided =>
          /\ pc[r] \in {"read", "write"} /\ side[r] = 2 => FirstSideStored(r)
          /\ pc[r] \in {"fetch", "put", "done"} => FirstSideStored(r) /\ SecondSideStored(r)
          /\ SecondSideStored(r) => FirstSideStored(r)

\* Everything a request may still index is held by the object.
DocumentsInv ==
    /\ \A o \in Objects : index[o] \subseteq Entries(o)
    /\ \A o \in Objects : replica[o].entries \subseteq Entries(o)
    /\ \A o \in Objects : S3Item(o).entries \subseteq Entries(o)
    /\ \A r \in Requests : pc[r] = "put" => buf[r].entries \subseteq Entries(Target(r))

UpdatesInv == races = {} => SidesInv /\ DocumentsInv

-----------------------------------------------------------------------------
LEMMA CallsType ==
    ASSUME NEW c \in Calls
    PROVE  /\ c \in Ops
           /\ c.first \in Objects /\ c.second \in Objects
           /\ c.kind \in AllKinds
           /\ c.kind = "update" => c.first \in Things
BY UpdatesAssumption DEF Calls, Ops, Objects, AllKinds

LEMMA EntryType ==
    ASSUME NEW r \in Requests, NEW s \in {1, 2}
    PROVE  EntryOn(r, s) \in Entry /\ EntryOn(r, s).by = r
BY DEF EntryOn, PartOn, Entry, Parts

\* The two entries of a relation are different.
LEMMA SidesDiffer ==
    ASSUME NEW r \in Requests, op[r].kind \in TwoSided
    PROVE  EntryOn(r, 1).part # EntryOn(r, 2).part
<1>1. PartOn(op[r], 1) # PartOn(op[r], 2)
  <2>1. CASE op[r].kind = "fileRelation"
    <3>1. PartOn(op[r], 1) = "files" /\ PartOn(op[r], 2) = "relations"
      BY <2>1 DEF PartOn
    <3>2. QED
      BY <3>1
  <2>2. CASE op[r].kind = "taskRelation"
    <3>1. PartOn(op[r], 1) = "children" /\ PartOn(op[r], 2) = "parents"
      BY <2>2 DEF PartOn
    <3>2. QED
      BY <3>1
  <2>3. QED
    BY <2>1, <2>2 DEF TwoSided
<1>2. QED
  BY <1>1 DEF EntryOn

LEMMA TargetType ==
    ASSUME TypeOK, CallsInv, NEW r \in Requests, pc[r] # "idle"
    PROVE  Target(r) \in Objects
BY CallsType DEF CallsInv, Target

\* Every mutation keeps what it read and adds one entry.
LEMMA PatchedAdds ==
    ASSUME TypeOK, CallsInv, NEW r \in Requests, pc[r] = "write"
    PROVE  /\ Patched(r) \in Item
           /\ Patched(r).entries = buf[r].entries \union {EntryOn(r, side[r])}
           /\ Patched(r) # Missing
<1> DEFINE added == buf[r].entries \union {EntryOn(r, side[r])}
<1>1. buf[r] \in Item /\ side[r] \in {1, 2} /\ Target(r) \in Objects
  BY TargetType DEF TypeOK, CallsInv
<1>2. EntryOn(r, side[r]) \in Entry
  BY <1>1, EntryType
<1>3. added \in SUBSET Entry /\ buf[r].type \in Types /\ buf[r].packed \in BOOLEAN
  BY <1>1, <1>2 DEF Item
<1>4. Clazz[Target(r)] \in Types /\ "InversionSolution" \in Types
  BY <1>1 DEF Types
<1>5. (Cardinality(Relations(added)) > Limit) \in BOOLEAN
  OBVIOUS
<1> HIDE DEF added
<1>6. ASSUME NEW t \in Types, NEW p \in BOOLEAN
      PROVE  [type |-> t, entries |-> added, packed |-> p] \in Item
  BY <1>3 DEF Item
<1>7. \E t \in Types, p \in BOOLEAN : Patched(r) = [type |-> t, entries |-> added, packed |-> p]
  <2>1. CASE op[r].kind = "update"
    BY <2>1, <1>3, <1>4 DEF Patched, added
  <2>2. CASE op[r].kind = "appendTables"
    BY <2>2, <1>4 DEF Patched, added
  <2>3. CASE op[r].kind = "fileRelation" /\ side[r] = 2
    BY <2>3, <1>3, <1>5 DEF Patched, added
  <2>4. CASE /\ op[r].kind # "update" /\ op[r].kind # "appendTables"
             /\ ~(op[r].kind = "fileRelation" /\ side[r] = 2)
    BY <2>4, <1>3 DEF Patched, added
  <2>5. QED
    BY <2>1, <2>2, <2>3, <2>4
<1>8. Patched(r).entries = added /\ Patched(r) \in Item
  BY <1>6, <1>7
<1>9. Patched(r).entries # {}
  BY <1>8 DEF added
<1>10. QED
  BY <1>8, <1>9 DEF added, Missing

-----------------------------------------------------------------------------
LEMMA OldItemType ==
    ASSUME NEW o \in Objects
    PROVE  OldItem(o) \in Item
BY DEF OldItem, Item, Types, Entry, Parts

LEMMA AnswerType ==
    ASSUME TypeOK, NEW o \in Objects, NEW answer \in Answers(o)
    PROVE  /\ answer \in Item \union {Missing}
           /\ S3Item(o) \in Item \union {Missing}
BY OldItemType DEF TypeOK, Answers, S3Item

LEMMA InitTypes ==
    ASSUME Init
    PROVE  TypeOK /\ CallsInv
<1>1. table \in [Objects -> Item \union {Missing}]
  BY OldItemType DEF Init
<1>2. index \in [Objects -> SUBSET Entry]
  <2>1. \A o \in Objects : table[o].entries \in SUBSET Entry
    BY <1>1 DEF Item, Missing
  <2>2. \A o \in Objects :
            (IF Indexable(o) THEN table[o].entries ELSE {}) \in SUBSET Entry
    BY <2>1
  <2>3. QED
    BY <2>2 DEF Init
<1>3. TypeOK
  BY <1>1, <1>2 DEF Init, TypeOK
<1>4. CallsInv
  BY DEF Init, CallsInv
<1>5. QED
  BY <1>3, <1>4

\* The type invariant and CallsInv are inductive together: one step per action.
LEMMA TypeStep ==
    ASSUME TypeOK, CallsInv, [Next]_vars
    PROVE  TypeOK' /\ CallsInv'
<1> USE DEF Active, Ended
<1>1. ASSUME NEW r \in Requests, Call(r) PROVE TypeOK' /\ CallsInv'
  <2>1. PICK c \in Calls :
           /\ op' = [op EXCEPT ![r] = c]
           /\ pc' = [pc EXCEPT ![r] =
                       IF ReadOnly /\ c.kind \in Guarded THEN "error"
                       ELSE IF c.kind = "reindex" THEN "fetch" ELSE "read"]
    BY <1>1 DEF Call
  <2>2. c \in Ops
    BY CallsType
  <2>3. side[r] = 1
    BY <1>1 DEF Call, CallsInv, NoCall, TwoSided
  <2>4. QED
    BY <1>1, <2>1, <2>2, <2>3 DEF Call, TypeOK, CallsInv
<1>2. ASSUME NEW r \in Requests, ReadForPatch(r) PROVE TypeOK' /\ CallsInv'
  <2>1. Target(r) \in Objects
    BY <1>2, TargetType DEF ReadForPatch
  <2>2. QED
    BY <1>2, <2>1, AnswerType DEF ReadForPatch, TypeOK, CallsInv, TwoSided
<1>3. ASSUME NEW r \in Requests, ReadForUpdate(r) PROVE TypeOK' /\ CallsInv'
  <2>1. Target(r) \in Objects
    BY <1>3, TargetType DEF ReadForUpdate
  <2>2. PICK item \in Item \union {Missing} :
           /\ buf' = [buf EXCEPT ![r] = item]
           /\ pc' = [pc EXCEPT ![r] = IF item = Missing THEN "none" ELSE "write"]
    BY <1>3, <2>1, AnswerType DEF ReadForUpdate
  <2>3. QED
    BY <1>3, <2>2 DEF ReadForUpdate, TypeOK, CallsInv
<1>4. ASSUME NEW r \in Requests, WriteItem(r) PROVE TypeOK' /\ CallsInv'
  <2>1. Target(r) \in Objects /\ Patched(r) \in Item
    BY <1>4, TargetType, PatchedAdds DEF WriteItem
  <2>2. 3 - side[r] \in {1, 2}
    BY DEF TypeOK
  <2>3. AfterWrite(r) \in {"read", "fetch", "put", "done"}
    BY DEF AfterWrite
  <2>4. QED
    BY <1>4, <2>1, <2>2, <2>3 DEF WriteItem, TypeOK, CallsInv
<1>5. ASSUME NEW r \in Requests, FetchForIndex(r) PROVE TypeOK' /\ CallsInv'
  <2>1. Target(r) \in Objects
    BY <1>5, TargetType DEF FetchForIndex
  <2>2. /\ AfterPut(r) \in {"fetch", "done"} /\ SideAfterPut(r) \in {1, 2}
        /\ op[r].kind \notin TwoSided => SideAfterPut(r) = 1
    BY DEF AfterPut, SideAfterPut, TypeOK, CallsInv
  <2>3. \/ \E item \in Item \union {Missing} :
              buf' = [buf EXCEPT ![r] = item] /\ pc' = [pc EXCEPT ![r] = "put"] /\ UNCHANGED side
        \/ /\ pc' = [pc EXCEPT ![r] = AfterPut(r)]
           /\ side' = [side EXCEPT ![r] = SideAfterPut(r)]
           /\ UNCHANGED buf
    BY <1>5, <2>1, AnswerType DEF FetchForIndex
  <2>4. QED
    BY <1>5, <2>2, <2>3 DEF FetchForIndex, TypeOK, CallsInv
<1>6. ASSUME NEW r \in Requests, PutDocument(r) PROVE TypeOK' /\ CallsInv'
  <2>1. /\ AfterPut(r) \in {"fetch", "done"} /\ SideAfterPut(r) \in {1, 2}
        /\ op[r].kind \notin TwoSided => SideAfterPut(r) = 1
    BY DEF AfterPut, SideAfterPut, TypeOK, CallsInv
  <2>2. buf[r].entries \subseteq Entry
    BY DEF TypeOK, Item, Missing
  <2>3. index' \in [Objects -> SUBSET Entry]
    BY <1>6, <2>2 DEF PutDocument, TypeOK
  <2>4. QED
    BY <1>6, <2>1, <2>3 DEF PutDocument, TypeOK, CallsInv
<1>7. ASSUME NEW r \in Requests, Fail(r) PROVE TypeOK' /\ CallsInv'
  BY <1>7 DEF Fail, TypeOK, CallsInv
<1>8. CASE UNCHANGED vars
  BY <1>8 DEF vars, TypeOK, CallsInv
<1>9. QED
  BY <1>1, <1>2, <1>3, <1>4, <1>5, <1>6, <1>7, <1>8 DEF Next

\* Every reachable state of every instance has the types of TypeOK.
THEOREM TypeCorrect == Spec => [](TypeOK /\ CallsInv)
<1>1. Init => TypeOK /\ CallsInv
  BY InitTypes
<1>2. TypeOK /\ CallsInv /\ [Next]_vars => TypeOK' /\ CallsInv'
  BY TypeStep
<1>3. QED
  BY <1>1, <1>2, PTL DEF Spec

-----------------------------------------------------------------------------
\* A put that is no race adds its entry and changes nothing else.
LEMMA WriteAdds ==
    ASSUME TypeOK, CallsInv, NEW r \in Requests, WriteItem(r), races' = {},
           NEW t, t = Target(r)
    PROVE  /\ races = {}
           /\ t \in Objects
           /\ Entries(t)' = Entries(t) \union {EntryOn(r, side[r])}
           /\ Patched(r).entries = Entries(t)'
           /\ \A o \in Objects \ {t} : Entries(o)' = Entries(o)
<1>1. t \in Objects /\ Patched(r) # Missing
  BY TargetType, PatchedAdds DEF WriteItem
<1>2. races = {} /\ Current(t) = buf[r]
  BY DEF WriteItem
<1>3. table'[t] = Patched(r) /\ \A o \in Objects \ {t} : table'[o] = table[o]
  BY <1>1 DEF WriteItem, TypeOK
<1>4. Current(t)' = Patched(r)
  BY <1>1, <1>3 DEF Current
<1>5. \A o \in Objects \ {t} : Entries(o)' = Entries(o)
  BY <1>3 DEF Entries, Current
<1>6. QED
  BY <1>1, <1>2, <1>4, <1>5, PatchedAdds DEF Entries, WriteItem

\* Without races objects only grow, by the entry of the one request that puts.
LEMMA ObjectsGrow ==
    ASSUME TypeOK, CallsInv, [Next]_vars, races' = {}
    PROVE  /\ races = {}
           /\ \A o \in Objects : Entries(o) \subseteq Entries(o)'
           /\ \A o \in Objects : \A e \in Entries(o)' :
                 \/ e \in Entries(o)
                 \/ \E r \in Requests : WriteItem(r) /\ e = EntryOn(r, side[r])
<1>1. CASE \E r \in Requests : WriteItem(r)
  <2>1. PICK r \in Requests : WriteItem(r)
    BY <1>1
  <2>2. PICK t : t = Target(r)
    OBVIOUS
  <2>3. QED
    BY <2>1, <2>2, WriteAdds
<1>2. CASE ~ \E r \in Requests : WriteItem(r)
  <2>1. UNCHANGED <<table, races>>
    BY <1>2 DEF Next, vars, Call, ReadForPatch, ReadForUpdate, FetchForIndex, PutDocument, Fail
  <2>2. \A o \in Objects : Entries(o)' = Entries(o)
    BY <2>1 DEF Entries, Current
  <2>3. QED
    BY <2>1, <2>2
<1>3. QED
  BY <1>1, <1>2

\* The call of a request never changes once it is made.
LEMMA CallsStay ==
    ASSUME TypeOK, CallsInv, [Next]_vars, NEW r \in Requests, pc[r] # "idle"
    PROVE  op'[r] = op[r] /\ pc'[r] # "idle"
<1>1. CASE UNCHANGED vars
  BY <1>1 DEF vars
<1>2. ASSUME NEW q \in Requests, Call(q)
      PROVE  op'[r] = op[r] /\ pc'[r] # "idle"
  BY <1>2 DEF Call, TypeOK
<1>3. ASSUME NEW q \in Requests, ReadForPatch(q) \/ ReadForUpdate(q)
      PROVE  op'[r] = op[r] /\ pc'[r] # "idle"
  BY <1>3 DEF ReadForPatch, ReadForUpdate, TypeOK
<1>4. ASSUME NEW q \in Requests, WriteItem(q)
      PROVE  op'[r] = op[r] /\ pc'[r] # "idle"
  BY <1>4 DEF WriteItem, TypeOK, AfterWrite
<1>5. ASSUME NEW q \in Requests, FetchForIndex(q) \/ PutDocument(q)
      PROVE  op'[r] = op[r] /\ pc'[r] # "idle"
  BY <1>5 DEF FetchForIndex, PutDocument, TypeOK, AfterPut
<1>6. ASSUME NEW q \in Requests, Fail(q)
      PROVE  op'[r] = op[r] /\ pc'[r] # "idle"
  BY <1>6 DEF Fail, TypeOK
<1>7. QED
  BY <1>1, <1>2, <1>3, <1>4, <1>5, <1>6 DEF Next

LEMMA InitInvariant ==
    ASSUME Init
    PROVE  UpdatesInv
<1>1. ASSUME NEW o \in Objects
      PROVE  /\ table[o] = Missing \/ table[o] = OldItem(o)
             /\ Entries(o) \subseteq {[part |-> "base", by |-> Origin]}
             /\ table[o].entries \subseteq Entries(o)
             /\ S3Item(o).entries \subseteq Entries(o)
  <2>1. table[o] = IF o \in InS3 \union Absent THEN Missing ELSE OldItem(o)
    BY DEF Init
  <2>2. OldItem(o) # Missing
    BY DEF OldItem, Missing
  <2>3. Missing.entries = {} /\ OldItem(o).entries = {[part |-> "base", by |-> Origin]}
    BY DEF Missing, OldItem
  <2>4. QED
    BY <2>1, <2>2, <2>3, UpdatesAssumption DEF Entries, Current, S3Item
<1>2. DocumentsInv
  <2>1. \A o \in Objects : index[o] \subseteq table[o].entries
    BY DEF Init
  <2>2. QED
    BY <1>1, <2>1 DEF Init, DocumentsInv
<1>3. SidesInv
  <2>1. \A o \in Objects : \A e \in Entries(o) : e.by \notin Requests
    BY <1>1, UpdatesAssumption
  <2>2. \A r \in Requests : op[r].kind \notin TwoSided
    BY DEF Init, NoCall, TwoSided
  <2>3. QED
    BY <2>1, <2>2 DEF SidesInv
<1>4. QED
  BY <1>2, <1>3 DEF UpdatesInv

-----------------------------------------------------------------------------
\* How a step moves a relation mutation that has been called.
LEMMA Phases ==
    ASSUME TypeOK, CallsInv, [Next]_vars, NEW r \in Requests, pc[r] # "idle",
           op[r].kind \in TwoSided
    PROVE  \/ pc'[r] = pc[r] /\ side'[r] = side[r]
           \/ pc[r] = "read" /\ pc'[r] \in {"write", "error"} /\ side'[r] = side[r]
           \/ WriteItem(r) /\ side[r] = 1 /\ pc'[r] = "read"
           \/ WriteItem(r) /\ side[r] = 2 /\ pc'[r] = "fetch" /\ side'[r] = 1
           \/ pc[r] \in {"fetch", "put"} /\ pc'[r] \in {"fetch", "put", "done"}
           \/ pc'[r] \in {"error", "killed"}
<1>1. CASE WriteItem(r)
  <2>1. side[r] \in {1, 2}
    BY DEF TypeOK
  <2>2. AfterWrite(r) = IF side[r] = 1 THEN "read" ELSE "fetch"
    BY DEF AfterWrite, TwoSided
  <2>3. pc'[r] = AfterWrite(r) /\ side'[r] = 3 - side[r]
    BY <1>1 DEF WriteItem, TypeOK
  <2>4. QED
    BY <1>1, <2>1, <2>2, <2>3
<1>2. CASE ReadForPatch(r)
  BY <1>2 DEF ReadForPatch, TypeOK
<1>3. CASE FetchForIndex(r) \/ PutDocument(r)
  <2>1. pc[r] \in {"fetch", "put"} /\ AfterPut(r) \in {"fetch", "done"}
    BY <1>3 DEF FetchForIndex, PutDocument, AfterPut
  <2>2. pc'[r] \in {"put", AfterPut(r)}
    BY <1>3 DEF FetchForIndex, PutDocument, TypeOK
  <2>3. QED
    BY <2>1, <2>2
<1>4. CASE Fail(r)
  BY <1>4 DEF Fail, TypeOK
<1>5. CASE \/ \E q \in Requests \ {r} : \/ Call(q) \/ ReadForPatch(q) \/ ReadForUpdate(q)
                                     \/ WriteItem(q) \/ FetchForIndex(q) \/ PutDocument(q)
                                     \/ Fail(q)
           \/ UNCHANGED vars
  <2>1. CASE UNCHANGED vars
    BY <2>1 DEF vars
  <2>2. ASSUME NEW q \in Requests \ {r},
               \/ Call(q) \/ ReadForPatch(q) \/ ReadForUpdate(q) \/ WriteItem(q)
               \/ FetchForIndex(q) \/ PutDocument(q) \/ Fail(q)
        PROVE  pc'[r] = pc[r] /\ side'[r] = side[r]
    BY <2>2 DEF Call, ReadForPatch, ReadForUpdate, WriteItem, FetchForIndex, PutDocument, Fail, TypeOK
  <2>3. QED
    BY <1>5, <2>1, <2>2
<1>6. ~ Call(r) /\ ~ ReadForUpdate(r)
  BY DEF Call, ReadForUpdate, TwoSided
<1>7. QED
  BY <1>1, <1>2, <1>3, <1>4, <1>5, <1>6 DEF Next

\* What the entries of a request say of it is preserved by every step.
LEMMA SidesStep ==
    ASSUME TypeOK, CallsInv, SidesInv, [Next]_vars, races' = {}
    PROVE  SidesInv'
<1> USE DEF Active, Ended
<1>1. \A o \in Objects : \A e \in Entries(o)' : e.by \in Requests => pc'[e.by] # "idle"
  <2>1. ASSUME NEW o \in Objects, NEW e \in Entries(o)', e.by \in Requests
        PROVE  pc[e.by] # "idle"
    <3>1. CASE e \in Entries(o)
      BY <3>1, <2>1 DEF SidesInv
    <3>2. CASE \E r \in Requests : WriteItem(r) /\ e = EntryOn(r, side[r])
      BY <3>2, EntryType DEF WriteItem, TypeOK
    <3>3. QED
      BY <3>1, <3>2, ObjectsGrow
  <2>2. QED
    BY <2>1, CallsStay
<1>2. ASSUME NEW r \in Requests, op'[r].kind \in TwoSided
      PROVE  /\ pc'[r] \in {"read", "write"} /\ side'[r] = 2 => FirstSideStored(r)'
             /\ pc'[r] \in {"fetch", "put", "done"} => FirstSideStored(r)' /\ SecondSideStored(r)'
             /\ SecondSideStored(r)' => FirstSideStored(r)'
  <2>1. CASE pc[r] = "idle"
    <3>1. op[r].kind \notin TwoSided
      BY <2>1 DEF CallsInv, NoCall, TwoSided
    <3>2. Call(r)
      BY <1>2, <2>1, <3>1 DEF Next, vars, Call, ReadForPatch, ReadForUpdate, WriteItem, FetchForIndex,
           PutDocument, Fail, TypeOK
    <3>3. side'[r] = 1 /\ pc'[r] \in {"read", "error"}
      BY <1>2, <3>1, <3>2 DEF Call, TypeOK, CallsInv, TwoSided
    <3>4. \A o \in Objects : Entries(o)' = Entries(o)
      BY <3>2 DEF Call, Entries, Current
    <3>5. op'[r] \in Calls
      BY <3>2 DEF Call, TypeOK
    <3>6. PICK s \in Objects : s = op'[r].second
      BY <3>5, CallsType
    <3>7. ~ SecondSideStored(r)'
      <4>1. SUFFICES ASSUME SecondSideStored(r)' PROVE FALSE
        OBVIOUS
      <4>2. EntryOn(r, 2)' \in Entries(s)'
        BY <4>1, <3>6 DEF SecondSideStored, Entries
      <4>3. PICK e \in Entries(s) : e.by = r
        BY <4>2, <3>4 DEF EntryOn
      <4>4. QED
        BY <4>3, <2>1 DEF SidesInv
    <3>8. QED
      BY <3>3, <3>7
  <2>2. CASE pc[r] # "idle"
    <3>1. op'[r] = op[r] /\ op[r] \in Calls
      BY <2>2, CallsStay DEF CallsInv
    <3>2. PICK f \in Objects, s \in Objects : f = op[r].first /\ s = op[r].second
      BY <3>1, CallsType
    <3>3. PICK a, b : a = EntryOn(r, 1) /\ b = EntryOn(r, 2)
      OBVIOUS
    <3>4. EntryOn(r, 1)' = a /\ EntryOn(r, 2)' = b
      BY <3>1, <3>3 DEF EntryOn
    <3>5. /\ FirstSideStored(r) <=> a \in Entries(f)
          /\ FirstSideStored(r)' <=> a \in Entries(f)'
          /\ SecondSideStored(r) <=> b \in Entries(s)
          /\ SecondSideStored(r)' <=> b \in Entries(s)'
      BY <3>1, <3>2, <3>3, <3>4 DEF FirstSideStored, SecondSideStored, Entries
    <3>6. ASSUME WriteItem(r), side[r] = 1 PROVE FirstSideStored(r)'
      <4>1. f = Target(r)
        BY <3>2, <3>6 DEF Target
      <4>2. QED
        BY <4>1, <3>3, <3>5, <3>6, WriteAdds
    <3>7. ASSUME WriteItem(r), side[r] = 2 PROVE FirstSideStored(r) /\ SecondSideStored(r)'
      <4>1. s = Target(r)
        BY <3>2, <3>7 DEF Target
      <4>2. QED
        BY <4>1, <1>2, <3>1, <3>3, <3>5, <3>7, WriteAdds DEF SidesInv, WriteItem
    <3>8. FirstSideStored(r) => FirstSideStored(r)'
      BY <3>5, ObjectsGrow
    <3>9. SecondSideStored(r) => SecondSideStored(r)'
      BY <3>5, ObjectsGrow
    <3>10. SecondSideStored(r)' => SecondSideStored(r) \/ (WriteItem(r) /\ side[r] = 2)
      <4>1. SUFFICES ASSUME b \in Entries(s)', b \notin Entries(s)
                     PROVE  WriteItem(r) /\ side[r] = 2
        BY <3>5
      <4>2. PICK q \in Requests : WriteItem(q) /\ b = EntryOn(q, side[q])
        BY <4>1, ObjectsGrow
      <4>3. q = r
        BY <4>2, <3>3 DEF EntryOn
      <4>4. side[r] # 1
        BY <4>2, <4>3, <3>1, <3>3, <1>2, SidesDiffer
      <4>5. QED
        BY <4>2, <4>3, <4>4 DEF TypeOK
    <3>11. SecondSideStored(r)' => FirstSideStored(r)'
      BY <1>2, <3>1, <3>7, <3>8, <3>10 DEF SidesInv
    <3>12. QED
      BY <1>2, <2>2, <3>1, <3>6, <3>7, <3>8, <3>9, <3>11, Phases DEF SidesInv
  <2>3. QED
    BY <2>1, <2>2
<1>3. QED
  BY <1>1, <1>2 DEF SidesInv

\* Whatever a search document, a replica or a request about to index shows
\* stays in its object.
LEMMA DocumentsStep ==
    ASSUME TypeOK, CallsInv, DocumentsInv, [Next]_vars, races' = {}
    PROVE  DocumentsInv'
<1> USE DEF Active, Ended
<1>1. ASSUME NEW o \in Objects
      PROVE  replica'[o].entries \subseteq Entries(o)'
  <2>1. replica'[o] = replica[o] \/ replica'[o] = table[o]
    <3>1. CASE \E r \in Requests : WriteItem(r)
      BY <3>1 DEF WriteItem, TypeOK
    <3>2. CASE ~ \E r \in Requests : WriteItem(r)
      BY <3>2 DEF Next, vars, Call, ReadForPatch, ReadForUpdate, FetchForIndex, PutDocument, Fail
    <3>3. QED
      BY <3>1, <3>2
  <2>2. table[o].entries \subseteq Entries(o)
    BY DEF Entries, Current, Missing
  <2>3. QED
    BY <2>1, <2>2, ObjectsGrow DEF DocumentsInv
<1>2. ASSUME NEW o \in Objects
      PROVE  S3Item(o)'.entries \subseteq Entries(o)'
  BY ObjectsGrow DEF DocumentsInv, S3Item
<1>3. ASSUME NEW o \in Objects
      PROVE  index'[o] \subseteq Entries(o)'
  <2>1. CASE \E r \in Requests : PutDocument(r)
    <3>1. PICK r \in Requests : PutDocument(r)
      BY <2>1
    <3>2. PICK t \in Objects : t = Target(r)
      BY <3>1, TargetType DEF PutDocument
    <3>3. buf[r].entries \subseteq Entries(t)
      BY <3>1, <3>2 DEF PutDocument, DocumentsInv
    <3>4. index'[o] = index[o] \/ (o = t /\ index'[o] = buf[r].entries)
      BY <3>1, <3>2 DEF PutDocument, TypeOK
    <3>5. QED
      BY <3>3, <3>4, ObjectsGrow DEF DocumentsInv
  <2>2. CASE ~ \E r \in Requests : PutDocument(r)
    <3>1. UNCHANGED index
      BY <2>2 DEF Next, vars, Call, ReadForPatch, ReadForUpdate, WriteItem, FetchForIndex, Fail
    <3>2. QED
      BY <3>1, ObjectsGrow DEF DocumentsInv
  <2>3. QED
    BY <2>1, <2>2
<1>4. ASSUME NEW r \in Requests, pc'[r] = "put"
      PROVE  buf'[r].entries \subseteq Entries(Target(r))'
  <2>1. CASE FetchForIndex(r)
    <3>1. PICK t \in Objects : t = Target(r)
      BY <2>1, TargetType DEF FetchForIndex
    <3>2. PICK item \in Answers(t) \union {S3Item(t)} : buf'[r] = item /\ UNCHANGED side
      BY <1>4, <2>1, <3>1 DEF FetchForIndex, TypeOK, AfterPut
    <3>3. item.entries \subseteq Entries(t)
      BY <3>2 DEF Answers, DocumentsInv, Entries, Current, Missing
    <3>4. Target(r)' = t
      BY <2>1, <3>1, <3>2 DEF FetchForIndex, Target
    <3>5. QED
      BY <3>2, <3>3, <3>4, ObjectsGrow
  <2>2. CASE WriteItem(r)
    <3>1. PICK t : t = Target(r)
      OBVIOUS
    <3>2. op[r].kind \notin TwoSided
      <4>1. SUFFICES ASSUME op[r].kind \in TwoSided PROVE FALSE
        OBVIOUS
      <4>2. AfterWrite(r) # "put"
        BY <4>1 DEF AfterWrite, TwoSided
      <4>3. QED
        BY <1>4, <2>2, <4>2 DEF WriteItem, TypeOK
    <3>3. UNCHANGED <<op, side>> /\ buf'[r] = Patched(r)
      BY <2>2, <3>2 DEF WriteItem, TypeOK
    <3>4. Target(r)' = t
      BY <3>1, <3>3 DEF Target
    <3>5. QED
      BY <2>2, <3>1, <3>3, <3>4, WriteAdds
  <2>3. CASE ~ FetchForIndex(r) /\ ~ WriteItem(r)
    <3>1. pc[r] = "put" /\ buf'[r] = buf[r] /\ side'[r] = side[r] /\ op'[r] = op[r]
      <4>1. CASE UNCHANGED vars
        BY <1>4, <4>1 DEF vars
      <4>2. ASSUME NEW q \in Requests \ {r},
                   \/ Call(q) \/ ReadForPatch(q) \/ ReadForUpdate(q) \/ WriteItem(q)
                   \/ FetchForIndex(q) \/ PutDocument(q) \/ Fail(q)
            PROVE  pc'[r] = pc[r] /\ buf'[r] = buf[r] /\ side'[r] = side[r] /\ op'[r] = op[r]
        BY <4>2 DEF Call, ReadForPatch, ReadForUpdate, WriteItem, FetchForIndex, PutDocument, Fail,
             TypeOK
      <4>3. ~ Call(r) /\ ~ ReadForPatch(r) /\ ~ ReadForUpdate(r) /\ ~ PutDocument(r) /\ ~ Fail(r)
        BY <1>4 DEF Call, ReadForPatch, ReadForUpdate, PutDocument, Fail, TypeOK, AfterPut
      <4>4. QED
        BY <1>4, <2>3, <4>1, <4>2, <4>3 DEF Next
    <3>2. PICK t \in Objects : t = Target(r)
      BY <3>1, TargetType
    <3>3. Target(r)' = t
      BY <3>1, <3>2 DEF Target
    <3>4. QED
      BY <3>1, <3>2, <3>3, ObjectsGrow DEF DocumentsInv
  <2>4. QED
    BY <2>1, <2>2, <2>3
<1>5. QED
  BY <1>1, <1>2, <1>3, <1>4 DEF DocumentsInv

\* What holds as long as no put has raced, in every reachable state.
THEOREM UpdatesInvariant == Spec => []UpdatesInv
<1>1. Init => UpdatesInv
  BY InitInvariant
<1>2. TypeOK /\ CallsInv /\ UpdatesInv /\ [Next]_vars => UpdatesInv'
  <2>1. SUFFICES ASSUME TypeOK, CallsInv, UpdatesInv, [Next]_vars, races' = {}
                 PROVE  SidesInv' /\ DocumentsInv'
    BY DEF UpdatesInv
  <2>2. races = {}
    BY <2>1, ObjectsGrow
  <2>3. QED
    BY <2>1, <2>2, SidesStep, DocumentsStep DEF UpdatesInv
<1>3. QED
  BY <1>1, <1>2, TypeCorrect, PTL DEF Spec

\* As long as no put has raced, a relation that was acknowledged is on both
\* of its records, whatever other mutations, faults and stale reads did.
THEOREM RaceFreeRelations == Spec => []RaceFreeOnBothRecords
<1>1. UpdatesInv => RaceFreeOnBothRecords
  BY DEF UpdatesInv, SidesInv, RaceFreeOnBothRecords, AcknowledgedOnBothRecords, RelationDone
<1>2. QED
  BY <1>1, UpdatesInvariant, PTL

\* As long as no put has raced, a relation found on its second record is on
\* its first one, for mutations that failed or were killed too.
THEOREM SecondSidesBacked == Spec => []SecondSideBacked
<1>1. UpdatesInv => SecondSideBacked
  BY DEF UpdatesInv, SidesInv, SecondSideBacked
<1>2. QED
  BY <1>1, UpdatesInvariant, PTL

\* As long as no put has raced, search shows nothing its object lacks.
THEOREM DocumentsBacked == Spec => []IndexBacked
<1>1. UpdatesInv => IndexBacked
  BY DEF UpdatesInv, DocumentsInv, IndexBacked, Entries
<1>2. QED
  BY <1>1, UpdatesInvariant, PTL

-----------------------------------------------------------------------------
(* Mutations as the atomic appends of RecordAppends. *)

\* The parts a request has written to, in whatever object.
PartsBy(r) == {e.part : e \in {f \in UNION {Entries(o) : o \in Objects} : f.by = r}}

\* What a request that has still to put has written: nothing, or, before the
\* second side of a relation, the first.
PartsInv ==
    \A r \in Requests :
        pc[r] \in {"idle", "read", "write"} =>
            PartsBy(r) = IF side[r] = 1 THEN {} ELSE {PartOn(op[r], 1)}

LEMMA PartsByIs ==
    ASSUME NEW r
    PROVE  \A p : p \in PartsBy(r) <=> \E o \in Objects : \E e \in Entries(o) : e.by = r /\ e.part = p
BY DEF PartsBy

\* The mapped content is read as the entries are.
LEMMA WrittenIsParts ==
    ASSUME NEW r
    PROVE  /\ Appends!WrittenBy(r) = PartsBy(r)
           /\ Appends!WrittenBy(r)' = PartsBy(r)'
BY DEF Appends!WrittenBy, PartsBy, Entries

\* Only its own puts add to what a request has written.
LEMMA PartsOfOthers ==
    ASSUME TypeOK, CallsInv, [Next]_vars, races' = {}, NEW r \in Requests, ~ WriteItem(r)
    PROVE  PartsBy(r)' = PartsBy(r)
<1>1. ASSUME NEW o \in Objects, NEW e, e.by = r
      PROVE  e \in Entries(o)' <=> e \in Entries(o)
  BY <1>1, ObjectsGrow DEF EntryOn
<1>2. QED
  BY <1>1 DEF PartsBy

\* A put that is no race adds the part of the request's side.
LEMMA PartsOfWriter ==
    ASSUME TypeOK, CallsInv, races' = {}, NEW r \in Requests, WriteItem(r)
    PROVE  PartsBy(r)' = PartsBy(r) \union {PartOn(op[r], side[r])}
<1>1. PICK t : t = Target(r)
  OBVIOUS
<1>2. PICK a : a = EntryOn(r, side[r])
  OBVIOUS
<1>3. /\ t \in Objects
      /\ Entries(t)' = Entries(t) \union {a}
      /\ \A o \in Objects \ {t} : Entries(o)' = Entries(o)
  BY <1>1, <1>2, WriteAdds
<1>4. a.by = r /\ a.part = PartOn(op[r], side[r])
  BY <1>2 DEF EntryOn
<1>5. ASSUME NEW p
      PROVE  p \in PartsBy(r)' <=> p \in PartsBy(r) \/ p = a.part
  <2>1. p \in PartsBy(r) <=> \E o \in Objects : \E e \in Entries(o) : e.by = r /\ e.part = p
    BY DEF PartsBy
  <2>2. p \in PartsBy(r)' <=> \E o \in Objects : \E e \in Entries(o)' : e.by = r /\ e.part = p
    BY DEF PartsBy
  <2>3. \A o \in Objects : \A e : e \in Entries(o)' <=> e \in Entries(o) \/ (o = t /\ e = a)
    BY <1>3
  <2>4. QED
    BY <1>3, <1>4, <2>1, <2>2, <2>3
<1>6. QED
  BY <1>4, <1>5

\* What a request has written is preserved as PartsInv says.
LEMMA PartsStep ==
    ASSUME TypeOK, CallsInv, PartsInv, [Next]_vars, races' = {}
    PROVE  PartsInv'
<1> USE DEF Active, Ended
<1>1. SUFFICES ASSUME NEW r \in Requests, pc'[r] \in {"idle", "read", "write"}
               PROVE  PartsBy(r)' = IF side'[r] = 1 THEN {} ELSE {PartOn(op'[r], 1)}
  BY DEF PartsInv
<1>2. CASE WriteItem(r)
  <2>1. pc'[r] = AfterWrite(r) /\ op'[r] = op[r] /\ side[r] \in {1, 2} /\ pc[r] = "write"
    BY <1>2 DEF WriteItem, TypeOK
  <2>2. op[r].kind \in TwoSided /\ side[r] = 1
    BY <1>1, <2>1 DEF AfterWrite
  <2>3. side'[r] = 2
    BY <1>2, <2>2 DEF WriteItem, TypeOK
  <2>4. PartsBy(r) = {}
    BY <2>1, <2>2 DEF PartsInv
  <2>5. QED
    BY <1>2, <2>1, <2>2, <2>3, <2>4, PartsOfWriter
<1>3. CASE ~ WriteItem(r)
  <2>1. pc[r] \in {"idle", "read", "write"} /\ side'[r] = side[r]
    <3>1. CASE UNCHANGED vars
      BY <1>1, <3>1 DEF vars
    <3>2. ASSUME NEW q \in Requests \ {r},
                 \/ Call(q) \/ ReadForPatch(q) \/ ReadForUpdate(q) \/ WriteItem(q)
                 \/ FetchForIndex(q) \/ PutDocument(q) \/ Fail(q)
          PROVE  pc'[r] = pc[r] /\ side'[r] = side[r]
      BY <3>2 DEF Call, ReadForPatch, ReadForUpdate, WriteItem, FetchForIndex, PutDocument, Fail, TypeOK
    <3>3. CASE Call(r) \/ ReadForPatch(r) \/ ReadForUpdate(r)
      BY <3>3 DEF Call, ReadForPatch, ReadForUpdate
    <3>4. ~ FetchForIndex(r) /\ ~ PutDocument(r) /\ ~ Fail(r)
      BY <1>1 DEF FetchForIndex, PutDocument, Fail, TypeOK, AfterPut
    <3>5. QED
      BY <1>1, <1>3, <3>1, <3>2, <3>3, <3>4 DEF Next
  <2>2. PartsBy(r)' = PartsBy(r)
    BY <1>3, PartsOfOthers
  <2>3. CASE pc[r] = "idle"
    BY <2>1, <2>2, <2>3 DEF PartsInv, CallsInv, NoCall, TwoSided
  <2>4. CASE pc[r] # "idle"
    BY <2>1, <2>2, <2>4, CallsStay DEF PartsInv
  <2>5. QED
    BY <2>3, <2>4
<1>4. QED
  BY <1>2, <1>3

\* In every reachable state of every instance, as long as no put has raced.
LEMMA PartsInvariant == Spec => [](races = {} => PartsInv)
<1>1. Init => PartsInv
  <2>1. SUFFICES ASSUME Init, NEW r \in Requests
                 PROVE  side[r] = 1 /\ PartsBy(r) = {}
    BY DEF PartsInv
  <2>2. \A o \in Objects : \A e \in Entries(o) : e.by = Origin
    BY <2>1 DEF Init, Entries, Current, S3Item, OldItem, Missing
  <2>3. PartsBy(r) = {}
    BY <2>2, UpdatesAssumption DEF PartsBy
  <2>4. QED
    BY <2>1, <2>3 DEF Init
<1>2. TypeOK /\ CallsInv /\ (races = {} => PartsInv) /\ [Next]_vars => (races = {} => PartsInv)'
  BY PartsStep, ObjectsGrow
<1>3. QED
  BY <1>1, <1>2, TypeCorrect, PTL DEF Spec

\* The entry a request is about to put comes right after those it has put.
LEMMA PriorIsWritten ==
    ASSUME TypeOK, CallsInv, PartsInv, NEW r \in Requests, pc[r] = "write"
    PROVE  /\ PartsBy(r) = Appends!Prior(PartOn(op[r], side[r]))
           /\ PartOn(op[r], side[r]) \in Appends!AppendParts
<1>1. /\ op[r].kind \in AllKinds \ {"reindex"} /\ side[r] \in {1, 2}
      /\ op[r].kind \notin TwoSided => side[r] = 1
      /\ PartsBy(r) = IF side[r] = 1 THEN {} ELSE {PartOn(op[r], 1)}
  BY CallsType DEF CallsInv, TypeOK, PartsInv
<1>2. CASE op[r].kind = "update" \/ op[r].kind = "appendTables"
  BY <1>1, <1>2 DEF PartOn, TwoSided, Appends!Prior, Appends!AppendParts
<1>3. CASE op[r].kind = "fileRelation"
  BY <1>1, <1>3 DEF PartOn, Appends!Prior, Appends!AppendParts
<1>4. CASE op[r].kind = "taskRelation"
  BY <1>1, <1>4 DEF PartOn, Appends!Prior, Appends!AppendParts
<1>5. QED
  BY <1>1, <1>2, <1>3, <1>4 DEF AllKinds

\* A put that is no race is an append of the abstract specification.
LEMMA WriteAppends ==
    ASSUME TypeOK, CallsInv, PartsInv, NEW r \in Requests, WriteItem(r), races' = {}
    PROVE  \E o \in Objects, part \in Appends!AppendParts : Appends!Append(r, o, part)
<1>1. PICK t : t = Target(r)
  OBVIOUS
<1>2. PICK part : part = PartOn(op[r], side[r])
  OBVIOUS
<1>3. /\ races = {} /\ t \in Objects
      /\ Entries(t)' = Entries(t) \union {[part |-> part, by |-> r]}
      /\ \A o \in Objects \ {t} : Entries(o)' = Entries(o)
  BY <1>1, <1>2, WriteAdds DEF EntryOn
<1>4. Appends!WrittenBy(r) = Appends!Prior(part) /\ part \in Appends!AppendParts
  BY <1>2, PriorIsWritten, WrittenIsParts DEF WriteItem
<1>5. [o \in Objects |-> Entries(o)']
        = [[o \in Objects |-> Entries(o)] EXCEPT ![t] = @ \union {[part |-> part, by |-> r]}]
  BY <1>3
<1>6. Appends!Append(r, t, part)
  BY <1>3, <1>4, <1>5 DEF Appends!Append, Entries
<1>7. QED
  BY <1>3, <1>4, <1>6

\* Every step is a step of RecordAppends or leaves its variables unchanged.
LEMMA AppendsStep ==
    ASSUME TypeOK, CallsInv, races = {} => PartsInv, [Next]_vars
    PROVE  [Appends!Next]_Appends!vars
<1>1. CASE races' # {}
  BY <1>1 DEF Appends!Next, Appends!Race, Appends!Unpromised
<1>2. CASE races' = {} /\ \E r \in Requests : WriteItem(r)
  <2>1. PICK r \in Requests : WriteItem(r)
    BY <1>2
  <2>2. races = {}
    BY <1>2, ObjectsGrow
  <2>3. \E o \in Objects, part \in Appends!AppendParts : Appends!Append(r, o, part)
    BY <1>2, <2>1, <2>2, WriteAppends
  <2>4. QED
    BY <2>3 DEF Appends!Next
<1>3. CASE ~ \E r \in Requests : WriteItem(r)
  <2>1. UNCHANGED <<table, races>>
    BY <1>3 DEF Next, vars, Call, ReadForPatch, ReadForUpdate, FetchForIndex, PutDocument, Fail
  <2>2. QED
    BY <2>1 DEF Appends!vars, Current
<1>4. QED
  BY <1>1, <1>2, <1>3

\* However many mutations overlap, until a put races they are the atomic
\* appends of RecordAppends, each at most once and the sides of a relation in
\* order.
THEOREM UpdatesImplementAppends == Spec => ImplementsAppends
<1>1. Init => Appends!Init
  <2>1. SUFFICES ASSUME Init
                 PROVE  races = {} /\ \A r \in Requests : Appends!WrittenBy(r) = {}
    BY DEF Appends!Init
  <2>2. \A o \in Objects : \A e \in Entries(o) : e.by = Origin
    BY <2>1 DEF Init, Entries, Current, S3Item, OldItem, Missing
  <2>3. \A r \in Requests : PartsBy(r) = {}
    BY <2>2, UpdatesAssumption DEF PartsBy
  <2>4. QED
    BY <2>1, <2>3, WrittenIsParts DEF Init
<1>2. TypeOK /\ CallsInv /\ (races = {} => PartsInv) /\ [Next]_vars => [Appends!Next]_Appends!vars
  BY AppendsStep
<1>3. QED
  BY <1>1, <1>2, TypeCorrect, PartsInvariant, PTL DEF Spec, ImplementsAppends, Appends!Spec

-----------------------------------------------------------------------------
(* Mutations that come one at a time and read what was put last. *)

Alone == MaxActive = 1 /\ ~StaleReads

\* What a request works on is what is stored.
SoloInv ==
    /\ \A q, r \in Requests : pc[q] \in Active /\ pc[r] \in Active => q = r
    /\ races = {}
    /\ \A r \in Requests : pc[r] \in {"write", "put"} => buf[r] = Current(Target(r))

\* A call starts only when no request runs.
LEMMA CallsWait ==
    ASSUME Alone, SoloInv, NEW r \in Requests, Call(r), NEW q \in Requests
    PROVE  pc[q] \notin Active
<1> SUFFICES ASSUME pc[q] \in Active PROVE FALSE
  OBVIOUS
<1> DEFINE running == {p \in Requests : pc[p] \in Active}
<1>1. running = {q}
  BY DEF SoloInv
<1>2. Cardinality(running) = 1
  BY <1>1, FS_Singleton
<1>3. Cardinality(running) < 1
  BY DEF Call, Alone
<1> HIDE DEF running
<1> QED BY <1>2, <1>3

\* While one request runs the others do not, and its step leaves them alone.
LEMMA OthersRest ==
    ASSUME Alone, TypeOK, SoloInv, NEW r \in Requests,
           \/ Call(r) \/ ReadForPatch(r) \/ ReadForUpdate(r) \/ WriteItem(r)
           \/ FetchForIndex(r) \/ PutDocument(r) \/ Fail(r),
           NEW q \in Requests \ {r}
    PROVE  /\ pc[q] \notin Active
           /\ pc'[q] = pc[q] /\ op'[q] = op[q] /\ side'[q] = side[q] /\ buf'[q] = buf[q]
<1>1. pc[q] \notin Active
  <2>1. CASE Call(r)
    BY <2>1, CallsWait
  <2>2. CASE ~ Call(r)
    <3>1. pc[r] \in Active
      BY <2>2 DEF ReadForPatch, ReadForUpdate, WriteItem, FetchForIndex, PutDocument, Fail, Active
    <3> QED BY <3>1 DEF SoloInv
  <2> QED BY <2>1, <2>2
<1>2. CASE Call(r) \/ ReadForPatch(r) \/ ReadForUpdate(r)
  BY <1>1, <1>2 DEF Call, ReadForPatch, ReadForUpdate, TypeOK
<1>3. CASE WriteItem(r)
  BY <1>1, <1>3 DEF WriteItem, TypeOK
<1>4. CASE FetchForIndex(r) \/ PutDocument(r) \/ Fail(r)
  BY <1>1, <1>4 DEF FetchForIndex, PutDocument, Fail, TypeOK
<1> QED BY <1>1, <1>2, <1>3, <1>4

\* A step keeps SoloInv if the request that takes it holds what is stored.
LEMMA OneRequest ==
    ASSUME Alone, TypeOK, SoloInv, NEW r \in Requests,
           \/ Call(r) \/ ReadForPatch(r) \/ ReadForUpdate(r) \/ WriteItem(r)
           \/ FetchForIndex(r) \/ PutDocument(r) \/ Fail(r),
           races' = {},
           pc'[r] \in {"write", "put"} => buf'[r] = Current(Target(r))'
    PROVE  SoloInv'
<1>1. \A q \in Requests \ {r} : pc'[q] \notin Active
  BY OthersRest
<1>2. \A q, p \in Requests : pc'[q] \in Active /\ pc'[p] \in Active => q = p
  BY <1>1
<1>3. \A q \in Requests : pc'[q] \in {"write", "put"} => q = r
  BY <1>1 DEF Active
<1> QED BY <1>2, <1>3 DEF SoloInv

\* What a request that may fall back to S3 takes for the item.
LEMMA ReadsCurrent ==
    ASSUME Alone, NEW o, NEW answer \in Answers(o)
    PROVE  answer = table[o] /\ (IF answer = Missing THEN S3Item(o) ELSE answer) = Current(o)
BY DEF Alone, Answers, Current

LEMMA SoloStep ==
    ASSUME Alone, TypeOK, CallsInv, SoloInv, [Next]_vars
    PROVE  SoloInv'
<1>1. ASSUME NEW r \in Requests, Call(r) \/ PutDocument(r) \/ Fail(r) PROVE SoloInv'
  <2>1. races' = {} /\ pc'[r] \notin {"write", "put"}
    BY <1>1 DEF Call, PutDocument, Fail, AfterPut, SoloInv, TypeOK
  <2> QED BY <1>1, <2>1, OneRequest
<1>2. ASSUME NEW r \in Requests, ReadForPatch(r) \/ ReadForUpdate(r) PROVE SoloInv'
  <2>1. PICK t : t = Target(r)
    OBVIOUS
  <2>2. Target(r)' = t /\ table' = table /\ races' = {}
    BY <1>2, <2>1 DEF ReadForPatch, ReadForUpdate, Target, SoloInv
  <2>3. Current(Target(r))' = Current(t)
    BY <2>2 DEF Current, S3Item
  <2>4. CASE ReadForPatch(r)
    <3>1. PICK item \in Answers(t) :
             buf'[r] = item /\ pc'[r] = IF item = Missing THEN "error" ELSE "write"
      BY <2>1, <2>4 DEF ReadForPatch, TypeOK
    <3>2. item # Missing => item = Current(t)
      BY <3>1, ReadsCurrent
    <3> QED BY <1>2, <2>2, <2>3, <3>1, <3>2, OneRequest
  <2>5. CASE ReadForUpdate(r)
    <3>1. PICK answer \in Answers(t) :
             LET item == IF answer = Missing THEN S3Item(t) ELSE answer
             IN  buf'[r] = item /\ pc'[r] = IF item = Missing THEN "none" ELSE "write"
      BY <2>1, <2>5 DEF ReadForUpdate, TypeOK
    <3> QED BY <1>2, <2>2, <2>3, <3>1, ReadsCurrent, OneRequest
  <2> QED BY <1>2, <2>4, <2>5
<1>3. ASSUME NEW r \in Requests, WriteItem(r) PROVE SoloInv'
  <2>1. PICK t \in Objects : t = Target(r)
    BY <1>3, TargetType DEF WriteItem
  <2>2. races' = {}
    BY <1>3 DEF WriteItem, SoloInv
  <2>3. ASSUME pc'[r] = "put" PROVE buf'[r] = Current(Target(r))'
    <3>1. op[r].kind \notin TwoSided
      <4> SUFFICES ASSUME op[r].kind \in TwoSided PROVE FALSE
        OBVIOUS
      <4>1. AfterWrite(r) # "put"
        BY DEF AfterWrite, TwoSided
      <4> QED BY <1>3, <2>3, <4>1 DEF WriteItem, TypeOK
    <3>2. UNCHANGED <<op, side>> /\ buf'[r] = Patched(r) /\ table'[t] = Patched(r)
      BY <1>3, <2>1, <3>1 DEF WriteItem, TypeOK
    <3>3. Target(r)' = t
      BY <2>1, <3>2 DEF Target
    <3>4. Patched(r) # Missing
      BY <1>3, PatchedAdds DEF WriteItem
    <3> QED BY <3>2, <3>3, <3>4 DEF Current
  <2>4. pc'[r] # "write"
    BY <1>3 DEF WriteItem, AfterWrite, TypeOK
  <2> QED BY <1>3, <2>2, <2>3, <2>4, OneRequest
<1>4. ASSUME NEW r \in Requests, FetchForIndex(r) PROVE SoloInv'
  <2>1. PICK t : t = Target(r)
    OBVIOUS
  <2>2. table' = table /\ op' = op /\ races' = {} /\ pc'[r] # "write"
    BY <1>4 DEF FetchForIndex, AfterPut, SoloInv, TypeOK
  <2>3. ASSUME pc'[r] = "put" PROVE buf'[r] = Current(Target(r))'
    <3>1. AfterPut(r) # "put"
      BY DEF AfterPut
    <3>2. PICK answer \in Answers(t) :
             buf'[r] = (IF answer = Missing THEN S3Item(t) ELSE answer) /\ UNCHANGED side
      BY <1>4, <2>1, <2>3, <3>1 DEF FetchForIndex, TypeOK
    <3>3. Target(r)' = t /\ Current(t)' = Current(t)
      BY <2>1, <2>2, <3>2 DEF Target, Current, S3Item
    <3> QED BY <3>2, <3>3, ReadsCurrent DEF Current, S3Item
  <2> QED BY <1>4, <2>2, <2>3, OneRequest
<1>5. CASE UNCHANGED vars
  <2>1. \A r \in Requests : Current(Target(r))' = Current(Target(r))
    BY <1>5 DEF vars, Current, Target, S3Item
  <2> QED BY <1>5, <2>1 DEF vars, SoloInv
<1> QED BY <1>1, <1>2, <1>3, <1>4, <1>5 DEF Next

LEMMA SoloInvariant ==
    ASSUME Alone
    PROVE  Spec => []SoloInv
<1>1. Init => SoloInv
  BY DEF Init, SoloInv, Active
<1>2. TypeOK /\ CallsInv /\ SoloInv /\ [Next]_vars => SoloInv'
  BY SoloStep
<1>3. QED
  BY <1>1, <1>2, TypeCorrect, PTL DEF Spec

\* Mutations that come one at a time leave every acknowledged relation on both
\* of its records, although some fail or are killed half-way.
THEOREM SequentialRelations ==
    ASSUME MaxActive = 1, ~StaleReads
    PROVE  Spec => []AcknowledgedOnBothRecords
<1>1. Spec => []SoloInv
  BY SoloInvariant DEF Alone
<1>2. SoloInv /\ RaceFreeOnBothRecords => AcknowledgedOnBothRecords
  BY DEF SoloInv, RaceFreeOnBothRecords
<1>3. QED
  BY <1>1, <1>2, RaceFreeRelations, PTL
=============================================================================
