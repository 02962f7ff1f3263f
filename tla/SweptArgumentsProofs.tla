------------------------ MODULE SweptArgumentsProofs ------------------------
(***************************************************************************)
(* Proofs about SweptArguments, for any argument lists and arguments, any  *)
(* number of requests and updates, with and without stale reads: what      *)
(* create_automation_task stores satisfied its general task, and what it   *)
(* refuses it refuses for the reason it gives.                             *)
(***************************************************************************)
EXTENDS SweptArguments, WellFoundedInduction, TLAPS

Lists == Seq([k : STRING, v : Seq(STRING)])
Pairs == Seq([k : STRING, v : STRING])

\* Every version is a list of keys with values; a request came in at one.
TypeInv ==
    /\ versions \in Seq(Lists)
    /\ versions # <<>>
    /\ pc \in [Requests -> {"idle", "validate", "store", "refused", "created", "updated"}]
    /\ asked \in [Requests -> Inputs]
    /\ since \in [Requests -> Nat]
    /\ DOMAIN reply = Requests /\ DOMAIN stored = Requests

\* Only what create_automation_task checks is ever refused, and nothing is
\* stored before it has been checked.
ProgressInv ==
    \A r \in Requests :
        /\ since[r] <= Current
        /\ pc[r] \in {"idle", "validate", "store", "refused"} => stored[r] = Nothing
        /\ pc[r] \in {"validate", "refused"} =>
              asked[r].clazz = "AutomationTask" /\ asked[r].general # "none"

\* What each message says of the lists.
Reason(message, lists, arguments) ==
    \E n \in DOMAIN lists :
        LET entry == lists[n]
            given == {p \in ToSet(arguments) : p.k = entry.k}
        IN  CASE message = "unreadable"   -> entry.v = NoList
              [] message = "key missing"  -> Len(entry.v) > 1 /\ given = {}
              [] message = "not a member" ->
                   /\ Len(entry.v) > 1
                   /\ \E p \in given, other \in ToSet(lists) :
                         other.k = entry.k /\ p.v \notin ToSet(other.v)
              [] OTHER -> FALSE

\* The two properties, of one request.
StoredMatched(r) ==
    r \in Children /\ pc[r] \in {"store", "created"} =>
        \E i \in Met(r) : Satisfies(asked[r].arguments, versions[i])

Refusal(r) ==
    pc[r] = "refused" =>
        /\ stored[r] = Nothing
        /\ \/ asked[r].general \in {"malformed", "otherType", "missing"}
           \/ asked[r].general = "general" /\ \E i \in Met(r) :
                 Reason(reply[r], versions[i], asked[r].arguments)

SweptInv == TypeInv /\ ProgressInv /\ \A r \in Requests : StoredMatched(r) /\ Refusal(r)

-----------------------------------------------------------------------------
(* The first and the last position of some in a sequence. *)

Below == {pair \in Nat \X Nat : pair[1] < pair[2]}

LEMMA BelowIsWellFounded == IsWellFoundedOn(Below, Nat)
<1>1. OpToRel(<, Nat) = Below
  BY Zenon DEF OpToRel, Below
<1> QED BY <1>1, NatLessThanWellFounded

LEMMA FirstExists ==
    ASSUME NEW I \in SUBSET Nat, I # {}
    PROVE  \E x \in I : \A y \in I : x <= y
<1>1. PICK x \in I : \A y \in I : <<y, x>> \notin Below
  BY BelowIsWellFounded, WFMin, Zenon
<1>2. ASSUME NEW y \in I PROVE x <= y
  <2>1. <<y, x>> \notin Below
    BY <1>1
  <2>2. ~(y < x)
    BY <2>1 DEF Below
  <2> QED BY <2>2
<1> QED BY <1>2

LEMMA LastExists ==
    ASSUME NEW n \in Nat, NEW I \in SUBSET (1..n), I # {}
    PROVE  \E x \in I : \A y \in I : x >= y
<1> DEFINE T == {n - x : x \in I}
<1>1. T \in SUBSET Nat
  <2>1. \A x \in I : n - x \in Nat
    OBVIOUS
  <2> QED BY <2>1
<1>2. T # {}
  OBVIOUS
<1>3. PICK t \in T : \A u \in T : t <= u
  <2> HIDE DEF T
  <2> QED BY <1>1, <1>2, FirstExists
<1>4. PICK x \in I : t = n - x
  OBVIOUS
<1>5. ASSUME NEW y \in I PROVE x >= y
  <2>1. t <= n - y
    BY <1>3
  <2> QED BY <1>4, <2>1
<1> QED BY <1>5

-----------------------------------------------------------------------------
(* What the loop over the swept keys computes. *)

\* The dict has the value of an entry with the key.
LEMMA ValueOfKey ==
    ASSUME NEW S, NEW pairs \in Seq(S), NEW key \in KeysOf(pairs)
    PROVE  \E j \in DOMAIN pairs : pairs[j].k = key /\ ValueFor(pairs, key) = pairs[j].v
<1> DEFINE I == {i \in 1..Len(pairs) : pairs[i].k = key}
<1>1. Len(pairs) \in Nat /\ DOMAIN pairs = 1..Len(pairs)
  OBVIOUS
<1>2. I # {} /\ I \in SUBSET (1..Len(pairs))
  BY <1>1 DEF KeysOf
<1>3. Max(I) \in I
  <2>1. \E x \in I : \A y \in I : x >= y
    <3> HIDE DEF I
    <3> QED BY <1>1, <1>2, LastExists
  <2> HIDE DEF I
  <2> QED BY <2>1 DEF Max
<1>4. ValueFor(pairs, key) = pairs[Max(I)].v
  BY <1>2 DEF ValueFor, SelectLastInSeq
<1> QED BY <1>1, <1>3, <1>4

Wrong(lists, arguments) ==
    {i \in SweptAt(lists) : Verdict(lists, arguments, lists[i].k) # "ok"}

\* The first wrong key decides.
LEMMA FirstWrongDecides ==
    ASSUME NEW lists \in Lists, NEW arguments,
           NoList \notin {lists[i].v : i \in DOMAIN lists},
           Wrong(lists, arguments) # {}
    PROVE  \E n \in Wrong(lists, arguments) :
              Checked(lists, arguments) = Verdict(lists, arguments, lists[n].k)
<1> DEFINE W == Wrong(lists, arguments)
           w == CHOOSE i \in W : \A j \in W : i <= j
<1>1. W \in SUBSET Nat /\ W # {}
  BY DEF Wrong, SweptAt, Lists
<1>2. w \in W
  <2> HIDE DEF W
  <2>1. \E i \in W : \A j \in W : i <= j
    BY <1>1, FirstExists
  <2> QED BY <2>1
<1>3. Checked(lists, arguments) = Verdict(lists, arguments, lists[w].k)
  BY <1>1 DEF Checked, Wrong
<1> QED BY <1>2, <1>3

LEMMA WhatIsWrong ==
    ASSUME NEW lists \in Lists, NEW arguments, Checked(lists, arguments) # "ok"
    PROVE  \/ /\ Checked(lists, arguments) = "unreadable"
              /\ \E n \in DOMAIN lists : lists[n].v = NoList
           \/ \E n \in SweptAt(lists) :
                 /\ Checked(lists, arguments) = Verdict(lists, arguments, lists[n].k)
                 /\ Verdict(lists, arguments, lists[n].k) # "ok"
<1>1. CASE NoList \in {lists[i].v : i \in DOMAIN lists}
  BY <1>1 DEF Checked
<1>2. CASE NoList \notin {lists[i].v : i \in DOMAIN lists}
  <2>1. Wrong(lists, arguments) # {}
    BY <1>2 DEF Checked, Wrong
  <2> QED BY <1>2, <2>1, FirstWrongDecides DEF Wrong
<1> QED BY <1>1, <1>2

\* Arguments that pass satisfy the lists.
LEMMA CheckedSatisfies ==
    ASSUME NEW lists \in Lists, NEW arguments \in Pairs, Checked(lists, arguments) = "ok"
    PROVE  Satisfies(arguments, lists)
<1>0. NoList \notin {lists[i].v : i \in DOMAIN lists}
  BY DEF Checked
<1>1. \A i \in SweptAt(lists) : Verdict(lists, arguments, lists[i].k) = "ok"
  BY <1>0, FirstWrongDecides DEF Wrong
<1>2. ASSUME NEW i \in DOMAIN lists, Len(lists[i].v) > 1
      PROVE  \E j \in DOMAIN arguments :
                arguments[j].k = lists[i].k /\ arguments[j].v \in Offered(lists, lists[i].k)
  <2> DEFINE key == lists[i].k
  <2>1. Verdict(lists, arguments, key) = "ok"
    BY <1>1, <1>2 DEF SweptAt
  <2>2. key \in KeysOf(arguments) /\ ValueFor(arguments, key) \in ToSet(ValueFor(lists, key))
    BY <2>1 DEF Verdict
  <2>3. key \in KeysOf(lists)
    BY DEF KeysOf
  <2>4. PICK j \in DOMAIN arguments :
          arguments[j].k = key /\ ValueFor(arguments, key) = arguments[j].v
    <3> HIDE DEF key
    <3> QED BY <2>2, ValueOfKey DEF Pairs
  <2>5. PICK m \in DOMAIN lists : lists[m].k = key /\ ValueFor(lists, key) = lists[m].v
    <3> HIDE DEF key
    <3> QED BY <2>3, ValueOfKey DEF Lists
  <2>6. arguments[j].v \in Offered(lists, key)
    BY <2>2, <2>4, <2>5 DEF Offered
  <2> QED BY <2>4, <2>6
<1> QED BY <1>0, <1>2 DEF Satisfies

LEMMA RefusalHasReason ==
    ASSUME NEW lists \in Lists, NEW arguments \in Pairs, Checked(lists, arguments) # "ok"
    PROVE  Reason(Checked(lists, arguments), lists, arguments)
<1>1. CASE /\ Checked(lists, arguments) = "unreadable"
           /\ \E n \in DOMAIN lists : lists[n].v = NoList
  BY <1>1 DEF Reason
<1>2. ASSUME NEW n \in SweptAt(lists),
             Checked(lists, arguments) = Verdict(lists, arguments, lists[n].k),
             Verdict(lists, arguments, lists[n].k) # "ok"
      PROVE  Reason(Checked(lists, arguments), lists, arguments)
  <2> DEFINE key == lists[n].k
  <2>1. n \in DOMAIN lists /\ Len(lists[n].v) > 1
    BY DEF SweptAt
  <2>2. CASE key \notin KeysOf(arguments)
    <3>1. Checked(lists, arguments) = "key missing"
      BY <1>2, <2>2 DEF Verdict
    <3>2. {p \in ToSet(arguments) : p.k = key} = {}
      BY <2>2 DEF KeysOf, ToSet
    <3> QED BY <2>1, <3>1, <3>2 DEF Reason
  <2>3. CASE key \in KeysOf(arguments)
    <3>1. ValueFor(arguments, key) \notin ToSet(ValueFor(lists, key))
      BY <1>2, <2>3 DEF Verdict
    <3>2. Checked(lists, arguments) = "not a member"
      BY <1>2, <2>3, <3>1 DEF Verdict
    <3>3. PICK j \in DOMAIN arguments :
            arguments[j].k = key /\ ValueFor(arguments, key) = arguments[j].v
      <4> HIDE DEF key
      <4> QED BY <2>3, ValueOfKey DEF Pairs
    <3>4. PICK m \in DOMAIN lists : lists[m].k = key /\ ValueFor(lists, key) = lists[m].v
      <4>1. key \in KeysOf(lists)
        BY <2>1 DEF KeysOf
      <4> HIDE DEF key
      <4> QED BY <4>1, ValueOfKey DEF Lists
    <3>5. arguments[j] \in ToSet(arguments) /\ lists[m] \in ToSet(lists)
      BY <3>3, <3>4 DEF ToSet
    <3>6. \E p \in {q \in ToSet(arguments) : q.k = key}, other \in ToSet(lists) :
             other.k = key /\ p.v \notin ToSet(other.v)
      BY <3>1, <3>3, <3>4, <3>5
    <3> QED BY <2>1, <3>2, <3>6 DEF Reason
  <2> QED BY <2>2, <2>3
<1> QED BY <1>1, <1>2, WhatIsWrong

\* A general task without lists refuses nothing.
LEMMA EmptyListsPass == ASSUME NEW arguments PROVE Checked(<<>>, arguments) = "ok"
<1>1. SweptAt(<<>>) = {}
  BY DEF SweptAt
<1> QED BY <1>1 DEF Checked

-----------------------------------------------------------------------------
(* The requests. *)

LEMMA InputTypes ==
    ASSUME TypeInv, NEW r \in Requests
    PROVE  /\ asked[r].arguments \in Pairs /\ asked[r].general \in References
           /\ Current \in Nat /\ Current > 0 /\ DOMAIN versions = 1..Current
           /\ \A i \in DOMAIN versions : versions[i] \in Lists
           /\ since[r] \in Nat
<1>1. asked[r] \in Inputs
  BY DEF TypeInv
<1>2. asked[r].arguments \in ArgumentChoices /\ asked[r].general \in References
  BY <1>1 DEF Inputs
<1>3. versions \in Seq(Lists) /\ versions # <<>>
  BY DEF TypeInv
<1>4. Len(versions) \in Nat /\ Len(versions) > 0 /\ DOMAIN versions = 1..Len(versions)
      /\ \A i \in DOMAIN versions : versions[i] \in Lists
  BY <1>3
<1> QED BY <1>2, <1>4, SweptAssumption DEF Pairs, Current, TypeInv

LEMMA InitInv == Init => SweptInv
<1> SUFFICES ASSUME Init PROVE SweptInv
  OBVIOUS
<1>1. PICK lists \in ListChoices : versions = <<lists>>
  BY DEF Init
<1>2. lists \in Lists
  BY SweptAssumption DEF Lists
<1>3. versions \in Seq(Lists) /\ versions # <<>> /\ Len(versions) = 1
  BY <1>1, <1>2
<1>4. TypeInv
  <2>1. pc \in [Requests -> {"idle"}] /\ since \in [Requests -> {0}] 
        /\ asked \in [Requests -> Inputs] /\ DOMAIN reply = Requests /\ DOMAIN stored = Requests
    BY DEF Init
  <2> QED BY <1>3, <2>1 DEF TypeInv
<1>5. ProgressInv
  BY <1>3 DEF Init, ProgressInv, Current
<1>6. \A r \in Requests : StoredMatched(r) /\ Refusal(r)
  BY DEF Init, StoredMatched, Refusal
<1> QED BY <1>4, <1>5, <1>6 DEF SweptInv

\* A request that has not moved meets what it had met.
LEMMA OthersStay ==
    ASSUME SweptInv, NEW r \in Requests,
           pc'[r] = pc[r], asked' = asked, since'[r] = since[r], reply'[r] = reply[r],
           stored'[r] = stored[r], versions' = versions
    PROVE  StoredMatched(r)' /\ Refusal(r)'
<1>1. StoredMatched(r) /\ Refusal(r)
  BY DEF SweptInv
<1>2. /\ Met(r)' = Met(r) /\ asked'[r] = asked[r]
      /\ r \in Children' <=> r \in Children
  BY DEF Met, Children
<1>3. StoredMatched(r)'
  BY <1>1, <1>2 DEF StoredMatched
<1>4. Refusal(r)'
  BY <1>1, <1>2 DEF Refusal
<1> QED BY <1>3, <1>4

LEMMA BeginInv ==
    ASSUME SweptInv, NEW r \in Requests, Begin(r)
    PROVE  SweptInv'
<1>1. /\ pc[r] = "idle" /\ since' = [since EXCEPT ![r] = Current]
      /\ pc' = [pc EXCEPT ![r] =
                  IF asked[r].clazz = "AutomationTask" /\ asked[r].general # "none"
                  THEN "validate" ELSE "store"]
      /\ UNCHANGED <<versions, asked, reply, stored>>
  BY DEF Begin
<1>2. /\ DOMAIN pc = Requests /\ DOMAIN since = Requests
      /\ Current \in Nat /\ Current' = Current
  BY <1>1, InputTypes DEF SweptInv, TypeInv, Current
<1>3. TypeInv'
  BY <1>1, <1>2 DEF SweptInv, TypeInv
<1>4. ProgressInv'
  BY <1>1, <1>2 DEF SweptInv, ProgressInv
<1>5. ASSUME NEW s \in Requests PROVE StoredMatched(s)' /\ Refusal(s)'
  <2>1. CASE s = r
    <3>1. pc'[r] \in {"validate", "store"} /\ (r \in Children' => pc'[r] = "validate")
      BY <1>1, <1>2 DEF Children
    <3> QED BY <2>1, <3>1 DEF StoredMatched, Refusal
  <2>2. CASE s # r
    BY <1>1, <1>2, <2>2, OthersStay
  <2> QED BY <2>1, <2>2
<1> QED BY <1>3, <1>4, <1>5 DEF SweptInv

\* The version get_thing answers is one the request can have met.
LEMMA ReadIsMet ==
    ASSUME SweptInv, NEW r \in Requests, NEW read \in Readable
    PROVE  read \in Met(r) /\ read \in DOMAIN versions
<1>1. /\ since[r] \in Nat /\ since[r] <= Current /\ Current \in Nat /\ Current > 0
      /\ DOMAIN versions = 1..Current
  BY InputTypes DEF SweptInv, ProgressInv
<1>2. CASE StaleReads
  BY <1>1, <1>2 DEF Readable, Met
<1>3. CASE ~StaleReads
  BY <1>1, <1>3 DEF Readable, Met
<1> QED BY <1>2, <1>3

LEMMA ValidateInv ==
    ASSUME SweptInv, NEW r \in Requests, Validate(r)
    PROVE  SweptInv'
<1>1. PICK read \in Readable :
        reply' = [reply EXCEPT ![r] =
                    CASE asked[r].general = "malformed"  -> "not a global id"
                      [] asked[r].general = "otherType"  -> "not a GeneralTask"
                      [] asked[r].general = "missing"    -> "not found"
                      [] asked[r].general = "relabelled" -> Checked(<<>>, asked[r].arguments)
                      [] OTHER -> Checked(versions[read], asked[r].arguments)]
  BY DEF Validate
<1>2. /\ pc[r] = "validate"
      /\ pc' = [pc EXCEPT ![r] = IF reply'[r] = "ok" THEN "store" ELSE "refused"]
      /\ UNCHANGED <<versions, asked, since, stored>>
      /\ DOMAIN pc = Requests /\ DOMAIN reply = Requests
  BY DEF Validate, SweptInv, TypeInv
<1>3. /\ asked[r].arguments \in Pairs /\ asked[r].general \in References
      /\ read \in Met(r) /\ read \in DOMAIN versions /\ versions[read] \in Lists
      /\ asked[r].clazz = "AutomationTask" /\ asked[r].general # "none"
      /\ stored[r] = Nothing
  BY <1>2, InputTypes, ReadIsMet DEF SweptInv, ProgressInv
<1>4. ASSUME asked[r].general = "general"
      PROVE  /\ reply'[r] = "ok" => Satisfies(asked[r].arguments, versions[read])
             /\ reply'[r] # "ok" => Reason(reply'[r], versions[read], asked[r].arguments)
  <2>1. reply'[r] = Checked(versions[read], asked[r].arguments)
    BY <1>1, <1>2, <1>4
  <2>2. reply'[r] = "ok" => Satisfies(asked[r].arguments, versions[read])
    BY <1>3, <2>1, CheckedSatisfies
  <2>3. reply'[r] # "ok" => Reason(reply'[r], versions[read], asked[r].arguments)
    BY <1>3, <2>1, RefusalHasReason
  <2> QED BY <2>2, <2>3
<1>5. asked[r].general = "relabelled" => reply'[r] = "ok"
  BY <1>1, <1>2, EmptyListsPass
<1>6. pc'[r] = IF reply'[r] = "ok" THEN "store" ELSE "refused"
  BY <1>2
<1>7. TypeInv'
  <2>1. DOMAIN reply' = Requests
    BY <1>1, <1>2
  <2>2. pc' \in [Requests -> {"idle", "validate", "store", "refused", "created", "updated"}]
    BY <1>2 DEF SweptInv, TypeInv
  <2> QED BY <1>2, <2>1, <2>2 DEF SweptInv, TypeInv
<1>8. ProgressInv'
  BY <1>2, <1>3, <1>6 DEF SweptInv, ProgressInv, Current
<1>9. ASSUME NEW s \in Requests PROVE StoredMatched(s)' /\ Refusal(s)'
  <2>1. CASE s = r
    <3>1. Met(r)' = Met(r)
      BY <1>2 DEF Met
    <3>2. StoredMatched(r)'
      <4> SUFFICES ASSUME asked[r].general = "general", reply'[r] = "ok"
                   PROVE  \E i \in Met(r) : Satisfies(asked[r].arguments, versions[i])
        BY <1>2, <1>6, <3>1 DEF StoredMatched, Children
      <4> QED BY <1>3, <1>4
    <3>3. Refusal(r)'
      <4> SUFFICES ASSUME reply'[r] # "ok"
                   PROVE  \/ asked[r].general \in {"malformed", "otherType", "missing"}
                          \/ asked[r].general = "general" /\ \E i \in Met(r) :
                                Reason(reply'[r], versions[i], asked[r].arguments)
        BY <1>2, <1>3, <1>6, <3>1 DEF Refusal
      <4> QED BY <1>3, <1>4, <1>5 DEF References
    <3> QED BY <2>1, <3>2, <3>3
  <2>2. CASE s # r
    BY <1>1, <1>2, <2>2, OthersStay
  <2> QED BY <2>1, <2>2
<1> QED BY <1>7, <1>8, <1>9 DEF SweptInv

LEMMA StoreInv ==
    ASSUME SweptInv, NEW r \in Requests, Store(r)
    PROVE  SweptInv'
<1>1. /\ pc[r] = "store"
      /\ stored' = [stored EXCEPT ![r] = asked[r].arguments]
      /\ reply' = [reply EXCEPT ![r] = "ok"]
      /\ pc' = [pc EXCEPT ![r] = "created"]
      /\ UNCHANGED <<versions, asked, since>>
      /\ DOMAIN pc = Requests
  BY DEF Store, SweptInv, TypeInv
<1>2. TypeInv'
  BY <1>1 DEF SweptInv, TypeInv
<1>3. ProgressInv'
  BY <1>1 DEF SweptInv, ProgressInv, Current
<1>4. ASSUME NEW s \in Requests PROVE StoredMatched(s)' /\ Refusal(s)'
  <2>1. CASE s = r
    <3>1. /\ Met(r)' = Met(r) /\ pc'[r] = "created"
          /\ r \in Children' <=> r \in Children
      BY <1>1 DEF Met, Children
    <3>2. StoredMatched(r)
      BY DEF SweptInv
    <3>3. StoredMatched(r)'
      BY <1>1, <3>1, <3>2 DEF StoredMatched
    <3>4. Refusal(r)'
      BY <3>1 DEF Refusal
    <3> QED BY <2>1, <3>3, <3>4
  <2>2. CASE s # r
    <3>1. pc'[s] = pc[s] /\ reply'[s] = reply[s] /\ stored'[s] = stored[s] /\ since'[s] = since[s]
      BY <1>1, <2>2
    <3> QED BY <1>1, <3>1, OthersStay
  <2> QED BY <2>1, <2>2
<1> QED BY <1>2, <1>3, <1>4 DEF SweptInv

LEMMA UpdateGeneralTaskInv ==
    ASSUME SweptInv, NEW lists \in ListChoices, UpdateGeneralTask(lists)
    PROVE  SweptInv'
<1>1. versions' = Append(versions, lists) /\ UNCHANGED <<pc, asked, since, reply, stored>>
  BY DEF UpdateGeneralTask
<1>2. versions \in Seq(Lists) /\ lists \in Lists
  BY SweptAssumption DEF SweptInv, TypeInv, Lists
<1>3. /\ versions' \in Seq(Lists) /\ versions' # <<>> /\ Len(versions') = Len(versions) + 1
      /\ \A i \in DOMAIN versions : i \in DOMAIN versions' /\ versions'[i] = versions[i]
  <2> HIDE DEF Lists
  <2> QED BY <1>1, <1>2
<1>4. TypeInv'
  BY <1>1, <1>3 DEF SweptInv, TypeInv
<1>5. ProgressInv'
  BY <1>1, <1>2, <1>3, InputTypes DEF SweptInv, ProgressInv, Current
<1>6. ASSUME NEW s \in Requests PROVE StoredMatched(s)' /\ Refusal(s)'
  <2>1. \A i \in Met(s) : i \in Met(s)' /\ versions'[i] = versions[i]
    BY <1>1, <1>3 DEF Met
  <2>2. s \in Children' <=> s \in Children
    BY <1>1 DEF Children
  <2>3. StoredMatched(s) /\ Refusal(s)
    BY DEF SweptInv
  <2>4. StoredMatched(s)'
    <3> SUFFICES ASSUME NEW i \in Met(s), Satisfies(asked[s].arguments, versions[i])
                 PROVE  \E j \in Met(s)' : Satisfies(asked[s].arguments, versions'[j])
      BY <1>1, <2>2, <2>3 DEF StoredMatched
    <3> QED BY <2>1
  <2>5. Refusal(s)'
    <3> SUFFICES ASSUME NEW i \in Met(s), Reason(reply[s], versions[i], asked[s].arguments)
                 PROVE  \E j \in Met(s)' : Reason(reply[s], versions'[j], asked[s].arguments)
      BY <1>1, <2>3 DEF Refusal
    <3> QED BY <2>1
  <2> QED BY <2>4, <2>5
<1> QED BY <1>4, <1>5, <1>6 DEF SweptInv

LEMMA UpdateTaskInv ==
    ASSUME SweptInv, NEW r \in Requests, NEW arguments \in ArgumentChoices, UpdateTask(r, arguments)
    PROVE  SweptInv'
<1>1. /\ pc[r] \in {"created", "updated"}
      /\ stored' = [stored EXCEPT ![r] = arguments]
      /\ pc' = [pc EXCEPT ![r] = "updated"]
      /\ UNCHANGED <<versions, asked, since, reply>>
      /\ DOMAIN pc = Requests
  BY DEF UpdateTask, SweptInv, TypeInv
<1>2. TypeInv'
  BY <1>1 DEF SweptInv, TypeInv
<1>3. ProgressInv'
  BY <1>1 DEF SweptInv, ProgressInv, Current
<1>4. ASSUME NEW s \in Requests PROVE StoredMatched(s)' /\ Refusal(s)'
  <2>1. CASE s = r
    BY <1>1, <2>1 DEF StoredMatched, Refusal
  <2>2. CASE s # r
    <3>1. pc'[s] = pc[s] /\ stored'[s] = stored[s]
      BY <1>1, <2>2
    <3> QED BY <1>1, <3>1, OthersStay
  <2> QED BY <2>1, <2>2
<1> QED BY <1>2, <1>3, <1>4 DEF SweptInv

LEMMA SweptInvariant == Spec => []SweptInv
<1>1. SweptInv /\ [Next]_vars => SweptInv'
  <2> SUFFICES ASSUME SweptInv, [Next]_vars PROVE SweptInv'
    OBVIOUS
  <2>1. CASE UNCHANGED vars
    <3>1. TypeInv' /\ ProgressInv'
      BY <2>1 DEF vars, SweptInv, TypeInv, ProgressInv, Current
    <3>2. \A s \in Requests : StoredMatched(s)' /\ Refusal(s)'
      BY <2>1, OthersStay DEF vars
    <3> QED BY <3>1, <3>2 DEF SweptInv
  <2> QED BY <2>1, BeginInv, ValidateInv, StoreInv, UpdateGeneralTaskInv, UpdateTaskInv DEF Next
<1> QED BY <1>1, InitInv, PTL DEF Spec

\* An automation task is stored under a general task only with arguments that
\* satisfied argument_lists the general task had around the request.
THEOREM TasksMatchTheirParent == Spec => []StoredTasksMatchedParent
<1>1. SweptInv => StoredTasksMatchedParent
  BY DEF SweptInv, StoredTasksMatchedParent, StoredMatched, Children
<1> QED BY <1>1, SweptInvariant, PTL

\* What _validate_at_arguments_against_gt refuses, it refuses for the reason it
\* gives, and nothing is stored.
THEOREM RefusalsAreFounded == Spec => []RefusedForItsReason
<1>1. SweptInv => RefusedForItsReason
  BY DEF SweptInv, RefusedForItsReason, Refusal, Reason
<1> QED BY <1>1, SweptInvariant, PTL
=============================================================================
