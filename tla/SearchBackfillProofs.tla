------------------------ MODULE SearchBackfillProofs ------------------------
(***************************************************************************)
(* Proofs about SearchBackfill, for any objects, sources, command lines,   *)
(* batch size and live writes: the statistics add up, --limit and          *)
(* --max-failures hold, and a run whose legacy sources come first, as main *)
(* lists them, repairs what it selects of the sources it reads.            *)
(***************************************************************************)
EXTENDS SearchBackfill, FiniteSetTheorems, TLAPS

\* Types, and an item is newer than the legacy copy of its object.
TypeInv ==
    /\ TypeOK
    /\ IsFiniteSet(failed)
    /\ phase = "reading" => Cardinality(batch) < BatchSize
    /\ \A o \in Objects : dynamo[o] = Absent \/ dynamo[o].version > Legacy[o].version

\* The call of run_backfill is about its batch, and is over when it reads.
CallInv ==
    /\ phase \in {"idle", "reading", "finished"} => call = NoCall
    /\ phase = "flushing" =>
          /\ call.docs = batch
          /\ call.outcome \in {"running", "returned"}
          /\ call.outcome = "returned" =>
                /\ call.failed \subseteq batch
                /\ call.indexed = batch \ call.failed
                /\ call.indexed \subseteq call.written
    /\ phase = "flushing" => options.execute
    /\ ~options.execute => batch = {}

\* An id of the current source is to be read, or read, or in the batch, or
\* settled.
PlaceInv ==
    /\ phase = "idle" => pass = 1 /\ seen = 0 /\ indexed = 0 /\ failed = {}
    /\ phase \in {"idle", "finished"} => unread = {} /\ page = {} /\ batch = {}
    /\ phase = "finished" => pass = Len(Passes) \/ LimitReached(seen)
    /\ unread \intersect page = {} /\ unread \intersect batch = {} /\ page \intersect batch = {}
    /\ unread \union page \union batch \subseteq Members(pass)
    /\ \A f \in failed : f.pass <= pass /\ (f.pass = pass => f.id \notin unread \union page)
    /\ phase # "aborted" => \A f \in failed : f.pass = pass => f.id \notin batch

CountInv ==
    options.execute /\ phase # "aborted" =>
        seen = indexed + Cardinality(failed) + Cardinality(batch)

\* Documents are taken only below the limit, except for the first.
LimitInv ==
    options.limit # None =>
        /\ seen <= options.limit \/ (options.limit = 0 /\ seen = 1)
        /\ unread \union page # {} => seen < options.limit \/ seen = 0

FailuresInv ==
    phase # "aborted" /\ options.maxFailures # None => Cardinality(failed) < options.maxFailures

StatsInv == TypeInv /\ CallInv /\ PlaceInv /\ CountInv /\ LimitInv /\ FailuresInv

-----------------------------------------------------------------------------
\* main lists the legacy sources first, whatever --source and --store leave
\* out.
LegacyFirst ==
    \A i, j \in DOMAIN Passes :
        Passes[i].source = "legacy" /\ Passes[j].source = "dynamo" => i < j

\* main's sources when --source is not given: every store has both.
BothSources ==
    /\ LegacyFirst
    /\ \A o \in Objects, s \in {"legacy", "dynamo"} :
          \E i \in DOMAIN Passes : Passes[i].source = s /\ Passes[i].store = StoreOf[o]

\* The version an object needs, and the source that has it.
Needed(o) == atStart.current[o].version
Origin(o) == IF atStart.current[o] = Legacy[o] THEN "legacy" ELSE "dynamo"
Decisive(o, i) == Passes[i].store = StoreOf[o] /\ Passes[i].source = Origin(o)

\* The run reads the source that has it.
Covered(o) == \E i \in DOMAIN Passes : Decisive(o, i)

\* An object the run has to repair.
Wanted == {o \in Objects \ atStart.overtaken :
              atStart.current[o] # Absent /\ Kept(o, atStart.current[o]) /\ Covered(o)}

\* The run has still to get to the object in a source that has it.
Ahead(o) ==
    \E i \in DOMAIN Passes :
        Decisive(o, i) /\ (i > pass \/ (i = pass /\ o \in unread \union page \union batch))

\* An older copy is read only from a legacy source, for an object with an item.
Outdated(o) == Passes[pass].source = "legacy" /\ Origin(o) = "dynamo"

SourcesKeep(o) ==
    /\ Origin(o) = "dynamo" =>
          dynamo[o] # Absent /\ dynamo[o].version >= Needed(o) /\ Kept(o, dynamo[o])
    /\ \A put \in inFlight : put.id = o => put.version >= Needed(o)

CopiesKeep(o) ==
    /\ o \in page \union batch => copy[o].version >= Needed(o) \/ Outdated(o)
    /\ o \in page \union batch /\ Decisive(o, pass) => Kept(o, copy[o])
    /\ o \in call.written /\ copy[o].version >= Needed(o) => index[o] >= Needed(o)

Settled(o) == index[o] >= Needed(o) \/ Failed(o, Needed(o))

OnCourse(o) == SourcesKeep(o) /\ CopiesKeep(o) /\ (Ahead(o) \/ Settled(o))

Repairing ==
    options.execute /\ options.limit = None /\ phase \in {"reading", "flushing", "finished"}

RepairInv == Repairing => \A o \in Wanted : OnCourse(o)

-----------------------------------------------------------------------------
(* Lemmas about the sets of ids. *)

LEMMA Setting ==
    /\ IsFiniteSet(Objects) /\ BatchSize \in Nat /\ BatchSize > 0 /\ MaxWrites \in Nat /\ None \notin Nat
    /\ \A o \in Objects : Legacy[o] \in Copies /\ (Legacy[o] = Absent \/ Legacy[o].version = 1)
    /\ Len(Passes) \in Nat /\ Len(Passes) > 0 /\ DOMAIN Passes = 1..Len(Passes)
    /\ Absent \in Copies /\ Absent.version = 0
<1>1. Passes \in Seq([source : {"legacy", "dynamo"}, store : {StoreOf[o] : o \in Objects}]) /\ Passes # <<>>
  BY BackfillAssumption
<1>2. Len(Passes) \in Nat /\ Len(Passes) > 0 /\ DOMAIN Passes = 1..Len(Passes)
  BY <1>1
<1>3. Absent \in Copies /\ Absent.version = 0
  BY DEF Absent, Copies, Stamps
<1>4. \A o \in Objects : Legacy[o] \in Copies /\ (Legacy[o] = Absent \/ Legacy[o].version = 1)
  BY <1>3, BackfillAssumption DEF Copies
<1> QED BY <1>2, <1>3, <1>4, BackfillAssumption

LEMMA PassSources == \A i \in DOMAIN Passes : Passes[i].source \in {"legacy", "dynamo"}
<1> DEFINE Pairs == [source : {"legacy", "dynamo"}, store : {StoreOf[o] : o \in Objects}]
<1>1. Passes \in Seq(Pairs)
  BY BackfillAssumption
<1>2. \A pair \in Pairs : pair.source \in {"legacy", "dynamo"}
  OBVIOUS
<1> HIDE DEF Pairs
<1> QED BY <1>1, <1>2

LEMMA OptionTypes ==
    ASSUME options \in Options
    PROVE  /\ options.execute \in BOOLEAN /\ options.since \in BOOLEAN
           /\ options.limit = None \/ options.limit \in Nat
           /\ options.maxFailures # None => options.maxFailures \in Nat /\ options.maxFailures > 0
BY BackfillAssumption

LEMMA FiniteIds ==
    ASSUME NEW ids \in SUBSET Objects
    PROVE  /\ IsFiniteSet(ids) /\ Cardinality(ids) \in Nat
           /\ Cardinality(ids) = 0 <=> ids = {}
BY Setting, FS_Subset, FS_CardinalityType, FS_EmptySet

\* The records of rejected documents of a batch are as many as the documents.
Rejections(ids) == {[pass |-> pass, id |-> o, version |-> copy[o].version] : o \in ids}

LEMMA RejectionsCounted ==
    ASSUME NEW ids \in SUBSET Objects
    PROVE  IsFiniteSet(Rejections(ids)) /\ Cardinality(Rejections(ids)) = Cardinality(ids)
<1> DEFINE T == Rejections(ids)
           f == [o \in ids |-> [pass |-> pass, id |-> o, version |-> copy[o].version]]
<1>1. f \in [ids -> T]
  BY DEF Rejections
<1>2. \A a, b \in ids : f[a] = f[b] => a = b
  OBVIOUS
<1>3. \A t \in T : \E a \in ids : f[a] = t
  BY DEF Rejections
<1> HIDE DEF f, T
<1>4. f \in Bijection(ids, T)
  BY <1>1, <1>2, <1>3 DEF Bijection, Injection, IsInjective, Surjection
<1>5. ExistsBijection(ids, T)
  BY <1>4 DEF ExistsBijection
<1> QED BY <1>5, FiniteIds, FS_Bijection DEF T

LEMMA DisjointUnion ==
    ASSUME NEW S, NEW T, IsFiniteSet(S), IsFiniteSet(T), S \intersect T = {}
    PROVE  IsFiniteSet(S \union T) /\ Cardinality(S \union T) = Cardinality(S) + Cardinality(T)
BY FS_Union, FS_EmptySet, FS_CardinalityType, SMTT(30)

-----------------------------------------------------------------------------
(* The statistics, the limits and the types. *)

LEMMA StatsInit == Init => StatsInv
<1> SUFFICES ASSUME Init PROVE StatsInv
  OBVIOUS
<1> USE Setting, FS_EmptySet
<1>1. /\ \A o \in Objects : dynamo[o] \in Copies /\ index[o] \in Nat
      /\ \A o \in Objects : dynamo[o] = Absent \/ dynamo[o].version = 2
      /\ dynamo \in [Objects -> Copies] /\ index \in [Objects -> Nat]
      /\ inFlight \subseteq [id : Objects, version : Nat]
  <2> DEFINE Fresh == [version : {2}, stamp : {"undated", "before"}]
  <2>1. \A item \in Fresh : item \in Copies /\ item.version = 2
    BY DEF Copies, Stamps
  <2>2. dynamo \in [Objects -> {Absent} \union Fresh]
    BY DEF Init
  <2>3. dynamo \in [Objects -> Copies] /\ \A o \in Objects : dynamo[o] \in {Absent} \union Fresh
    <3> HIDE DEF Fresh
    <3> QED BY <2>1, <2>2
  <2>4. \A o \in Objects : dynamo[o] \in Copies /\ (dynamo[o] = Absent \/ dynamo[o].version = 2)
    <3> HIDE DEF Fresh
    <3> QED BY <2>1, <2>3
  <2>5. index \in [Objects -> Nat]
    BY DEF Init
  <2>6. inFlight \subseteq [id : Objects, version : Nat]
    BY DEF Init
  <2> QED BY <2>3, <2>4, <2>5, <2>6
<1>2. \A o \in Objects : dynamo[o] = Absent \/ dynamo[o].version > Legacy[o].version
  BY <1>1
<1>3. TypeOK
  BY <1>1 DEF Init, TypeOK, NoCall
<1>4. TypeInv
  BY <1>2, <1>3 DEF TypeInv, Init
<1>5. CallInv /\ PlaceInv
  BY DEF Init, CallInv, PlaceInv
<1>6. options \in Options
  BY DEF Init
<1>7. CountInv /\ LimitInv /\ FailuresInv
  BY <1>6, OptionTypes DEF Init, CountInv, LimitInv, FailuresInv
<1> QED BY <1>4, <1>5, <1>7 DEF StatsInv

\* The live write path touches neither the run nor its statistics.
LiveFrame ==
    /\ UNCHANGED <<options, phase, pass, unread, page, copy, batch, seen, indexed, failed, call, atStart>>
    /\ dynamo' \in [Objects -> Copies] /\ index' \in [Objects -> Nat]
    /\ inFlight' \subseteq [id : Objects, version : Nat] /\ writes' \subseteq [id : Objects, version : Nat]
    /\ \A o \in Objects : dynamo'[o] = Absent \/ dynamo'[o].version > Legacy[o].version

LEMMA StatsLive ==
    ASSUME StatsInv, Live
    PROVE  StatsInv'
<1>0. LiveFrame
  <2>1. ASSUME NEW o \in Objects, LiveWrite(o) PROVE LiveFrame
    <3>1. Current(o) \in Copies /\ Current(o).version >= Legacy[o].version /\ Legacy[o].version \in Nat
      BY Setting DEF Current, StatsInv, TypeInv, TypeOK, Copies
    <3>2. PICK stamp \in {Current(o).stamp, "since"} :
            dynamo' = [dynamo EXCEPT ![o] = [version |-> Current(o).version + 1, stamp |-> stamp]]
      BY <2>1 DEF LiveWrite
    <3>3. /\ [version |-> Current(o).version + 1, stamp |-> stamp] \in Copies
          /\ Current(o).version + 1 > Legacy[o].version
          /\ [id |-> o, version |-> Current(o).version + 1] \in [id : Objects, version : Nat]
      BY <3>1 DEF Copies, Stamps
    <3>4. dynamo' \in [Objects -> Copies]
          /\ \A x \in Objects : dynamo'[x] = Absent \/ dynamo'[x].version > Legacy[x].version
      BY <3>2, <3>3 DEF StatsInv, TypeInv, TypeOK
    <3> QED
      BY <2>1, <3>3, <3>4 DEF LiveFrame, LiveWrite, StatsInv, TypeInv, TypeOK, readVars, statVars
  <2>2. ASSUME NEW put \in inFlight, LivePut(put) PROVE LiveFrame
    BY <2>2 DEF LiveFrame, LivePut, StatsInv, TypeInv, TypeOK, readVars, statVars
  <2> QED BY <2>1, <2>2 DEF Live
<1>1. TypeInv'
  BY <1>0 DEF LiveFrame, StatsInv, TypeInv, TypeOK
<1> QED
  BY <1>0, <1>1 DEF LiveFrame, StatsInv, CallInv, PlaceInv, CountInv, LimitInv, FailuresInv, Members, LimitReached

LEMMA StatsRead ==
    ASSUME StatsInv,
           StartRun \/ ReadPage \/ ReadFails \/ (\E o \in page : Skip(o))
    PROVE  StatsInv'
<1> USE Setting
<1>0. TypeOK /\ options \in Options /\ Members(1) \subseteq Objects
  BY DEF StatsInv, TypeInv, TypeOK, Members
<1>1. CASE StartRun
  <2>1. /\ phase = "idle" /\ phase' = "reading" /\ unread' = Members(1)
        /\ UNCHANGED <<dynamo, inFlight, writes, index, options, pass, page, copy, batch, seen, indexed, failed, call>>
    BY <1>1 DEF StartRun, liveVars, statVars
  <2>2. atStart' \in [current : [Objects -> Copies], overtaken : SUBSET Objects]
    BY <1>0, <1>1 DEF StartRun, Current, TypeOK
  <2>3. Cardinality(batch) < BatchSize
    BY <2>1, FS_EmptySet DEF StatsInv, PlaceInv
  <2>4. TypeInv'
    BY <1>0, <2>1, <2>2, <2>3 DEF StatsInv, TypeInv, TypeOK
  <2>5. CallInv' /\ CountInv' /\ FailuresInv'
    BY <2>1 DEF StatsInv, CallInv, CountInv, FailuresInv
  <2>6. PlaceInv'
    BY <2>1 DEF StatsInv, PlaceInv, Members
  <2>7. LimitInv'
    BY <2>1 DEF StatsInv, LimitInv, PlaceInv
  <2> QED BY <2>4, <2>5, <2>6, <2>7 DEF StatsInv
<1>2. CASE ReadPage
  <2>1. PICK ids \in SUBSET unread :
          /\ ids # {} /\ unread' = unread \ ids /\ page' = {o \in ids : Source(o) # Absent}
          /\ copy' = [o \in Objects |-> IF o \in page' THEN Source(o) ELSE copy[o]]
    BY <1>2 DEF ReadPage
  <2>2. /\ phase = "reading" /\ page = {}
        /\ UNCHANGED <<dynamo, inFlight, writes, index, options, phase, pass, batch, seen, indexed, failed, call, atStart>>
    BY <1>2 DEF ReadPage, liveVars, statVars
  <2>3. page' \subseteq ids /\ ids \subseteq unread /\ unread \subseteq Objects
    BY <1>0, <2>1 DEF TypeOK
  <2>4. copy' \in [Objects -> Copies]
    BY <1>0, <2>1 DEF Source, TypeOK
  <2>5. TypeInv'
    BY <1>0, <2>1, <2>2, <2>3, <2>4 DEF StatsInv, TypeInv, TypeOK
  <2>6. CallInv' /\ CountInv' /\ FailuresInv'
    BY <2>2 DEF StatsInv, CallInv, CountInv, FailuresInv
  <2>7. PlaceInv'
    BY <2>1, <2>2, <2>3 DEF StatsInv, PlaceInv, Members
  <2>8. LimitInv'
    BY <2>1, <2>2, <2>3 DEF StatsInv, LimitInv
  <2> QED BY <2>5, <2>6, <2>7, <2>8 DEF StatsInv
<1>3. CASE ReadFails
  <2>1. /\ phase' = "aborted"
        /\ UNCHANGED <<dynamo, inFlight, writes, index, options, pass, unread, page, copy, batch, seen, indexed, failed, call, atStart>>
    BY <1>3 DEF ReadFails, liveVars, statVars, readVars
  <2>2. TypeInv'
    BY <1>0, <2>1 DEF StatsInv, TypeInv, TypeOK
  <2> QED
    BY <2>1, <2>2 DEF StatsInv, CallInv, PlaceInv, CountInv, LimitInv, FailuresInv, Members
<1>4. ASSUME NEW o \in page, Skip(o) PROVE StatsInv'
  <2>1. /\ phase = "reading" /\ page' = page \ {o} /\ copy' = [copy EXCEPT ![o] = Absent]
        /\ UNCHANGED <<dynamo, inFlight, writes, index, options, phase, pass, unread, batch, seen, indexed, failed, call, atStart>>
    BY <1>4 DEF Skip, liveVars, statVars
  <2>2. TypeInv'
    BY <1>0, <2>1 DEF StatsInv, TypeInv, TypeOK
  <2> QED
    BY <2>1, <2>2 DEF StatsInv, CallInv, PlaceInv, CountInv, LimitInv, FailuresInv, Members
<1> QED BY <1>1, <1>2, <1>3, <1>4

\* GoOn leaves a part of what there is, and nothing at the limit.
LEMMA GoingOn ==
    ASSUME NEW o, GoOn(o)
    PROVE  /\ page' \subseteq page \ {o} /\ unread' \subseteq unread
           /\ page' \union unread' # {} => ~LimitReached(seen + 1)
           /\ ~LimitReached(seen + 1) => page' = page \ {o} /\ unread' = unread
BY DEF GoOn

LEMMA LimitKept ==
    ASSUME StatsInv, NEW o \in page, GoOn(o), seen' = seen + 1, UNCHANGED options
    PROVE  LimitInv'
<1> SUFFICES ASSUME options.limit # None PROVE LimitInv'
  BY DEF LimitInv
<1>1. options.limit \in Nat /\ seen \in Nat /\ options.limit' = options.limit
  BY OptionTypes DEF StatsInv, TypeInv, TypeOK
<1>2. seen < options.limit \/ seen = 0
  BY DEF StatsInv, LimitInv
<1>3. page' \union unread' # {} => seen + 1 < options.limit
  BY <1>1, GoingOn DEF LimitReached
<1> QED BY <1>1, <1>2, <1>3 DEF LimitInv

LEMMA StatsTake ==
    ASSUME StatsInv, NEW o \in page, Count(o) \/ Take(o)
    PROVE  StatsInv'
<1> USE Setting
<1>0. TypeOK /\ o \in Objects /\ page \subseteq Objects
  BY DEF StatsInv, TypeInv, TypeOK
<1>1. CASE Count(o)
  <2>1. /\ phase = "reading" /\ ~options.execute /\ seen' = seen + 1
        /\ copy' = [copy EXCEPT ![o] = Absent]
        /\ UNCHANGED <<dynamo, inFlight, writes, index, options, phase, pass, batch, indexed, failed, call, atStart>>
    BY <1>1 DEF Count, liveVars
  <2>2. page' \subseteq page /\ unread' \subseteq unread /\ LimitInv'
    BY <1>1, <2>1, GoingOn, LimitKept DEF Count
  <2>3. TypeInv'
    BY <1>0, <2>1, <2>2 DEF StatsInv, TypeInv, TypeOK
  <2>4. CallInv' /\ CountInv' /\ FailuresInv'
    BY <2>1 DEF StatsInv, CallInv, CountInv, FailuresInv
  <2>5. PlaceInv'
    BY <2>1, <2>2 DEF StatsInv, PlaceInv, Members
  <2> QED
    BY <2>2, <2>3, <2>4, <2>5 DEF StatsInv
<1>2. CASE Take(o)
  <2>1. /\ phase = "reading" /\ options.execute /\ seen' = seen + 1 /\ batch' = batch \union {o}
        /\ UNCHANGED <<dynamo, inFlight, writes, index, options, pass, copy, indexed, failed, atStart>>
        /\ \/ phase' = "flushing" /\ call' = [NoCall EXCEPT !.docs = batch', !.outcome = "running"]
           \/ UNCHANGED <<phase, call>> /\ Cardinality(batch') < BatchSize
    BY <1>2 DEF Take, Flush, liveVars
  <2>2. page' \subseteq page \ {o} /\ unread' \subseteq unread /\ LimitInv'
    BY <1>2, <2>1, GoingOn, LimitKept DEF Take
  <2>3. /\ o \notin batch /\ batch \subseteq Objects /\ batch' \subseteq Objects
        /\ o \notin unread
    BY <1>0, <2>1 DEF StatsInv, PlaceInv, TypeOK
  <2>4. /\ Cardinality(batch') = Cardinality(batch) + 1 /\ Cardinality(batch) \in Nat
        /\ Cardinality(batch) < BatchSize
    BY <2>1, <2>3, FiniteIds, FS_AddElement DEF StatsInv, TypeInv
  <2>5. /\ call' \in [docs : SUBSET Objects, written : SUBSET Objects, indexed : SUBSET Objects,
                       failed : SUBSET Objects, outcome : {"running", "returned", "raised"}]
        /\ phase' = "flushing" => call'.docs = batch' /\ call'.outcome = "running"
        /\ phase' # "flushing" => call' = NoCall
        /\ phase' \in {"reading", "flushing"}
    <3>1. call = NoCall
      BY <2>1 DEF StatsInv, CallInv
    <3> QED BY <1>0, <2>1, <2>3, <3>1 DEF TypeOK, NoCall
  <2>6. TypeInv'
    <3>1. seen' \in Nat /\ unread' \subseteq Objects /\ page' \subseteq Objects
          /\ Cardinality(batch') <= BatchSize /\ (phase' = "reading" => Cardinality(batch') < BatchSize)
      BY <1>0, <2>1, <2>2, <2>4 DEF TypeOK
    <3>2. TypeOK'
      BY <1>0, <2>1, <2>3, <2>5, <3>1 DEF TypeOK
    <3> QED BY <2>1, <3>1, <3>2 DEF StatsInv, TypeInv
  <2>7. CallInv'
    BY <2>1, <2>5 DEF CallInv
  <2>8. PlaceInv'
    BY <2>1, <2>2, <2>3, <2>5 DEF StatsInv, PlaceInv, Members
  <2>9. FailuresInv'
    BY <2>1, <2>5 DEF StatsInv, FailuresInv
  <2>10. CountInv'
    <3>1. /\ seen \in Nat /\ indexed \in Nat /\ Cardinality(failed) \in Nat
          /\ seen = indexed + Cardinality(failed) + Cardinality(batch)
      BY <1>0, <2>1, FS_CardinalityType DEF StatsInv, TypeInv, TypeOK, CountInv
    <3> QED BY <2>1, <2>4, <2>5, <3>1 DEF CountInv
  <2> QED BY <2>2, <2>6, <2>7, <2>8, <2>9, <2>10 DEF StatsInv
<1> QED BY <1>1, <1>2

LEMMA StatsEndSource ==
    ASSUME StatsInv, EndSource
    PROVE  StatsInv'
<1> USE Setting
<1>0. /\ TypeOK /\ phase = "reading" /\ page = {} /\ unread = {} /\ call = NoCall /\ batch \subseteq Objects
      /\ pass \in DOMAIN Passes
      /\ UNCHANGED <<dynamo, inFlight, writes, index, options, page, copy, seen, indexed, failed, atStart, batch>>
  BY DEF StatsInv, TypeInv, TypeOK, CallInv, EndSource, liveVars, statVars
<1>1. CASE batch # {}
  <2>1. /\ phase' = "flushing" /\ call' = [NoCall EXCEPT !.docs = batch, !.outcome = "running"]
        /\ UNCHANGED <<pass, unread>>
    BY <1>0, <1>1 DEF EndSource, Flush
  <2>2. /\ call' \in [docs : SUBSET Objects, written : SUBSET Objects, indexed : SUBSET Objects,
                       failed : SUBSET Objects, outcome : {"running", "returned", "raised"}]
        /\ call'.docs = batch /\ call'.outcome = "running"
    BY <1>0, <2>1 DEF NoCall
  <2>3. TypeInv'
    BY <1>0, <2>1, <2>2 DEF StatsInv, TypeInv, TypeOK
  <2> QED
    BY <1>0, <1>1, <2>1, <2>2, <2>3
       DEF StatsInv, CallInv, PlaceInv, CountInv, LimitInv, FailuresInv, Members
<1>2. CASE batch = {} /\ (pass = Len(Passes) \/ LimitReached(seen))
  <2>1. /\ phase' = "finished" /\ UNCHANGED <<pass, unread, call>>
    BY <1>0, <1>2 DEF EndSource
  <2>2. TypeInv'
    BY <1>0, <2>1 DEF StatsInv, TypeInv, TypeOK
  <2> QED
    BY <1>0, <1>2, <2>1, <2>2
       DEF StatsInv, CallInv, PlaceInv, CountInv, LimitInv, FailuresInv, Members, LimitReached
<1>3. CASE batch = {} /\ pass # Len(Passes) /\ ~LimitReached(seen)
  <2>1. /\ phase' = "reading" /\ pass' = pass + 1 /\ unread' = Members(pass + 1) /\ UNCHANGED call
    BY <1>0, <1>3 DEF EndSource
  <2>2. pass + 1 \in DOMAIN Passes /\ pass \in Nat /\ Members(pass + 1) \subseteq Objects
    BY <1>0, <1>3 DEF Members
  <2>3. TypeInv'
    BY <1>0, <2>1, <2>2 DEF StatsInv, TypeInv, TypeOK
  <2>4. CallInv' /\ CountInv' /\ FailuresInv'
    BY <1>0, <1>3, <2>1 DEF StatsInv, CallInv, CountInv, FailuresInv
  <2>5. PlaceInv'
    <3>1. \A f \in failed : f.pass \in Nat /\ f.pass <= pass
      BY <1>0, <2>2 DEF TypeOK, StatsInv, PlaceInv
    <3>2. \A f \in failed : f.pass <= pass + 1 /\ f.pass # pass + 1
      BY <2>2, <3>1
    <3> QED BY <1>0, <1>3, <2>1, <3>2 DEF PlaceInv, Members
  <2>6. LimitInv'
    <3>1. seen \in Nat /\ (options.limit = None \/ options.limit \in Nat)
      BY <1>0, OptionTypes DEF TypeOK
    <3> QED BY <1>0, <1>3, <2>1, <3>1 DEF StatsInv, LimitInv, LimitReached
  <2> QED BY <2>3, <2>4, <2>5, <2>6 DEF StatsInv
<1> QED BY <1>1, <1>2, <1>3

LEMMA StatsBulk ==
    ASSUME StatsInv, BulkWrite \/ BulkReturn \/ BulkRaise
    PROVE  StatsInv'
<1>0. /\ TypeOK /\ phase = "flushing" /\ call.docs = batch /\ call.outcome = "running" /\ options.execute
      /\ call \in [docs : SUBSET Objects, written : SUBSET Objects, indexed : SUBSET Objects,
                   failed : SUBSET Objects, outcome : {"running", "returned", "raised"}]
      /\ batch \subseteq Objects
      /\ UNCHANGED <<dynamo, inFlight, writes, options, pass, unread, page, copy, batch, seen, indexed, failed, atStart>>
  BY DEF StatsInv, TypeInv, TypeOK, CallInv, BulkWrite, BulkReturn, BulkRaise, Calling,
         liveVars, readVars, statVars
<1>1. CASE BulkWrite
  <2>1. PICK some \in SUBSET batch :
          /\ call' = [call EXCEPT !.written = @ \union some]
          /\ index' = [o \in Objects |-> IF o \in some THEN copy[o].version ELSE index[o]]
    BY <1>1 DEF BulkWrite
  <2>2. index' \in [Objects -> Nat] /\ phase' = "flushing"
    BY <1>0, <1>1, <2>1 DEF BulkWrite, TypeOK, Copies
  <2>3. /\ call' \in [docs : SUBSET Objects, written : SUBSET Objects, indexed : SUBSET Objects,
                       failed : SUBSET Objects, outcome : {"running", "returned", "raised"}]
        /\ call'.docs = batch /\ call'.outcome = "running"
    BY <1>0, <2>1
  <2>4. TypeInv'
    BY <1>0, <2>2, <2>3 DEF StatsInv, TypeInv, TypeOK
  <2> QED
    BY <1>0, <2>2, <2>3, <2>4 DEF StatsInv, CallInv, PlaceInv, CountInv, LimitInv, FailuresInv, Members
<1>2. CASE BulkReturn
  <2>1. PICK rejected \in SUBSET batch :
          call' = [call EXCEPT !.indexed = batch \ rejected, !.failed = rejected, !.outcome = "returned"]
    BY <1>2 DEF BulkReturn
  <2>2. UNCHANGED <<index, phase>> /\ call'.indexed \subseteq call'.written
    BY <1>2 DEF BulkReturn, Bulk!Return
  <2>3. /\ call' \in [docs : SUBSET Objects, written : SUBSET Objects, indexed : SUBSET Objects,
                       failed : SUBSET Objects, outcome : {"running", "returned", "raised"}]
        /\ call'.docs = batch /\ call'.outcome = "returned"
        /\ call'.failed = rejected /\ call'.indexed = batch \ rejected
    BY <1>0, <2>1
  <2>4. TypeInv'
    BY <1>0, <2>2, <2>3 DEF StatsInv, TypeInv, TypeOK
  <2> QED
    BY <1>0, <2>2, <2>3, <2>4 DEF StatsInv, CallInv, PlaceInv, CountInv, LimitInv, FailuresInv, Members
<1>3. CASE BulkRaise
  <2>1. UNCHANGED index /\ phase' = "aborted" /\ call' = [call EXCEPT !.outcome = "raised"]
    BY <1>3 DEF BulkRaise
  <2>2. TypeInv'
    BY <1>0, <2>1 DEF StatsInv, TypeInv, TypeOK
  <2> QED
    BY <1>0, <2>1, <2>2 DEF StatsInv, CallInv, PlaceInv, CountInv, LimitInv, FailuresInv, Members
<1> QED BY <1>1, <1>2, <1>3

LEMMA StatsRecord ==
    ASSUME StatsInv, Record
    PROVE  StatsInv'
<1> USE Setting
<1>0. /\ TypeOK /\ phase = "flushing" /\ options.execute
      /\ call.failed \subseteq batch /\ call.indexed = batch \ call.failed /\ batch \subseteq Objects
      /\ UNCHANGED <<dynamo, inFlight, writes, index, options, pass, unread, page, seen, atStart>>
  BY DEF StatsInv, TypeInv, TypeOK, CallInv, Record, liveVars
<1>1. /\ batch' = {} /\ call' = NoCall /\ indexed' = indexed + Cardinality(call.indexed)
      /\ failed' = failed \union Rejections(call.failed)
      /\ phase' = IF TooManyFailures THEN "aborted" ELSE "reading"
      /\ copy' = [o \in Objects |-> IF o \in page THEN copy[o] ELSE Absent]
  BY DEF Record, AddStats, Rejections
<1>2. /\ Rejections(call.failed) \subseteq [pass : {pass}, id : call.failed, version : Nat]
      /\ pass \in DOMAIN Passes
  BY <1>0 DEF Rejections, TypeOK, Copies
<1>3. failed \intersect Rejections(call.failed) = {}
  BY <1>0, <1>2 DEF StatsInv, PlaceInv
<1>4. /\ IsFiniteSet(failed') /\ Cardinality(failed') = Cardinality(failed) + Cardinality(call.failed)
      /\ Cardinality(failed) \in Nat /\ Cardinality(call.failed) \in Nat
  <2>1. IsFiniteSet(failed) /\ Cardinality(failed) \in Nat
    BY FS_CardinalityType DEF StatsInv, TypeInv
  <2>2. /\ IsFiniteSet(Rejections(call.failed))
        /\ Cardinality(Rejections(call.failed)) = Cardinality(call.failed)
        /\ Cardinality(call.failed) \in Nat
    BY <1>0, RejectionsCounted, FiniteIds
  <2> QED BY <1>1, <1>3, <2>1, <2>2, DisjointUnion
<1>5. Cardinality(batch) = Cardinality(call.indexed) + Cardinality(call.failed) /\ Cardinality(call.indexed) \in Nat
  <2>1. batch = call.indexed \union call.failed /\ call.indexed \intersect call.failed = {}
        /\ call.indexed \subseteq Objects /\ call.failed \subseteq Objects
    BY <1>0
  <2> QED BY <2>1, FiniteIds, DisjointUnion
<1>6. TypeInv'
  <2>1. failed' \subseteq [pass : DOMAIN Passes, id : Objects, version : Nat]
    BY <1>0, <1>1, <1>2 DEF TypeOK
  <2>2. indexed' \in Nat /\ copy' \in [Objects -> Copies] /\ phase' \in {"reading", "aborted"}
    BY <1>0, <1>1, <1>5 DEF TypeOK
  <2>3. batch' \subseteq Objects /\ Cardinality(batch') < BatchSize /\ Cardinality(batch') <= BatchSize
    BY <1>1, FS_EmptySet
  <2>4. call' \in [docs : SUBSET Objects, written : SUBSET Objects, indexed : SUBSET Objects,
                   failed : SUBSET Objects, outcome : {"running", "returned", "raised"}]
    BY <1>1 DEF NoCall
  <2>5. TypeOK'
    BY <1>0, <1>1, <2>1, <2>2, <2>3, <2>4 DEF TypeOK
  <2> QED BY <1>0, <1>4, <2>3, <2>5 DEF StatsInv, TypeInv
<1>7. CallInv'
  BY <1>0, <1>1 DEF CallInv
<1>8. PlaceInv'
  <2>1. \A f \in Rejections(call.failed) : f.pass = pass /\ f.id \in batch
    BY <1>0, <1>2
  <2>2. pass \in Nat
    BY <1>2
  <2>3. ASSUME NEW f \in failed'
        PROVE  f.pass <= pass /\ (f.pass = pass => f.id \notin unread \union page)
    <3>1. CASE f \in failed
      BY <3>1 DEF StatsInv, PlaceInv
    <3>2. CASE f \in Rejections(call.failed)
      <4>1. f.pass = pass /\ f.id \in batch
        BY <2>1, <3>2
      <4>2. batch \intersect (unread \union page) = {}
        BY DEF StatsInv, PlaceInv
      <4> QED BY <2>2, <4>1, <4>2
    <3> QED BY <1>1, <3>1, <3>2
  <2> QED BY <1>0, <1>1, <2>3 DEF StatsInv, PlaceInv, Members
<1>9. CountInv'
  <2>1. seen = indexed + Cardinality(failed) + Cardinality(batch) /\ indexed \in Nat /\ seen \in Nat
    BY <1>0 DEF StatsInv, CountInv, TypeOK
  <2>2. seen' = seen /\ Cardinality(batch') = 0
    BY <1>0, <1>1, FS_EmptySet
  <2> QED BY <1>1, <1>4, <1>5, <2>1, <2>2 DEF CountInv
<1>10. LimitInv'
  BY <1>0 DEF StatsInv, LimitInv
<1>11. FailuresInv'
  <2>1. options.maxFailures # None => options.maxFailures \in Nat
    BY <1>0, OptionTypes DEF TypeOK
  <2>2. Cardinality(failed') \in Nat
    BY <1>4
  <2> QED BY <1>0, <1>1, <2>1, <2>2 DEF FailuresInv, TooManyFailures
<1> QED BY <1>6, <1>7, <1>8, <1>9, <1>10, <1>11 DEF StatsInv

\* The invariant of the statistics.
LEMMA StatsInvariant == Spec => []StatsInv
<1>1. StatsInv /\ [Next]_vars => StatsInv'
  <2> SUFFICES ASSUME StatsInv, [Next]_vars PROVE StatsInv'
    OBVIOUS
  <2>1. CASE UNCHANGED vars
    BY <2>1 DEF vars, liveVars, readVars, statVars, StatsInv, TypeInv, TypeOK, CallInv, PlaceInv, CountInv,
       LimitInv, FailuresInv, Members, LimitReached
  <2> QED
    BY <2>1, StatsLive, StatsRead, StatsTake, StatsEndSource, StatsBulk, StatsRecord DEF Next, Run
<1> QED BY <1>1, StatsInit, PTL DEF Spec

\* The types of the run, and no batch is longer than --batch-size.
THEOREM TypeCorrect == Spec => []TypeOK
<1>1. StatsInv => TypeOK
  BY DEF StatsInv, TypeInv
<1> QED BY <1>1, StatsInvariant, PTL

\* BackfillStats accounts for every document that run_backfill takes.
THEOREM StatsAddUp == Spec => []CountsAddUp
<1>1. StatsInv => CountsAddUp
  BY DEF StatsInv, CountInv, CountsAddUp
<1> QED BY <1>1, StatsInvariant, PTL

\* run_backfill reads on only below --max-failures.
THEOREM MaxFailuresHolds == Spec => []StopsAtMaxFailures
<1>1. StatsInv => StopsAtMaxFailures
  BY DEF StatsInv, FailuresInv, StopsAtMaxFailures
<1> QED BY <1>1, StatsInvariant, PTL

\* --limit holds across batches and sources, but for the first document.
THEOREM LimitHolds == Spec => []LimitRespected
<1>1. StatsInv => LimitRespected
  BY DEF StatsInv, LimitInv, LimitRespected
<1> QED BY <1>1, StatsInvariant, PTL

-----------------------------------------------------------------------------
(* The repair. *)

LEMMA WantedFacts ==
    ASSUME StatsInv, NEW o \in Wanted
    PROVE  /\ o \in Objects /\ o \notin atStart.overtaken
           /\ Needed(o) \in Nat /\ atStart.current[o] # Absent /\ Kept(o, atStart.current[o])
           /\ dynamo[o] \in Copies /\ dynamo[o].version \in Nat /\ copy[o].version \in Nat
           /\ Legacy[o] \in Copies /\ Legacy[o].version \in Nat /\ index[o] \in Nat
           /\ pass \in Nat /\ DOMAIN Passes \subseteq Nat /\ pass \in DOMAIN Passes
BY Setting DEF Wanted, Needed, StatsInv, TypeInv, TypeOK, Copies

\* The current version of an object that is on course is at least the needed one.
LEMMA CurrentIsEnough ==
    ASSUME StatsInv, NEW o \in Wanted, SourcesKeep(o)
    PROVE  Current(o).version \in Nat /\ Current(o).version >= Needed(o)
BY WantedFacts, Setting DEF Current, SourcesKeep, Origin, Needed, StatsInv, TypeInv

\* An object of which only an older copy has been read is still ahead.
LEMMA OutdatedIsAhead ==
    ASSUME LegacyFirst, StatsInv, NEW o \in Wanted, Outdated(o)
    PROVE  \E i \in DOMAIN Passes : Decisive(o, i) /\ i > pass
BY WantedFacts DEF LegacyFirst, Wanted, Covered, Outdated, Decisive

LEMMA RepairStart ==
    ASSUME LegacyFirst, StatsInv, StartRun, Repairing'
    PROVE  \A o \in Wanted' : OnCourse(o)'
<1> SUFFICES ASSUME NEW o \in Wanted' PROVE OnCourse(o)'
  OBVIOUS
<1> USE Setting
<1>1. /\ TypeOK /\ page = {} /\ batch = {} /\ call.written = {} /\ pass = 1
      /\ UNCHANGED <<dynamo, inFlight, options, page, batch, call, pass>>
      /\ unread' = Members(1)
  BY DEF StatsInv, TypeInv, CallInv, PlaceInv, StartRun, liveVars, NoCall
<1>2. /\ o \in Objects
      /\ atStart'.current[o] = Current(o) /\ Kept(o, Current(o)) /\ Covered(o)'
      /\ \A put \in inFlight : put.id = o => ~(put.version < Current(put.id).version)
  BY <1>1 DEF Wanted, StartRun, Kept
<1>3. /\ Needed(o)' = Current(o).version
      /\ Origin(o)' = IF Current(o) = Legacy[o] THEN "legacy" ELSE "dynamo"
  BY <1>2 DEF Needed, Origin
<1>4. dynamo[o].version \in Nat /\ Current(o).version \in Nat
      /\ \A put \in inFlight : put.version \in Nat
  BY <1>1, <1>2 DEF TypeOK, Copies, Current
<1>5. SourcesKeep(o)'
  <2>1. Origin(o)' = "dynamo" => dynamo[o] # Absent /\ Current(o) = dynamo[o]
    BY <1>3 DEF Current
  <2>2. \A put \in inFlight : put.id = o => put.version >= Current(o).version
    BY <1>2, <1>4
  <2>3. Kept(o, dynamo[o])' <=> Kept(o, dynamo[o])
    BY <1>1 DEF Kept
  <2> QED BY <1>1, <1>2, <1>3, <1>4, <2>1, <2>2, <2>3 DEF SourcesKeep
<1>6. CopiesKeep(o)'
  BY <1>1 DEF CopiesKeep
<1>7. Ahead(o)'
  <2>1. PICK i \in DOMAIN Passes : Passes[i].source = Origin(o)' /\ Passes[i].store = StoreOf[o]
    BY <1>2 DEF Covered, Decisive
  <2>2. Decisive(o, i)'
    BY <2>1 DEF Decisive
  <2>3. i = 1 => o \in Members(1)
    BY <1>2, <2>1 DEF Members
  <2> QED BY <1>1, <2>2, <2>3 DEF Ahead
<1> QED BY <1>5, <1>6, <1>7 DEF OnCourse

LEMMA RepairLive ==
    ASSUME StatsInv, NEW o \in Wanted, OnCourse(o), Live
    PROVE  OnCourse(o)'
<1> USE WantedFacts
<1>0. UNCHANGED <<options, phase, pass, unread, page, copy, batch, seen, indexed, failed, call, atStart>>
  BY DEF Live, LiveWrite, LivePut, readVars, statVars
<1>1. /\ Needed(o)' = Needed(o) /\ Origin(o)' = Origin(o)
      /\ Ahead(o)' <=> Ahead(o)
      /\ Failed(o, Needed(o))' <=> Failed(o, Needed(o))
      /\ Outdated(o)' <=> Outdated(o)
      /\ Decisive(o, pass)' <=> Decisive(o, pass)
  BY <1>0 DEF Needed, Origin, Ahead, Decisive, Failed, Outdated
<1>2. ASSUME NEW x \in Objects, LiveWrite(x) PROVE OnCourse(o)'
  <2>1. PICK stamp \in {Current(x).stamp, "since"} :
          dynamo' = [dynamo EXCEPT ![x] = [version |-> Current(x).version + 1, stamp |-> stamp]]
    BY <1>2 DEF LiveWrite
  <2>2. /\ inFlight' = inFlight \union {[id |-> x, version |-> Current(x).version + 1]}
        /\ UNCHANGED index
    BY <1>2 DEF LiveWrite
  <2>3. SourcesKeep(o) /\ Current(o).version \in Nat /\ Current(o).version >= Needed(o)
    BY CurrentIsEnough DEF OnCourse
  <2>4. ASSUME Origin(o) = "dynamo"
        PROVE  dynamo'[o] # Absent /\ dynamo'[o].version >= Needed(o) /\ Kept(o, dynamo'[o])
    <3>1. dynamo[o] # Absent /\ dynamo[o].version >= Needed(o) /\ Kept(o, dynamo[o])
      BY <2>3, <2>4 DEF SourcesKeep
    <3>2. CASE x # o
      BY <2>1, <3>1, <3>2
    <3>3. CASE x = o
      <4>1. dynamo'[o] = [version |-> Current(o).version + 1, stamp |-> stamp] /\ Current(o) = dynamo[o]
        BY <2>1, <3>1, <3>3 DEF StatsInv, TypeInv, TypeOK, Current
      <4>2. stamp = dynamo[o].stamp \/ stamp = "since"
        BY <3>3, <4>1
      <4> QED BY <2>3, <3>1, <4>1, <4>2 DEF Kept, Absent
    <3> QED BY <3>2, <3>3
  <2>5. \A put \in inFlight' : put.id = o => put.version >= Needed(o)
    <3>1. \A put \in inFlight : put.id = o => put.version >= Needed(o)
      BY <2>3 DEF SourcesKeep
    <3> QED BY <2>2, <2>3, <3>1
  <2>6. SourcesKeep(o)'
    <3>1. Kept(o, dynamo[o])' <=> Kept(o, dynamo'[o])
      BY <1>0 DEF Kept
    <3> QED BY <1>1, <2>4, <2>5, <3>1 DEF SourcesKeep
  <2>7. CopiesKeep(o)' /\ (Ahead(o)' \/ Settled(o)')
    BY <1>0, <1>1, <2>2 DEF OnCourse, CopiesKeep, Settled, Kept
  <2> QED BY <2>6, <2>7 DEF OnCourse
<1>3. ASSUME NEW put \in inFlight, LivePut(put) PROVE OnCourse(o)'
  <2>1. /\ inFlight' \subseteq inFlight /\ UNCHANGED dynamo
        /\ index' = [index EXCEPT ![put.id] = put.version] \/ UNCHANGED index
    BY <1>3 DEF LivePut
  <2>2. SourcesKeep(o)'
    BY <1>0, <1>1, <2>1 DEF OnCourse, SourcesKeep, Kept
  <2>3. index[o] >= Needed(o) => index'[o] >= Needed(o)
    BY <2>1 DEF OnCourse, SourcesKeep, StatsInv, TypeInv, TypeOK
  <2>4. CopiesKeep(o)' /\ (Ahead(o)' \/ Settled(o)')
    BY <1>0, <1>1, <2>3 DEF OnCourse, CopiesKeep, Settled, Kept
  <2> QED BY <2>2, <2>4 DEF OnCourse
<1> QED BY <1>2, <1>3 DEF Live

\* What the actions of the run leave alone.
LEMMA RunFrame ==
    ASSUME NEW o, UNCHANGED <<options, atStart, dynamo, inFlight>>
    PROVE  /\ Needed(o)' = Needed(o) /\ Origin(o)' = Origin(o)
           /\ SourcesKeep(o)' <=> SourcesKeep(o)
           /\ \A i : Decisive(o, i)' <=> Decisive(o, i)
           /\ Wanted' = Wanted
BY DEF Needed, Origin, SourcesKeep, Decisive, Covered, Wanted, Kept

LEMMA NothingWritten ==
    ASSUME call = NoCall,
           call' = call \/ call' = [NoCall EXCEPT !.docs = batch', !.outcome = "running"]
    PROVE  call'.written = {}
<1>1. NoCall.written = {} /\ [NoCall EXCEPT !.docs = batch', !.outcome = "running"].written = {}
  BY DEF NoCall
<1> QED BY <1>1

LEMMA RepairRead ==
    ASSUME StatsInv, NEW o \in Wanted, OnCourse(o), ReadPage
    PROVE  OnCourse(o)'
<1> USE WantedFacts
<1>1. PICK ids \in SUBSET unread :
        /\ ids # {} /\ unread' = unread \ ids /\ page' = {x \in ids : Source(x) # Absent}
        /\ copy' = [x \in Objects |-> IF x \in page' THEN Source(x) ELSE copy[x]]
  BY DEF ReadPage
<1>2. /\ phase = "reading" /\ page = {}
      /\ UNCHANGED <<dynamo, inFlight, index, options, phase, pass, batch, failed, call, atStart>>
  BY DEF ReadPage, liveVars, statVars
<1>3. /\ call.written = {} /\ unread \subseteq Members(pass) /\ batch \intersect page' = {}
  BY <1>1, <1>2 DEF StatsInv, CallInv, PlaceInv, NoCall
<1>4. SourcesKeep(o) /\ SourcesKeep(o)'
  BY <1>2, RunFrame DEF OnCourse
<1>5. Passes[pass].source \in {"legacy", "dynamo"}
  BY PassSources
<1>6. ASSUME o \in unread
      PROVE  /\ Decisive(o, pass) =>
                   Source(o) # Absent /\ Source(o).version >= Needed(o) /\ Kept(o, Source(o))
             /\ ~Decisive(o, pass) => Source(o) = Absent \/ Source(o).version >= Needed(o) \/ Outdated(o)
  <2>1. Passes[pass].store = StoreOf[o]
    BY <1>3, <1>6 DEF Members
  <2>2. CASE Origin(o) = "legacy"
    <3>1. atStart.current[o] = Legacy[o]
      BY <2>2 DEF Origin
    <3>2. dynamo[o] = Absent \/ dynamo[o].version > Needed(o)
      BY <3>1 DEF StatsInv, TypeInv, Needed
    <3> QED BY <1>5, <2>1, <2>2, <3>1, <3>2 DEF Decisive, Source, Needed
  <2>3. CASE Origin(o) = "dynamo"
    <3>1. dynamo[o] # Absent /\ dynamo[o].version >= Needed(o) /\ Kept(o, dynamo[o])
      BY <1>4, <2>3 DEF SourcesKeep
    <3> QED BY <1>5, <2>1, <2>3, <3>1 DEF Decisive, Source, Outdated
  <2> QED BY <2>2, <2>3 DEF Origin
<1>7. /\ Outdated(o)' <=> Outdated(o)
      /\ Decisive(o, pass)' <=> Decisive(o, pass)
      /\ Settled(o)' <=> Settled(o)
      /\ Kept(o, copy[o])' <=> Kept(o, copy'[o])
  BY <1>2, RunFrame DEF Outdated, Settled, Failed, Kept
<1>8. CopiesKeep(o)'
  <2>1. CASE o \in page'
    <3>1. o \in unread /\ copy'[o] = Source(o) /\ Source(o) # Absent
      BY <1>1, <2>1
    <3> QED BY <1>2, <1>3, <1>6, <1>7, <3>1, RunFrame DEF CopiesKeep
  <2>2. CASE o \notin page'
    <3>1. copy'[o] = copy[o]
      BY <1>1, <2>2
    <3> QED BY <1>2, <1>3, <1>7, <2>2, <3>1, RunFrame DEF OnCourse, CopiesKeep
  <2> QED BY <2>1, <2>2
<1>9. Ahead(o) => Ahead(o)'
  <2> SUFFICES ASSUME NEW i \in DOMAIN Passes, Decisive(o, i),
                      i > pass \/ (i = pass /\ o \in unread \union page \union batch)
               PROVE  Ahead(o)'
    BY DEF Ahead
  <2>1. i = pass => o \in unread' \union page' \union batch'
    BY <1>1, <1>2, <1>6
  <2>2. Decisive(o, i)'
    BY <1>2, RunFrame
  <2> QED BY <1>2, <2>1, <2>2 DEF Ahead
<1> QED BY <1>4, <1>7, <1>8, <1>9 DEF OnCourse

LEMMA RepairSkip ==
    ASSUME StatsInv, NEW o \in Wanted, OnCourse(o), NEW x \in page, Skip(x)
    PROVE  OnCourse(o)'
<1> USE WantedFacts
<1>1. /\ phase = "reading" /\ page' = page \ {x} /\ copy' = [copy EXCEPT ![x] = Absent]
      /\ ~Kept(x, copy[x])
      /\ UNCHANGED <<dynamo, inFlight, index, options, phase, pass, unread, batch, failed, call, atStart>>
  BY DEF Skip, liveVars, statVars
<1>2. /\ call.written = {} /\ x \notin batch /\ x \notin unread /\ x \in Objects
  BY <1>1 DEF StatsInv, CallInv, PlaceInv, NoCall, TypeInv, TypeOK
<1>3. x = o => ~Decisive(o, pass)
  BY <1>1 DEF OnCourse, CopiesKeep
<1>4. /\ Outdated(o)' <=> Outdated(o)
      /\ Decisive(o, pass)' <=> Decisive(o, pass)
      /\ Settled(o)' <=> Settled(o)
      /\ Kept(o, copy[o])' <=> Kept(o, copy'[o])
  BY <1>1, RunFrame DEF Outdated, Settled, Failed, Kept
<1>5. o \in page' \union batch' => o \in page \union batch /\ copy'[o] = copy[o]
  BY <1>1, <1>2
<1>6. CopiesKeep(o)'
  BY <1>1, <1>2, <1>4, <1>5, RunFrame DEF OnCourse, CopiesKeep
<1>7. Ahead(o) => Ahead(o)'
  <2> SUFFICES ASSUME NEW i \in DOMAIN Passes, Decisive(o, i),
                      i > pass \/ (i = pass /\ o \in unread \union page \union batch)
               PROVE  Ahead(o)'
    BY DEF Ahead
  <2>1. i = pass => o \in unread' \union page' \union batch'
    BY <1>1, <1>3
  <2>2. Decisive(o, i)'
    BY <1>1, RunFrame
  <2> QED BY <1>1, <2>1, <2>2 DEF Ahead
<1> QED BY <1>1, <1>4, <1>6, <1>7, RunFrame DEF OnCourse

LEMMA RepairTake ==
    ASSUME StatsInv, NEW o \in Wanted, OnCourse(o), NEW x \in page, Take(x), options.limit = None
    PROVE  OnCourse(o)'
<1> USE WantedFacts
<1>1. /\ phase = "reading" /\ batch' = batch \union {x} /\ page' = page \ {x} /\ unread' = unread
      /\ UNCHANGED <<dynamo, inFlight, index, options, pass, copy, failed, atStart>>
  BY DEF Take, GoOn, LimitReached, liveVars
<1>2. call'.written = {}
  <2>1. call = NoCall
    BY <1>1 DEF StatsInv, CallInv
  <2>2. call' = call \/ call' = [NoCall EXCEPT !.docs = batch', !.outcome = "running"]
    BY DEF Take, Flush
  <2> QED BY <2>1, <2>2, NothingWritten
<1>3. page' \union batch' = page \union batch
  BY <1>1
<1>4. /\ Outdated(o)' <=> Outdated(o)
      /\ Decisive(o, pass)' <=> Decisive(o, pass)
      /\ Settled(o)' <=> Settled(o)
      /\ Kept(o, copy[o])' <=> Kept(o, copy[o])
  BY <1>1, RunFrame DEF Outdated, Settled, Failed, Kept
<1>5. CopiesKeep(o)'
  BY <1>1, <1>2, <1>3, <1>4, RunFrame DEF OnCourse, CopiesKeep
<1>6. Ahead(o) => Ahead(o)'
  BY <1>1, <1>3, RunFrame DEF Ahead
<1> QED BY <1>1, <1>4, <1>5, <1>6, RunFrame DEF OnCourse

LEMMA RepairEndSource ==
    ASSUME StatsInv, NEW o \in Wanted, OnCourse(o), EndSource
    PROVE  OnCourse(o)'
<1> USE WantedFacts
<1>1. /\ phase = "reading" /\ page = {} /\ unread = {}
      /\ UNCHANGED <<dynamo, inFlight, index, options, page, copy, batch, failed, atStart>>
  BY DEF EndSource, liveVars, statVars
<1>2. call'.written = {}
  <2>1. call = NoCall
    BY <1>1 DEF StatsInv, CallInv
  <2>2. call' = call \/ call' = [NoCall EXCEPT !.docs = batch', !.outcome = "running"]
    BY DEF EndSource, Flush
  <2> QED BY <2>1, <2>2, NothingWritten
<1>3. Settled(o)' <=> Settled(o)
  BY <1>1, RunFrame DEF Settled, Failed
<1>4. CASE UNCHANGED <<pass, unread>>
  <2>1. /\ Outdated(o)' <=> Outdated(o)
        /\ Decisive(o, pass)' <=> Decisive(o, pass)
        /\ Kept(o, copy[o])' <=> Kept(o, copy[o])
    BY <1>1, <1>4, RunFrame DEF Outdated, Kept
  <2>2. CopiesKeep(o)'
    BY <1>1, <1>2, <2>1, RunFrame DEF OnCourse, CopiesKeep
  <2>3. Ahead(o) => Ahead(o)'
    BY <1>1, <1>4, RunFrame DEF Ahead
  <2> QED BY <1>1, <1>3, <2>2, <2>3, RunFrame DEF OnCourse
<1>5. CASE batch = {} /\ pass' = pass + 1 /\ unread' = Members(pass + 1)
  <2>1. CopiesKeep(o)'
    BY <1>1, <1>2, <1>5 DEF CopiesKeep
  <2>2. Ahead(o) => Ahead(o)'
    <3> SUFFICES ASSUME NEW i \in DOMAIN Passes, Decisive(o, i), i > pass
                 PROVE  Ahead(o)'
      BY <1>1, <1>5 DEF Ahead
    <3>1. i = pass + 1 => o \in unread'
      BY <1>5 DEF Members, Decisive
    <3>2. Decisive(o, i)'
      BY <1>1, RunFrame
    <3> QED BY <1>5, <3>1, <3>2 DEF Ahead
  <2> QED BY <1>1, <1>3, <2>1, <2>2, RunFrame DEF OnCourse
<1> QED BY <1>4, <1>5 DEF EndSource

LEMMA RepairBulk ==
    ASSUME LegacyFirst, StatsInv, NEW o \in Wanted, OnCourse(o), BulkWrite \/ BulkReturn
    PROVE  OnCourse(o)'
<1> USE WantedFacts
<1>0. /\ UNCHANGED <<dynamo, inFlight, options, pass, unread, page, copy, batch, failed, atStart>>
      /\ TypeOK
      /\ call \in [docs : SUBSET Objects, written : SUBSET Objects, indexed : SUBSET Objects,
                   failed : SUBSET Objects, outcome : {"running", "returned", "raised"}]
  BY DEF BulkWrite, BulkReturn, liveVars, readVars, statVars, StatsInv, TypeInv, TypeOK
<1>1. /\ Ahead(o)' <=> Ahead(o)
      /\ Outdated(o)' <=> Outdated(o)
      /\ Decisive(o, pass)' <=> Decisive(o, pass)
      /\ Failed(o, Needed(o))' <=> Failed(o, Needed(o))
      /\ Kept(o, copy[o])' <=> Kept(o, copy[o])
  BY <1>0, RunFrame DEF Ahead, Outdated, Failed, Kept
<1>2. CASE BulkWrite
  <2>1. PICK some \in SUBSET batch :
          /\ call' = [call EXCEPT !.written = @ \union some]
          /\ index' = [x \in Objects |-> IF x \in some THEN copy[x].version ELSE index[x]]
    BY <1>2 DEF BulkWrite
  <2>2. call'.written = call.written \union some
    BY <1>0, <2>1
  <2>3. index'[o] = IF o \in some THEN copy[o].version ELSE index[o]
    BY <2>1
  <2>4. CopiesKeep(o)'
    BY <1>0, <1>1, <2>2, <2>3, RunFrame DEF OnCourse, CopiesKeep
  <2>5. CASE o \in some /\ copy[o].version < Needed(o)
    <3>1. o \in batch /\ Outdated(o)
      BY <2>5 DEF OnCourse, CopiesKeep
    <3>2. Ahead(o)
      BY <3>1, OutdatedIsAhead DEF Ahead
    <3> QED BY <1>0, <1>1, <2>4, <3>2, RunFrame DEF OnCourse
  <2>6. CASE o \notin some \/ copy[o].version >= Needed(o)
    <3>1. index[o] >= Needed(o) => index'[o] >= Needed(o)
      BY <2>3, <2>6
    <3> QED BY <1>0, <1>1, <2>4, <3>1, RunFrame DEF OnCourse, Settled
  <2> QED BY <2>5, <2>6
<1>3. CASE BulkReturn
  <2>1. UNCHANGED index /\ call'.written = call.written
    BY <1>0, <1>3 DEF BulkReturn
  <2> QED BY <1>0, <1>1, <2>1, RunFrame DEF OnCourse, CopiesKeep, Settled
<1> QED BY <1>2, <1>3

LEMMA RepairRecord ==
    ASSUME LegacyFirst, StatsInv, NEW o \in Wanted, OnCourse(o), Record
    PROVE  OnCourse(o)'
<1> USE WantedFacts
<1>1. /\ batch' = {} /\ call' = NoCall
      /\ failed' = failed \union Rejections(call.failed)
      /\ copy' = [x \in Objects |-> IF x \in page THEN copy[x] ELSE Absent]
      /\ UNCHANGED <<dynamo, inFlight, index, options, pass, unread, page, atStart>>
  BY DEF Record, AddStats, Rejections, liveVars
<1>2. /\ batch = call.indexed \union call.failed
      /\ call.indexed \subseteq call.written
  BY DEF Record, StatsInv, CallInv
<1>3. /\ Outdated(o)' <=> Outdated(o)
      /\ Decisive(o, pass)' <=> Decisive(o, pass)
      /\ Kept(o, copy[o])' <=> Kept(o, copy'[o])
  BY <1>1, RunFrame DEF Outdated, Kept
<1>4. CopiesKeep(o)'
  <2>1. o \in page => copy'[o] = copy[o]
    BY <1>1
  <2>2. call'.written = {}
    BY <1>1 DEF NoCall
  <2> QED BY <1>1, <1>3, <2>1, <2>2, RunFrame DEF OnCourse, CopiesKeep
<1>5. Settled(o) => Settled(o)'
  BY <1>1, RunFrame DEF Settled, Failed
<1>6. CASE o \in batch
  <2>1. CASE copy[o].version < Needed(o)
    <3>1. \E i \in DOMAIN Passes : Decisive(o, i) /\ i > pass
      BY <1>6, <2>1, OutdatedIsAhead DEF OnCourse, CopiesKeep
    <3> QED BY <1>1, <1>4, <3>1, RunFrame DEF OnCourse, Ahead
  <2>2. CASE copy[o].version >= Needed(o) /\ o \in call.indexed
    <3>1. index[o] >= Needed(o)
      BY <1>2, <2>2 DEF OnCourse, CopiesKeep
    <3> QED BY <1>1, <1>4, <3>1, RunFrame DEF OnCourse, Settled
  <2>3. CASE copy[o].version >= Needed(o) /\ o \in call.failed
    <3> DEFINE f == [pass |-> pass, id |-> o, version |-> copy[o].version]
    <3>1. f \in failed'
      BY <1>1, <2>3 DEF Rejections
    <3>2. f.id = o /\ f.version >= Needed(o)
      BY <2>3
    <3>3. Settled(o)'
      BY <1>1, <3>1, <3>2, RunFrame DEF Settled, Failed
    <3> QED BY <1>1, <1>4, <3>3, RunFrame DEF OnCourse
  <2> QED BY <1>2, <1>6, <2>1, <2>2, <2>3
<1>7. CASE o \notin batch
  <2>1. Ahead(o) => Ahead(o)'
    BY <1>1, <1>7, RunFrame DEF Ahead
  <2> QED BY <1>1, <1>4, <1>5, <2>1, RunFrame DEF OnCourse
<1> QED BY <1>6, <1>7

LEMMA RepairStep ==
    ASSUME LegacyFirst, StatsInv, RepairInv, Next, Repairing'
    PROVE  \A o \in Wanted' : OnCourse(o)'
<1>1. CASE StartRun
  BY <1>1, RepairStart
<1>2. CASE Live \/ Run
  <2>1. UNCHANGED <<options, atStart>>
    BY <1>2 DEF Live, Run, LiveWrite, LivePut, ReadPage, ReadFails, Skip, Count, Take, EndSource,
       BulkWrite, BulkReturn, BulkRaise, Record
  <2>2. Wanted' = Wanted
    BY <2>1 DEF Wanted, Kept, Covered, Decisive, Origin
  <2>3. Repairing
    BY <1>2, <2>1 DEF Repairing, Live, Run, LiveWrite, LivePut, ReadPage, ReadFails, Skip, Count, Take,
       EndSource, BulkWrite, BulkReturn, BulkRaise, Record, Calling
  <2>4. /\ ~ReadFails /\ ~BulkRaise
        /\ options.execute /\ options.limit = None
    BY <2>3 DEF ReadFails, BulkRaise, Repairing
  <2>5. ASSUME NEW o \in Wanted PROVE OnCourse(o)'
    <3>1. OnCourse(o)
      BY <2>3, <2>5 DEF RepairInv
    <3>2. CASE Live
      BY <3>1, <3>2, RepairLive
    <3>3. CASE ReadPage
      BY <3>1, <3>3, RepairRead
    <3>4. ASSUME NEW x \in page, Skip(x) \/ Count(x) \/ Take(x) PROVE OnCourse(o)'
      BY <2>4, <3>1, <3>4, RepairSkip, RepairTake DEF Count
    <3>5. CASE EndSource
      BY <3>1, <3>5, RepairEndSource
    <3>6. CASE BulkWrite \/ BulkReturn
      BY <3>1, <3>6, RepairBulk
    <3>7. CASE Record
      BY <3>1, <3>7, RepairRecord
    <3> QED BY <1>2, <2>4, <3>2, <3>3, <3>4, <3>5, <3>6, <3>7 DEF Run
  <2> QED BY <2>2, <2>5
<1> QED BY <1>1, <1>2 DEF Next

LEMMA RepairInvariant == ASSUME LegacyFirst PROVE Spec => []RepairInv
<1>1. Init => RepairInv
  BY DEF Init, RepairInv, Repairing
<1>2. StatsInv /\ RepairInv /\ [Next]_vars => RepairInv'
  <2> SUFFICES ASSUME StatsInv, RepairInv, [Next]_vars PROVE RepairInv'
    OBVIOUS
  <2>1. CASE UNCHANGED vars
    BY <2>1 DEF vars, liveVars, readVars, statVars, RepairInv, Repairing, Wanted, Covered, OnCourse, SourcesKeep,
       CopiesKeep, Ahead, Settled, Needed, Origin, Decisive, Outdated, Failed, Kept
  <2>2. CASE Next
    BY <2>2, RepairStep DEF RepairInv
  <2> QED BY <2>1, <2>2
<1> QED BY <1>1, <1>2, StatsInvariant, PTL DEF Spec

\* What a run over some of the sources promises: Repaired, for the objects it
\* reads from the source that had them when it started.
SourcesRepaired ==
    phase = "finished" /\ options.execute /\ options.limit = None =>
        \A o \in Wanted : Settled(o)

\* A complete run repairs what it selects of the sources it reads, whatever the
\* live write path puts beside it, unless a put overtaken before the run
\* started undoes it.  It says nothing of an object whose item a run over
\* --source legacy does not read: that run may show its legacy copy instead.
THEOREM RunRepairsItsSources == ASSUME LegacyFirst PROVE Spec => []SourcesRepaired
<1>1. StatsInv /\ RepairInv => SourcesRepaired
  <2> SUFFICES ASSUME StatsInv, RepairInv, phase = "finished", options.execute, options.limit = None,
                      NEW o \in Wanted
               PROVE  Settled(o)
    BY DEF SourcesRepaired
  <2>1. OnCourse(o)
    BY DEF RepairInv, Repairing
  <2>2. pass = Len(Passes) /\ unread = {} /\ page = {} /\ batch = {}
    BY DEF StatsInv, PlaceInv, LimitReached
  <2>3. ~Ahead(o)
    BY <2>2, Setting DEF Ahead
  <2> QED BY <2>1, <2>3 DEF OnCourse
<1> QED BY <1>1, StatsInvariant, RepairInvariant, PTL

\* So a complete run over both sources of every store repairs everything it
\* selects.
THEOREM RunRepairs == ASSUME BothSources PROVE Spec => []Repaired
<1>1. SourcesRepaired => Repaired
  <2> SUFFICES ASSUME SourcesRepaired, phase = "finished", options.execute, options.limit = None,
                      NEW o \in Objects \ atStart.overtaken,
                      atStart.current[o] # Absent, Kept(o, atStart.current[o])
               PROVE  index[o] >= Needed(o) \/ Failed(o, Needed(o))
    BY DEF Repaired, Needed
  <2>1. Covered(o)
    BY DEF BothSources, Covered, Decisive, Origin
  <2>2. o \in Wanted
    BY <2>1 DEF Wanted
  <2> QED BY <2>2 DEF SourcesRepaired, Settled
<1>2. LegacyFirst
  BY DEF BothSources
<1> QED BY <1>1, <1>2, RunRepairsItsSources, PTL
-----------------------------------------------------------------------------
(* How many steps a run can take. *)

\* Every document is read, looked at, sent and recorded at most once in every
\* source, and every source ends once.
PassCost == 5 * Cardinality(Objects) + 1
SourcesLeft == (Len(Passes) - pass) * PassCost
DocsLeft == 5 * Cardinality(unread) + 4 * Cardinality(page) + 3 * Cardinality(batch)

StepsLeft ==
    CASE phase = "idle"     -> Len(Passes) * PassCost + 1
      [] phase = "reading"  -> SourcesLeft + DocsLeft + 1
      [] phase = "flushing" -> SourcesLeft + DocsLeft - (IF call.outcome = "running" THEN 0 ELSE 1)
      [] OTHER              -> 0

\* Nothing empty is sent.
SendsSome == phase = "flushing" => batch # {}

LEMMA SendsSomeStep == StatsInv /\ SendsSome /\ [Next]_vars => SendsSome'
<1> SUFFICES ASSUME StatsInv, SendsSome, [Next]_vars PROVE SendsSome'
  OBVIOUS
<1>1. CASE StartRun \/ ReadPage \/ ReadFails \/ BulkRaise \/ Record \/ \E o \in page : Skip(o) \/ Count(o)
  BY <1>1 DEF SendsSome, StartRun, ReadPage, ReadFails, Skip, Count, BulkRaise, Record
<1>2. CASE \E o \in page : Take(o)
  BY <1>2 DEF SendsSome, Take
<1>3. CASE EndSource
  BY <1>3 DEF SendsSome, EndSource
<1>4. CASE UNCHANGED vars \/ Live \/ BulkWrite \/ BulkReturn
  <2>1. UNCHANGED <<phase, batch>>
    BY <1>4 DEF vars, Live, LiveWrite, LivePut, BulkWrite, BulkReturn
  <2> QED BY <2>1 DEF SendsSome
<1> QED BY <1>1, <1>2, <1>3, <1>4 DEF Next, Run

LEMMA SizesLeft ==
    ASSUME StatsInv
    PROVE  /\ unread \subseteq Objects /\ page \subseteq Objects /\ batch \subseteq Objects
           /\ Cardinality(unread) \in Nat /\ Cardinality(page) \in Nat
           /\ Cardinality(batch) \in Nat /\ (batch # {} => Cardinality(batch) > 0)
           /\ PassCost \in Nat /\ PassCost > 0 /\ SourcesLeft \in Nat /\ DocsLeft \in Nat
<1>1. unread \subseteq Objects /\ page \subseteq Objects /\ batch \subseteq Objects
  BY DEF StatsInv, TypeInv, TypeOK
<1>2. /\ Cardinality(unread) \in Nat /\ Cardinality(page) \in Nat
      /\ Cardinality(batch) \in Nat /\ (batch # {} => Cardinality(batch) > 0)
  BY <1>1, FiniteIds
<1>3. PassCost \in Nat /\ PassCost > 0
  BY FiniteIds DEF PassCost
<1>4. Len(Passes) - pass \in Nat
  BY Setting DEF StatsInv, TypeInv, TypeOK
<1>5. SourcesLeft \in Nat
  BY <1>3, <1>4 DEF SourcesLeft
<1> QED BY <1>1, <1>2, <1>3, <1>5 DEF DocsLeft

\* A source costs less than is set aside for it.
LEMMA NextSource ==
    ASSUME StatsInv, NEW n \in Nat, NEW p \in DOMAIN Passes
    PROVE  /\ n * PassCost + PassCost = (n + 1) * PassCost
           /\ 5 * Cardinality(Members(p)) < PassCost
           /\ Cardinality(Members(p)) \in Nat
<1>1. Members(p) \in SUBSET Objects
  BY DEF Members
<1>2. Cardinality(Members(p)) <= Cardinality(Objects) /\ Cardinality(Members(p)) \in Nat
      /\ Cardinality(Objects) \in Nat
  BY <1>1, Setting, FiniteIds, FS_Subset
<1>3. 5 * Cardinality(Members(p)) < PassCost
  BY <1>2 DEF PassCost
<1>4. PassCost \in Nat
  BY <1>2 DEF PassCost
<1>5. n * PassCost + PassCost = (n + 1) * PassCost
  BY <1>4
<1> QED BY <1>2, <1>3, <1>5

\* Taking ids out of a set of ids, or an id.
LEMMA FewerIds ==
    ASSUME NEW ids \in SUBSET Objects, NEW rest \in SUBSET ids, rest # ids
    PROVE  Cardinality(rest) + 1 <= Cardinality(ids)
<1>1. IsFiniteSet(ids) /\ Cardinality(ids) \in Nat /\ Cardinality(rest) \in Nat
  BY FiniteIds
<1>2. Cardinality(rest) <= Cardinality(ids) /\ Cardinality(rest) # Cardinality(ids)
  BY <1>1, FS_Subset
<1> QED BY <1>1, <1>2

LEMMA NotMoreIds ==
    ASSUME NEW ids \in SUBSET Objects, NEW rest \in SUBSET ids
    PROVE  Cardinality(rest) <= Cardinality(ids) /\ Cardinality(rest) \in Nat
<1>1. IsFiniteSet(ids) /\ rest \in SUBSET Objects
  BY FiniteIds
<1> QED BY <1>1, FiniteIds, FS_Subset

\* A run has steps left exactly while it has not ended.
LEMMA SomeStepsLeft ==
    ASSUME StatsInv, SendsSome
    PROVE  /\ StepsLeft \in Nat
           /\ StepsLeft = 0 <=> phase \in {"finished", "aborted"}
<1>1. phase \in {"idle", "reading", "flushing", "finished", "aborted"}
  BY DEF StatsInv, TypeInv, TypeOK
<1>2. /\ SourcesLeft \in Nat /\ DocsLeft \in Nat /\ Cardinality(batch) \in Nat
      /\ PassCost \in Nat
  BY SizesLeft
<1>3. phase = "flushing" => DocsLeft > 2
  <2> SUFFICES ASSUME phase = "flushing" PROVE DocsLeft > 2
    OBVIOUS
  <2>1. /\ Cardinality(batch) > 0 /\ Cardinality(batch) \in Nat
        /\ Cardinality(unread) \in Nat /\ Cardinality(page) \in Nat
    BY SizesLeft DEF SendsSome
  <2> QED BY <2>1 DEF DocsLeft
<1>4. Len(Passes) * PassCost \in Nat
  BY <1>2, Setting
<1>5. CASE phase = "idle"
  BY <1>4, <1>5 DEF StepsLeft
<1>6. CASE phase = "reading"
  BY <1>2, <1>6 DEF StepsLeft
<1>7. CASE phase = "flushing"
  BY <1>2, <1>3, <1>7 DEF StepsLeft
<1>8. CASE phase \in {"finished", "aborted"}
  BY <1>8 DEF StepsLeft
<1> QED BY <1>1, <1>5, <1>6, <1>7, <1>8

LEMMA LessToDo ==
    ASSUME NEW sources \in Nat, NEW docs \in Nat, NEW fewer \in Nat, fewer < docs
    PROVE  sources + fewer + 1 < sources + docs + 1 /\ sources + fewer < sources + docs + 1
OBVIOUS

LEMMA StartLess ==
    ASSUME StatsInv, StartRun
    PROVE  StepsLeft' < StepsLeft
<1>1. /\ phase = "idle" /\ phase' = "reading" /\ unread' = Members(1)
      /\ pass' = pass /\ page' = {} /\ batch' = {} /\ pass = 1
  BY DEF StartRun, StatsInv, PlaceInv, liveVars
<1>2. Len(Passes) - 1 \in Nat /\ 1 \in DOMAIN Passes
  BY Setting
<1>3. /\ (Len(Passes) - 1) * PassCost + PassCost = (Len(Passes) - 1 + 1) * PassCost
      /\ 5 * Cardinality(Members(1)) < PassCost /\ Cardinality(Members(1)) \in Nat
  BY <1>2, NextSource
<1>4. Len(Passes) - 1 + 1 = Len(Passes)
  BY <1>2, Setting
<1>5. StepsLeft' = (Len(Passes) - 1) * PassCost + 5 * Cardinality(Members(1)) + 1
  <2>1. SourcesLeft' = (Len(Passes) - 1) * PassCost
    BY <1>1 DEF SourcesLeft
  <2>2. DocsLeft' = 5 * Cardinality(Members(1))
    BY <1>1, <1>3, FS_EmptySet DEF DocsLeft
  <2> QED BY <1>1, <2>1, <2>2 DEF StepsLeft
<1>6. StepsLeft = Len(Passes) * PassCost + 1
  BY <1>1 DEF StepsLeft
<1>7. (Len(Passes) - 1) * PassCost \in Nat /\ PassCost \in Nat
  BY <1>2, SizesLeft
<1> QED BY <1>3, <1>4, <1>5, <1>6, <1>7

LEMMA ReadLess ==
    ASSUME StatsInv, SendsSome, ReadPage \/ ReadFails
    PROVE  StepsLeft' < StepsLeft
<1>1. phase = "reading" /\ page = {} /\ UNCHANGED <<pass, batch>>
  BY DEF ReadPage, ReadFails, readVars
<1>2. CASE ReadPage
  <2>1. PICK ids \in SUBSET unread :
          /\ ids # {} /\ unread' = unread \ ids /\ page' \subseteq ids
    BY <1>2 DEF ReadPage
  <2>2. /\ Cardinality(unread) = Cardinality(unread') + Cardinality(ids)
        /\ Cardinality(unread') \in Nat /\ Cardinality(ids) \in Nat /\ Cardinality(ids) > 0
    <3>1. /\ unread = unread' \union ids /\ unread' \intersect ids = {}
          /\ unread' \subseteq Objects /\ ids \subseteq Objects
      BY <2>1, SizesLeft
    <3> QED BY <2>1, <3>1, FiniteIds, DisjointUnion
  <2>3. Cardinality(page') <= Cardinality(ids) /\ Cardinality(page') \in Nat
    <3>1. ids \subseteq Objects
      BY <2>1, SizesLeft
    <3> QED BY <2>1, <3>1, NotMoreIds
  <2>4. Cardinality(page) = 0 /\ Cardinality(batch) \in Nat /\ SourcesLeft \in Nat
    BY <1>1, SizesLeft, FS_EmptySet
  <2>5. DocsLeft' < DocsLeft /\ DocsLeft' \in Nat /\ DocsLeft \in Nat
    BY <1>1, <2>2, <2>3, <2>4 DEF DocsLeft
  <2>6. phase' = "reading" /\ SourcesLeft' = SourcesLeft
    BY <1>1, <1>2 DEF ReadPage, SourcesLeft
  <2>7. StepsLeft' = SourcesLeft + DocsLeft' + 1 /\ StepsLeft = SourcesLeft + DocsLeft + 1
    BY <1>1, <2>6 DEF StepsLeft
  <2>8. SourcesLeft + DocsLeft' + 1 < SourcesLeft + DocsLeft + 1
    BY <2>4, <2>5, LessToDo
  <2> QED BY <2>7, <2>8
<1>3. CASE ReadFails
  <2>1. StepsLeft' = 0
    BY <1>3 DEF ReadFails, StepsLeft
  <2> QED BY <1>1, <2>1, SomeStepsLeft
<1> QED BY <1>2, <1>3

LEMMA DocumentLess ==
    ASSUME StatsInv, NEW o \in page, Skip(o) \/ Count(o) \/ Take(o)
    PROVE  StepsLeft' < StepsLeft
<1>1. /\ phase = "reading" /\ pass' = pass /\ SourcesLeft' = SourcesLeft
      /\ page' \subseteq page \ {o} /\ unread' \subseteq unread
  BY GoingOn DEF Skip, Count, Take, SourcesLeft
<1>2. /\ Cardinality(page') + 1 <= Cardinality(page) /\ Cardinality(unread') <= Cardinality(unread)
      /\ Cardinality(page') \in Nat /\ Cardinality(unread') \in Nat
  <2>1. page' \in SUBSET page /\ page' # page /\ unread' \in SUBSET unread
    BY <1>1
  <2> QED BY <2>1, SizesLeft, FewerIds, NotMoreIds
<1>3. /\ Cardinality(page) \in Nat /\ Cardinality(unread) \in Nat
      /\ Cardinality(batch) \in Nat /\ SourcesLeft \in Nat
  BY SizesLeft
<1>4. StepsLeft = SourcesLeft + DocsLeft + 1
  BY <1>1 DEF StepsLeft
<1>5. CASE Skip(o) \/ Count(o)
  <2>1. phase' = "reading" /\ batch' = batch
    BY <1>1, <1>5 DEF Skip, Count
  <2>2. DocsLeft' < DocsLeft /\ DocsLeft \in Nat /\ DocsLeft' \in Nat
    BY <1>2, <1>3, <2>1 DEF DocsLeft
  <2>3. StepsLeft' = SourcesLeft + DocsLeft' + 1
    BY <1>1, <2>1 DEF StepsLeft
  <2>4. SourcesLeft + DocsLeft' + 1 < SourcesLeft + DocsLeft + 1
    BY <1>3, <2>2, LessToDo
  <2> QED BY <1>4, <2>3, <2>4
<1>6. CASE Take(o)
  <2>1. Cardinality(batch') = Cardinality(batch) + 1
    <3>1. o \notin batch /\ IsFiniteSet(batch) /\ batch' = batch \union {o}
      BY <1>6, SizesLeft, FiniteIds DEF Take, StatsInv, PlaceInv
    <3> QED BY <3>1, FS_AddElement
  <2>2. DocsLeft' < DocsLeft /\ DocsLeft \in Nat /\ DocsLeft' \in Nat
    BY <1>2, <1>3, <2>1 DEF DocsLeft
  <2>3. CASE phase' = "flushing" /\ call'.outcome = "running"
    <3>1. StepsLeft' = SourcesLeft + DocsLeft'
      BY <1>1, <2>2, <2>3, <1>3 DEF StepsLeft
    <3>2. SourcesLeft + DocsLeft' < SourcesLeft + DocsLeft + 1
      BY <1>3, <2>2, LessToDo
    <3> QED BY <1>4, <3>1, <3>2
  <2>4. CASE phase' = "reading"
    <3>1. StepsLeft' = SourcesLeft + DocsLeft' + 1
      BY <1>1, <2>4 DEF StepsLeft
    <3>2. SourcesLeft + DocsLeft' + 1 < SourcesLeft + DocsLeft + 1
      BY <1>3, <2>2, LessToDo
    <3> QED BY <1>4, <3>1, <3>2
  <2>5. [NoCall EXCEPT !.docs = batch', !.outcome = "running"].outcome = "running"
    BY DEF NoCall
  <2>6. \/ phase' = "flushing" /\ call'.outcome = "running"
        \/ phase' = "reading"
    BY <1>6, <2>5 DEF Take, Flush
  <2> QED BY <2>3, <2>4, <2>6
<1> QED BY <1>5, <1>6

LEMMA SourceLess ==
    ASSUME StatsInv, SendsSome, EndSource
    PROVE  StepsLeft' < StepsLeft
<1>1. /\ phase = "reading" /\ page = {} /\ unread = {} /\ page' = {} /\ batch' = batch
      /\ pass \in DOMAIN Passes
  BY DEF EndSource, StatsInv, TypeInv, TypeOK
<1>2. /\ SourcesLeft \in Nat /\ DocsLeft \in Nat /\ Cardinality(batch) \in Nat
      /\ PassCost \in Nat
  BY SizesLeft
<1>3. StepsLeft = SourcesLeft + DocsLeft + 1
  BY <1>1 DEF StepsLeft
<1>4. CASE batch # {}
  <2>1. /\ phase' = "flushing" /\ call' = [NoCall EXCEPT !.docs = batch, !.outcome = "running"]
        /\ UNCHANGED <<pass, unread>>
    BY <1>1, <1>4 DEF EndSource, Flush
  <2>2. call'.outcome = "running"
    BY <2>1 DEF NoCall
  <2>3. SourcesLeft' = SourcesLeft /\ DocsLeft' = DocsLeft
    BY <1>1, <2>1 DEF SourcesLeft, DocsLeft
  <2>4. StepsLeft' = SourcesLeft + DocsLeft
    BY <1>2, <2>1, <2>2, <2>3 DEF StepsLeft
  <2> QED BY <1>2, <1>3, <2>4
<1>5. CASE batch = {} /\ (pass = Len(Passes) \/ LimitReached(seen))
  <2>1. StepsLeft' = 0
    BY <1>1, <1>5 DEF EndSource, StepsLeft
  <2> QED BY <1>1, <2>1, SomeStepsLeft
<1>6. CASE batch = {} /\ pass # Len(Passes) /\ ~LimitReached(seen)
  <2>1. phase' = "reading" /\ pass' = pass + 1 /\ unread' = Members(pass + 1)
    BY <1>1, <1>6 DEF EndSource
  <2>2. /\ pass + 1 \in DOMAIN Passes /\ Len(Passes) - (pass + 1) \in Nat
        /\ Len(Passes) - (pass + 1) + 1 = Len(Passes) - pass
    BY <1>1, <1>6, Setting
  <2> DEFINE n == Len(Passes) - (pass + 1)
  <2>3. /\ n * PassCost + PassCost = (n + 1) * PassCost
        /\ 5 * Cardinality(Members(pass + 1)) < PassCost
        /\ Cardinality(Members(pass + 1)) \in Nat
    BY <2>2, NextSource
  <2>4. n + 1 = Len(Passes) - pass
    BY <2>2
  <2>5. SourcesLeft' = n * PassCost
    BY <2>1 DEF SourcesLeft
  <2>6. SourcesLeft = (n + 1) * PassCost
    BY <2>4 DEF SourcesLeft
  <2>7. DocsLeft' = 5 * Cardinality(Members(pass + 1))
    BY <1>1, <1>6, <2>1, <2>3, FS_EmptySet DEF DocsLeft
  <2>8. n * PassCost \in Nat
    BY <1>2, <2>2
  <2>9. StepsLeft' = SourcesLeft' + DocsLeft' + 1
    BY <2>1 DEF StepsLeft
  <2> HIDE DEF n
  <2> QED BY <1>2, <1>3, <2>3, <2>5, <2>6, <2>7, <2>8, <2>9
<1> QED BY <1>4, <1>5, <1>6

LEMMA CallLess ==
    ASSUME StatsInv, SendsSome
    PROVE  /\ BulkWrite => StepsLeft' = StepsLeft
           /\ BulkReturn \/ BulkRaise \/ Record => StepsLeft' < StepsLeft
<1>1. /\ SourcesLeft \in Nat /\ DocsLeft \in Nat /\ Cardinality(batch) \in Nat
      /\ Cardinality(page) \in Nat /\ Cardinality(unread) \in Nat
      /\ phase = "flushing" => Cardinality(batch) > 0
  BY SizesLeft DEF SendsSome
<1>2. call \in [docs : SUBSET Objects, written : SUBSET Objects, indexed : SUBSET Objects,
                failed : SUBSET Objects, outcome : {"running", "returned", "raised"}]
  BY DEF StatsInv, TypeInv, TypeOK
<1>3. ASSUME BulkWrite PROVE StepsLeft' = StepsLeft
  <2>1. /\ UNCHANGED <<phase, pass, unread, page, batch>>
        /\ phase = "flushing" /\ call.outcome = "running"
    BY <1>3 DEF BulkWrite, Calling, readVars
  <2>2. call'.outcome = "running"
    BY <1>2, <1>3, <2>1 DEF BulkWrite
  <2>3. SourcesLeft' = SourcesLeft /\ DocsLeft' = DocsLeft
    BY <2>1 DEF SourcesLeft, DocsLeft
  <2> QED BY <2>1, <2>2, <2>3 DEF StepsLeft
<1>4. ASSUME BulkReturn PROVE StepsLeft' < StepsLeft
  <2>1. /\ UNCHANGED <<phase, pass, unread, page, batch>>
        /\ phase = "flushing" /\ call.outcome = "running"
    BY <1>4 DEF BulkReturn, Calling, readVars
  <2>2. call'.outcome = "returned"
    BY <1>2, <1>4, <2>1 DEF BulkReturn
  <2>3. SourcesLeft' = SourcesLeft /\ DocsLeft' = DocsLeft
    BY <2>1 DEF SourcesLeft, DocsLeft
  <2>4. StepsLeft' = SourcesLeft + DocsLeft - 1
    BY <2>1, <2>2, <2>3 DEF StepsLeft
  <2>5. StepsLeft = SourcesLeft + DocsLeft - 0
    BY <2>1 DEF StepsLeft
  <2> QED BY <1>1, <2>4, <2>5
<1>5. ASSUME BulkRaise PROVE StepsLeft' < StepsLeft
  <2>1. StepsLeft' = 0 /\ phase = "flushing"
    BY <1>5 DEF BulkRaise, Calling, StepsLeft
  <2> QED BY <2>1, SomeStepsLeft
<1>6. ASSUME Record PROVE StepsLeft' < StepsLeft
  <2>1. /\ phase = "flushing" /\ call.outcome = "returned" /\ batch' = {}
        /\ UNCHANGED <<pass, unread, page>>
        /\ phase' \in {"reading", "aborted"}
    BY <1>6 DEF Record
  <2>2. StepsLeft = SourcesLeft + DocsLeft - 1
    BY <2>1 DEF StepsLeft
  <2>3. SourcesLeft' = SourcesLeft /\ DocsLeft' = DocsLeft - 3 * Cardinality(batch)
    <3>1. Cardinality(batch') = 0
      BY <2>1, FS_EmptySet
    <3> QED BY <1>1, <2>1, <3>1 DEF SourcesLeft, DocsLeft
  <2>4. CASE phase' = "reading"
    <3>1. StepsLeft' = SourcesLeft' + DocsLeft' + 1
      BY <2>4 DEF StepsLeft
    <3> QED BY <1>1, <2>1, <2>2, <2>3, <3>1
  <2>5. CASE phase' = "aborted"
    <3>1. StepsLeft' = 0
      BY <2>5 DEF StepsLeft
    <3> QED BY <2>1, <3>1, SomeStepsLeft
  <2> QED BY <2>1, <2>4, <2>5
<1> QED BY <1>3, <1>4, <1>5, <1>6

\* The live write path takes no step of the run.
LEMMA LiveIsNoStep ==
    ASSUME StatsInv, Live
    PROVE  StepsLeft' = StepsLeft
<1>1. UNCHANGED <<phase, pass, unread, page, batch, call>>
  BY DEF Live, LiveWrite, LivePut, readVars
<1> QED BY <1>1 DEF StepsLeft, SourcesLeft, DocsLeft

\* A run takes at most Len(Passes) * (5 * |Objects| + 1) steps, the writes of
\* its _bulk calls (which BulkIndex bounds) left aside: every other step uses
\* one up, the live write path adds none, and the run has ended when none is
\* left.
THEOREM RunIsBounded ==
    /\ Init => StepsLeft = Len(Passes) * PassCost + 1
    /\ Spec => [](StepsLeft \in Nat /\ (StepsLeft = 0 <=> phase \in {"finished", "aborted"}))
    /\ Spec => [][/\ StepsLeft' <= StepsLeft
                  /\ StartRun \/ (Run /\ ~BulkWrite) => StepsLeft' < StepsLeft]_vars
<1>1. Init => StepsLeft = Len(Passes) * PassCost + 1
  BY DEF Init, StepsLeft
<1>2. Init => SendsSome
  BY DEF Init, SendsSome
<1>3. StatsInv /\ SendsSome
         => StepsLeft \in Nat /\ (StepsLeft = 0 <=> phase \in {"finished", "aborted"})
  BY SomeStepsLeft
<1>4. StatsInv /\ SendsSome /\ StepsLeft \in Nat /\ (StepsLeft \in Nat)' /\ [Next]_vars
         => [/\ StepsLeft' <= StepsLeft
             /\ StartRun \/ (Run /\ ~BulkWrite) => StepsLeft' < StepsLeft]_vars
  <2> SUFFICES ASSUME StatsInv, SendsSome, StepsLeft \in Nat, StepsLeft' \in Nat, Next
               PROVE  /\ StepsLeft' <= StepsLeft
                      /\ StartRun \/ (Run /\ ~BulkWrite) => StepsLeft' < StepsLeft
    OBVIOUS
  <2>1. StartRun \/ (Run /\ ~BulkWrite) => StepsLeft' < StepsLeft
    BY StartLess, ReadLess, DocumentLess, SourceLess, CallLess DEF Run
  <2>2. Live \/ BulkWrite => StepsLeft' = StepsLeft
    BY LiveIsNoStep, CallLess
  <2> QED BY <2>1, <2>2 DEF Next
<1> QED BY <1>1, <1>2, <1>3, <1>4, SendsSomeStep, StatsInvariant, PTL DEF Spec
=============================================================================
