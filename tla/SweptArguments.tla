--------------------------- MODULE SweptArguments ---------------------------
(***************************************************************************)
(* Creating tasks under a general task while its argument_lists change.    *)
(* create_automation_task reads the general task, checks the arguments     *)
(* against the lists it read, and stores the task in a later step;         *)
(* update_general_task may come in between, and neither                    *)
(* update_automation_task nor create_rupture_generation_task checks        *)
(* anything.  A pair is [k |-> key, v |-> value or list of values].        *)
(***************************************************************************)
EXTENDS Naturals, Sequences, SequencesExt

CONSTANTS
    Requests,         \* create requests
    ListChoices,      \* argument_lists a general task may be given
    ArgumentChoices,  \* arguments a task may be given
    MaxUpdates,       \* bound on update_general_task
    StaleReads        \* get_item may answer the version before the last

\* Keys, arguments and the members of a list are strings.
ASSUME SweptAssumption ==
    /\ ListChoices \subseteq Seq([k : STRING, v : Seq(STRING)])
    /\ ArgumentChoices \subseteq Seq([k : STRING, v : STRING])
    /\ MaxUpdates \in Nat
    /\ StaleReads \in BOOLEAN

VARIABLES
    versions,  \* the argument_lists the general task has had, the last current
    pc,        \* where each create request is
    asked,     \* its input: class, what general_task_id names, arguments
    since,     \* the version that was current when it came in
    reply,     \* what it answered
    stored     \* arguments of the task it stored

vars == <<versions, pc, asked, since, reply, stored>>

NoList == <<"no list">>   \* an entry whose v is null
Nothing == "nothing"      \* no task is stored

\* What general_task_id may be: absent, no global id, an id of another type,
\* of no object, of the general task, or of a task under the type GeneralTask.
References == {"none", "malformed", "otherType", "missing", "general", "relabelled"}
Inputs == [clazz : {"AutomationTask", "RuptureGenerationTask"},
           general : References, arguments : ArgumentChoices]

Current == Len(versions)

Init ==
    /\ \E lists \in ListChoices : NoList \notin {lists[i].v : i \in DOMAIN lists} /\ versions = <<lists>>
    /\ pc = [r \in Requests |-> "idle"]
    /\ asked \in [Requests -> Inputs]
    /\ since = [r \in Requests |-> 0]
    /\ reply = [r \in Requests |-> "none"]
    /\ stored = [r \in Requests |-> Nothing]

\* The entry a dict built from the pairs has for a key.
ValueFor(pairs, key) == pairs[SelectLastInSeq(pairs, LAMBDA p : p.k = key)].v
KeysOf(pairs) == {pairs[i].k : i \in DOMAIN pairs}

\* Keys with more than one value, by position.  Mutants: at least one; more
\* than two.
AnyValue(lists) == {i \in DOMAIN lists : Len(lists[i].v) > 0}
ManyValues(lists) == {i \in DOMAIN lists : Len(lists[i].v) > 2}
SweptAt(lists) == {i \in DOMAIN lists : Len(lists[i].v) > 1}

\* What the loop over the swept keys says of one of them.
Verdict(lists, arguments, key) ==
    CASE key \notin KeysOf(arguments) -> "key missing"
      [] key \in KeysOf(arguments) /\ ValueFor(arguments, key) \in ToSet(ValueFor(lists, key)) -> "ok"
      [] OTHER -> "not a member"

\* _validate_at_arguments_against_gt once the general task is read: the first
\* swept key that is wrong decides.
Checked(lists, arguments) ==
    LET wrong == {i \in SweptAt(lists) : Verdict(lists, arguments, lists[i].k) # "ok"}
    IN  CASE NoList \in {lists[i].v : i \in DOMAIN lists} -> "unreadable"
          [] NoList \notin {lists[i].v : i \in DOMAIN lists} /\ wrong = {} -> "ok"
          [] OTHER -> Verdict(lists, arguments,
                        lists[CHOOSE i \in wrong : \A j \in wrong : i <= j].k)

\* Only an automation task with a general task is validated.
Begin(r) ==
    /\ pc[r] = "idle"
    /\ since' = [since EXCEPT ![r] = Current]
    /\ pc' = [pc EXCEPT ![r] =
                IF asked[r].clazz = "AutomationTask" /\ asked[r].general # "none"
                THEN "validate" ELSE "store"]
    /\ UNCHANGED <<versions, asked, reply, stored>>

\* The versions get_thing may answer.
Readable == {Current} \union (IF StaleReads /\ Current > 1 THEN {Current - 1} ELSE {})

Validate(r) ==
    /\ pc[r] = "validate"
    /\ \E read \in Readable :
          reply' = [reply EXCEPT ![r] =
                      CASE asked[r].general = "malformed"  -> "not a global id"
                        [] asked[r].general = "otherType"  -> "not a GeneralTask"
                        [] asked[r].general = "missing"    -> "not found"
                        [] asked[r].general = "relabelled" -> Checked(<<>>, asked[r].arguments)
                        [] OTHER -> Checked(versions[read], asked[r].arguments)]
    /\ pc' = [pc EXCEPT ![r] = IF reply'[r] = "ok" THEN "store" ELSE "refused"]
    /\ UNCHANGED <<versions, asked, since, stored>>

\* create_thing, for which see ObjectCreation.
Store(r) ==
    /\ pc[r] = "store"
    /\ stored' = [stored EXCEPT ![r] = asked[r].arguments]
    /\ reply' = [reply EXCEPT ![r] = "ok"]
    /\ pc' = [pc EXCEPT ![r] = "created"]
    /\ UNCHANGED <<versions, asked, since>>

\* update_general_task; an empty list changes nothing.
UpdateGeneralTask(lists) ==
    /\ Current <= MaxUpdates
    /\ lists # <<>>
    /\ versions' = Append(versions, lists)
    /\ UNCHANGED <<pc, asked, since, reply, stored>>

\* update_automation_task and update_rupture_generation_task.
UpdateTask(r, arguments) ==
    /\ pc[r] \in {"created", "updated"}
    /\ arguments # <<>>
    /\ stored' = [stored EXCEPT ![r] = arguments]
    /\ pc' = [pc EXCEPT ![r] = "updated"]
    /\ UNCHANGED <<versions, asked, since, reply>>

Next ==
    \/ \E r \in Requests : Begin(r) \/ Validate(r) \/ Store(r)
    \/ \E lists \in ListChoices : UpdateGeneralTask(lists)
    \/ \E r \in Requests, arguments \in ArgumentChoices : UpdateTask(r, arguments)

Spec == Init /\ [][Next]_vars
-----------------------------------------------------------------------------
Children == {r \in Requests : asked[r].clazz = "AutomationTask" /\ asked[r].general = "general"}

\* The versions a request can have met, one older than its start if reads may
\* be stale.
Met(r) == {i \in DOMAIN versions : i + (IF StaleReads THEN 1 ELSE 0) >= since[r]}

\* The rule, said of the lists as a whole: every key that is offered more than
\* one value is given, and as one of the values offered for it.
Offered(lists, key) == UNION {ToSet(lists[i].v) : i \in {j \in DOMAIN lists : lists[j].k = key}}
Satisfies(arguments, lists) ==
    /\ \A i \in DOMAIN lists : lists[i].v # NoList
    /\ \A i \in DOMAIN lists : Len(lists[i].v) > 1 =>
          \E j \in DOMAIN arguments :
             arguments[j].k = lists[i].k /\ arguments[j].v \in Offered(lists, lists[i].k)

\* An automation task is stored under a general task only with arguments that
\* satisfied the swept arguments the general task had at some time around the
\* request; only a later update of one of them makes the two disagree.
StoredTasksMatchedParent ==
    \A r \in Children :
        pc[r] \in {"store", "created"} =>
            \E i \in Met(r) : Satisfies(asked[r].arguments, versions[i])

\* A request is refused only for what the message says, of a version it can
\* have met, and leaves no task behind: arguments that choose a value for
\* every swept key of every such version are never refused.
RefusedForItsReason ==
    \A r \in Requests : pc[r] = "refused" =>
        /\ stored[r] = Nothing
        /\ \/ asked[r].general \in {"malformed", "otherType", "missing"}
           \/ asked[r].general = "general" /\ \E i \in Met(r) :
                 \E n \in DOMAIN versions[i] :
                    LET entry == versions[i][n]
                        given == {p \in ToSet(asked[r].arguments) : p.k = entry.k}
                    IN  CASE reply[r] = "unreadable"   -> entry.v = NoList
                          [] reply[r] = "key missing"  -> Len(entry.v) > 1 /\ given = {}
                          [] reply[r] = "not a member" ->
                               /\ Len(entry.v) > 1
                               /\ \E p \in given, other \in ToSet(versions[i]) :
                                     other.k = entry.k /\ p.v \notin ToSet(other.v)
                          [] OTHER -> FALSE
=============================================================================
