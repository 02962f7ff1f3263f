--------------------------- MODULE ObjectRecords ---------------------------
(***************************************************************************)
(* One object from its create through the mutations that write to it, and  *)
(* what each read path makes of it.  A behaviour watches one field: it is  *)
(* created and updated with every kind of value for that field, the other  *)
(* optional arguments absent and the required ones given.  ObjectTypes     *)
(* holds the tables; ObjectUpdates the interleaving of the same writes.    *)
(***************************************************************************)
EXTENDS ObjectTypes

VARIABLES
    clazz,      \* clazz_name of the object, "none" before it is stored
    objType,    \* object_type of its item, the key of the list queries
    content,    \* object_content: the stored fields and their values
    watched,    \* the field this behaviour watches
    claim,      \* the value the client was last told the watched field has
    reply,      \* answer of the last mutation
    reported    \* some mutation that wrote to the object answered an error

vars == <<clazz, objType, content, watched, claim, reply, reported>>

\* Values: absent or null; the falsy value of its type; two others; a list
\* with a null member; a list pair whose own list is null; the text "None";
\* the global id of another class.
Null == "null"
Empty == "empty"
Hole == "hole"
Blank == "blank"
Nones == "Nones"
Alien == "alien"
Plain == {"a", "b"}
Unknown == "unknown"

\* What a client can send for an argument of each kind.
Sendable(kind) ==
    CASE kind = "enum"           -> {Null} \union Plain
      [] kind \in {"text", "id"} -> {Null, Empty} \union Plain
      [] kind = "rgt"            -> {Null, Empty, Alien} \union Plain
      [] kind = "lists"          -> {Null, Empty, Hole, Blank} \union Plain
      [] OTHER                   -> {Null, Empty, Hole} \union Plain

\* What the payload holds for an argument of value v.
Converted(conversion, v) ==
    CASE v = Empty /\ conversion \notin {"asIs", "str", "allStrs"} -> Null
      [] v = Hole /\ conversion \in {"strs", "allStrs"}            -> Nones
      [] OTHER                                                     -> v

\* The Pydantic model accepts a stored value of the kind.
Fits(kind, v) ==
    /\ kind = "texts" => v # Hole
    /\ kind = "lists" => v # Blank

\* XData.model_validate accepts the record, extra fields ignored.
Valid(c, record) ==
    \A f \in DOMAIN Types[c].data \intersect DOMAIN record : Fits(Types[c].data[f], record[f])

\* What the type of class c built by from_dict has in field f; the resolvers
\* answer null for an empty id or list of ids.
Shown(c, f) ==
    IF f \in Types[c].reads \intersect DOMAIN Types[c].data \intersect DOMAIN content
    THEN content[f] ELSE Null

\* An input resolver fails before it writes: an attribute of a null member is
\* read, or produced_by of a RuptureSet is no RuptureGenerationTask.
Raises(type, args) ==
    \/ \E f \in DOMAIN type.payload \intersect DOMAIN args :
         type.payload[f] = "each" /\ args[f] = Hole
    \/ \E f \in DOMAIN args : type.input.kinds[f] = "rgt" /\ args[f] \in {Empty, Alien}

\* The stored part of a payload.
Kept(type, args) ==
    LET some == {f \in DOMAIN type.payload \intersect DOMAIN args :
                   Converted(type.payload[f], args[f]) # Null}
    IN  [f \in some |-> Converted(type.payload[f], args[f])]

\* Arguments of a mutation in which the watched field f is given as v.
Given(input, f, v) == (f :> v) @@ Of("a", input.must)

Init ==
    /\ clazz = "none"
    /\ objType = "none"
    /\ content = <<>>
    /\ watched = "none"
    /\ claim = Unknown
    /\ reply = "none"
    /\ reported = FALSE

\* The answer reads the record just written as class c.
Answer(c) ==
    /\ reply' = IF Valid(c, content') THEN "ok" ELSE "error"
    /\ reported' = (reported \/ reply' = "error")

(* Arguments that are accepted and not stored.  The code says so of the two
   table ids, which are transient, and mints a table's object_id; it says
   nothing of the update of a general task, which leaves subtask_result out,
   nor of a duration of zero, taken for none when a task is created.       *)
Dropped == {<<"create", "InversionSolution", "mfd_table_id">>,
            <<"create", "InversionSolution", "hazard_table_id">>,
            <<"create", "Table", "object_id">>,
            <<"update", "GeneralTask", "subtask_result">>}
DroppedZero == {<<"create", "AutomationTask", "duration">>,
                <<"create", "RuptureGenerationTask", "duration">>}

\* The client's claim after a mutation of its class took v for the watched
\* field: an empty list or id says nothing, and neither does an error.
ClaimAfter(op, c, kind, v) ==
    IF \/ v = Null
       \/ v = Empty /\ kind # "text"
       \/ <<op, c, watched'>> \in Dropped
       \/ v = Empty /\ <<op, c, watched'>> \in DroppedZero
    THEN claim
    ELSE IF reply' = "ok" /\ c = clazz' /\ v # Hole THEN v ELSE Unknown

\* mutate_create_*: build the payload, store it, read it back.
Create(c, f, v) ==
    LET args == Given(Types[c].input, f, v)
    IN  /\ clazz = "none"
        /\ v \in Sendable(Types[c].input.kinds[f])
        /\ f \in Types[c].input.must => v # Null
        /\ watched' = f
        /\ IF Raises(Types[c], args)
           THEN reply' = "error" /\ UNCHANGED <<clazz, objType, content, claim, reported>>
           ELSE /\ clazz' = c
                /\ objType' = c
                /\ content' = Kept(Types[c], args)
                /\ Answer(c)
                /\ claim' = ClaimAfter("create", c, Types[c].input.kinds[f], v)

\* A create that leaves one of the relation arrays to be watched.
CreateRelated(c, f) ==
    /\ clazz = "none"
    /\ f \in (IF c \in FileClasses THEN {"relations"} ELSE {"files", "parents", "children"})
    /\ watched' = f
    /\ clazz' = c
    /\ objType' = c
    /\ content' = Kept(Types[c], Of("a", Types[c].input.must))
    /\ Answer(c)
    /\ UNCHANGED claim

\* mutate_update_*: the class of the thing updated is not looked at.
Update(c, v) ==
    LET args == IF watched \in DOMAIN Updates[c].input.kinds
                THEN Given(Updates[c].input, watched, v) ELSE <<>>
    IN  /\ clazz \in ThingClasses
        /\ UNCHANGED <<clazz, watched>>
        /\ IF args = <<>> THEN v = Null ELSE v \in Sendable(Updates[c].input.kinds[watched])
        /\ IF Raises(Updates[c], args)
           THEN reply' = "error" /\ UNCHANGED <<objType, content, claim, reported>>
           ELSE /\ content' = Kept(Updates[c], args) @@ content
                /\ objType' = clazz
                /\ Answer(c)
                /\ claim' = IF args = <<>> THEN claim
                            ELSE ClaimAfter("update", c, Updates[c].input.kinds[watched], v)

\* One more entry in a list that held old.
Joined(old, new) ==
    CASE Blank \in {old, new} -> Blank
      [] new = Empty          -> IF old = Null THEN Empty ELSE old
      [] old \in Plain        -> "b"
      [] OTHER                -> new

Stored(f) == IF f \in DOMAIN content THEN content[f] ELSE Null

\* create_file_relation and create_task_relation, on the side that is this
\* object; they answer without reading it back.
Relate ==
    /\ \/ watched \in {"files", "parents", "children"} /\ clazz \in ThingClasses
       \/ watched = "relations" /\ clazz \in FileClasses
    /\ content' = (watched :> Joined(Stored(watched), "a")) @@ content
    /\ claim' = content'[watched]
    /\ reply' = "ok"
    /\ UNCHANGED <<clazz, objType, watched, reported>>

\* append_inversion_solution_tables on any file, its class not looked at.
AppendTables(v) ==
    /\ clazz \in FileClasses
    /\ v \in Sendable("lists") \ {Null}
    /\ IF v = Hole
       THEN reply' = "error" /\ UNCHANGED <<objType, content, claim, reported>>
       ELSE /\ content' = ("tables" :> Joined(Stored("tables"), v)) @@ content
            /\ objType' = "InversionSolution"
            /\ Answer("InversionSolution")
            /\ claim' = IF watched # "tables" \/ v = Empty THEN claim
                        ELSE IF reply' = "ok" THEN content'["tables"] ELSE Unknown
    /\ UNCHANGED <<clazz, watched>>

Next ==
    \/ \E c \in Classes : \E f \in DOMAIN Types[c].input.kinds, v \in Sendable("lists") \union {Alien} :
         Create(c, f, v)
    \/ \E c \in Classes \ {"Table"}, f \in {"files", "parents", "children", "relations"} : CreateRelated(c, f)
    \/ \E c \in DOMAIN Updates, v \in Sendable("lists") : Update(c, v)
    \/ Relate
    \/ \E v \in Sendable("lists") : AppendTables(v)

Spec == Init /\ [][Next]_vars
-----------------------------------------------------------------------------
\* Stored fields hold values, never a null, and only an append gives an item a
\* type other than its class.
TypeOK ==
    /\ clazz \in Classes \union {"none"}
    /\ objType \in {clazz} \union (IF clazz \in FileClasses THEN {"InversionSolution"} ELSE {})
    /\ \A f \in DOMAIN content : content[f] \in Plain \union {Empty, Hole, Blank, Nones}
    /\ claim \in Plain \union {Unknown, Empty, Blank}
    /\ reply \in {"none", "ok", "error"}
    /\ reported \in BOOLEAN

\* A station has no parent or child tasks, says StrongMotionStation.
NoTasks == {<<"StrongMotionStation", "parents">>, <<"StrongMotionStation", "children">>}

\* An acknowledged relation of a thing is shown by the thing: "Concrete types
\* implementing Thing must populate the `pk` and the three `_raw` private
\* fields" (Thing).
RelationsReadBack ==
    /\ watched \in {"files", "parents", "children"}
    /\ <<clazz, watched>> \notin NoTasks
    /\ claim \in Plain
    => Shown(clazz, watched) = claim

\* Relation arrays that from_dict does not hand to the type.
HiddenRelations ==
    {<<c, f>> : c \in {"OpenquakeHazardSolution", "OpenquakeHazardConfig"}, f \in {"files", "parents", "children"}}
        \union NoTasks

\* What a mutation of the object's own class, a relation or an append was
\* acknowledged to have stored is what the object shows after any sequence of
\* further mutations, with these exceptions and no others: the relations of
\* HiddenRelations, tables appended to a class that has none, and the
\* arguments of Dropped and DroppedZero, for which the answer claims nothing.
\* Arguments, payload, stored model and reader agree on the rest, and no later
\* mutation drops a field it was not given.
FieldsReadBack ==
    /\ claim \in Plain \union {Empty}
    /\ <<clazz, watched>> \notin HiddenRelations
    /\ watched = "tables" => "tables" \in DOMAIN Types[clazz].data
    => Shown(clazz, watched) = claim

\* An object that can no longer be read, by its class or by the list it is
\* in, was reported: some mutation that wrote to it answered an error.  (The
\* write itself is not undone.)
BrokenIsReported ==
    clazz # "none" /\ (~Valid(clazz, content) \/ ~Valid(objType, content))
      => reported

\* A reference or search that may show the object's class shows it as that
\* class, and the list queries find it under its class until tables are
\* appended to it.
ShownAsItsClass ==
    clazz # "none" =>
      /\ \A p \in DOMAIN Paths :
           clazz \in Paths[p].store \intersect Paths[p].declared => Paths[p].shows[clazz] = clazz
      /\ "tables" \notin DOMAIN content /\ clazz \in Lists => objType = clazz
=============================================================================
