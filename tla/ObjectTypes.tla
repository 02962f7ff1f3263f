---------------------------- MODULE ObjectTypes ----------------------------
(***************************************************************************)
(* The tables that carry a field of an object from a mutation's arguments  *)
(* to a client's read.  Each class has four, written by hand in different  *)
(* places: the arguments its create takes (kind of each, and which must be *)
(* given), the payload the resolver makes of them (how each is converted), *)
(* the Pydantic model a stored record must satisfy (kind of each), and the *)
(* fields from_dict hands to the GraphQL type.  Four classes have an       *)
(* update as well.  ObjectRecords runs records through these tables.       *)
(*                                                                         *)
(* Kinds of arguments and of stored fields:                                *)
(*   "text"   a scalar of any width, "enum" a value of an enumeration,     *)
(*   "id"     a global id, "rgt" a global id checked to name a             *)
(*            RuptureGenerationTask,                                       *)
(*   "pairs"  a list of inputs of non-null members,                        *)
(*   "lists"  a list of inputs holding a nullable list,                    *)
(*   "texts"  a list of nullable scalars, "enums" and "ids" likewise,      *)
(*   "dicts"  a relation array, written only by the relation mutations.    *)
(* Conversions: "asIs"; "truthy" (x if x else None); "value" (x.value or   *)
(* None); "str" (str(x)); "each" (one attribute access per element, an     *)
(* empty list to None); "strs" (str of each element, an empty list to      *)
(* None); "allStrs" (the same, an empty list kept).                        *)
(***************************************************************************)
EXTENDS TLC

\* A table that gives every field of S the entry k.
Of(k, S) == [f \in S |-> k]

ThingClasses ==
    {"GeneralTask", "AutomationTask", "RuptureGenerationTask", "StrongMotionStation",
     "OpenquakeHazardTask", "OpenquakeHazardSolution", "OpenquakeHazardConfig"}
FileClasses ==
    {"File", "SmsFile", "RuptureSet", "InversionSolution", "ScaledInversionSolution",
     "AggregateInversionSolution", "TimeDependentInversionSolution", "InversionSolutionNrml"}
Classes == ThingClasses \union FileClasses \union {"Table"}

(* ----------------------------- Stored schema ---------------------------- *)

GeneralTaskData ==
    Of("text", {"title", "description", "agent_name", "created", "updated", "notes", "subtask_count",
                "subtask_type", "subtask_result", "model_type"})
    @@ Of("lists", {"argument_lists"}) @@ Of("pairs", {"meta"})
    @@ Of("dicts", {"files", "children", "parents"})
AutomationTaskData ==
    Of("text", {"state", "result", "task_type", "model_type", "created", "duration", "general_task_id"})
    @@ Of("pairs", {"arguments", "environment", "metrics"})
    @@ Of("dicts", {"files", "parents", "children"})
StrongMotionStationData ==
    Of("text", {"site_code", "site_class", "site_class_basis", "liquefiable", "bedrock_encountered",
                "soft_clay_or_peat", "created", "updated"})
    @@ Of("texts", {"Vs30_mean", "Vs30_std_dev"}) @@ Of("dicts", {"files"})
ToshiFileData ==
    Of("text", {"file_name", "md5_digest", "file_size", "created"})
    @@ Of("pairs", {"meta", "predecessors"}) @@ Of("dicts", {"relations"})
SmsFileData == Of("text", {"file_type"}) @@ ToshiFileData
\* Mutant: the appended tables are not validated, as list[dict].
UncheckedTables ==
    Of("text", {"produced_by"}) @@ Of("pairs", {"metrics"}) @@ Of("dicts", {"tables"}) @@ ToshiFileData
InversionSolutionData ==
    Of("text", {"produced_by"}) @@ Of("pairs", {"metrics"}) @@ Of("lists", {"tables"}) @@ ToshiFileData
RuptureSetData ==
    Of("text", {"produced_by"}) @@ Of("pairs", {"metrics"}) @@ Of("texts", {"fault_models"})
    @@ ToshiFileData
ScaledInversionSolutionData ==
    Of("text", {"produced_by", "source_solution"}) @@ Of("pairs", {"metrics"})
    @@ Of("lists", {"tables"}) @@ ToshiFileData
AggregateInversionSolutionData ==
    Of("text", {"produced_by", "common_rupture_set", "aggregation_fn"})
    @@ Of("texts", {"source_solutions"}) @@ Of("pairs", {"metrics"}) @@ Of("lists", {"tables"})
    @@ ToshiFileData
TimeDependentInversionSolutionData ==
    Of("text", {"produced_by", "source_solution"}) @@ Of("pairs", {"metrics"})
    @@ Of("lists", {"tables"}) @@ ToshiFileData
InversionSolutionNrmlData == Of("text", {"source_solution"}) @@ ToshiFileData
OpenquakeHazardConfigData ==
    Of("text", {"created", "template_archive"}) @@ Of("texts", {"source_models"})
    @@ Of("dicts", {"files", "parents", "children"})
OpenquakeHazardSolutionData ==
    Of("text", {"created", "task_type", "produced_by", "csv_archive", "hdf5_archive", "task_args",
                "config", "modified_config"})
    @@ Of("pairs", {"metrics", "meta", "predecessors"}) @@ Of("dicts", {"files", "parents", "children"})
OpenquakeHazardTaskData ==
    Of("text", {"hazard_solution", "executor", "srm_logic_tree", "gmcm_logic_tree",
                "openquake_config", "config"})
    @@ AutomationTaskData
TableData ==
    Of("text", {"name", "created", "table_type"}) @@ Of("pairs", {"meta"})
    @@ Of("texts", {"column_headers", "column_types", "rows"}) @@ Of("lists", {"dimensions"})

(* ------------------------------- Arguments ------------------------------ *)

\* The arguments of a mutation: the kind of each and those that must be given.
Arguments(must, kinds) == [must |-> must, kinds |-> kinds]

CreateGeneralTaskInput ==
    Arguments({}, Of("text", {"title", "description", "agent_name", "created", "notes", "subtask_count"})
                  @@ Of("enum", {"subtask_type", "subtask_result", "model_type"})
                  @@ Of("lists", {"argument_lists"}) @@ Of("pairs", {"meta"}))
UpdateGeneralTaskInput ==
    Arguments({}, Of("text", {"title", "description", "agent_name", "updated", "notes", "subtask_count"})
                  @@ Of("enum", {"subtask_type", "subtask_result", "model_type"})
                  @@ Of("lists", {"argument_lists"}) @@ Of("pairs", {"meta"}))
CreateAutomationTaskInput ==
    Arguments({"state", "result", "created", "task_type"},
              Of("enum", {"state", "result", "task_type", "model_type"}) @@ Of("text", {"created", "duration"})
              @@ Of("id", {"general_task_id"}) @@ Of("pairs", {"arguments", "environment", "metrics"}))
UpdateAutomationTaskInput ==
    Arguments({}, Of("enum", {"state", "result"}) @@ Of("text", {"duration"})
                  @@ Of("pairs", {"arguments", "environment", "metrics"}))
CreateStrongMotionStationInput ==
    Arguments({}, Of("text", {"site_code", "liquefiable", "bedrock_encountered", "soft_clay_or_peat",
                              "created", "updated"})
                  @@ Of("enum", {"site_class", "site_class_basis"})
                  @@ Of("texts", {"Vs30_mean", "Vs30_std_dev"}))
CreateOpenquakeHazardConfigInput ==
    Arguments({"template_archive"},
              Of("id", {"template_archive"}) @@ Of("ids", {"source_models"}) @@ Of("text", {"created"}))
CreateOpenquakeHazardSolutionInput ==
    Arguments({"produced_by", "task_type"},
              Of("id", {"produced_by", "csv_archive", "hdf5_archive", "task_args"})
              @@ Of("enum", {"task_type"}) @@ Of("text", {"created"})
              @@ Of("pairs", {"metrics", "meta", "predecessors"}))
CreateOpenquakeHazardTaskInput ==
    Arguments({"state", "result", "created", "task_type"},
              Of("enum", {"state", "result", "task_type", "model_type"})
              @@ Of("text", {"created", "duration", "executor", "srm_logic_tree", "gmcm_logic_tree",
                             "openquake_config"})
              @@ Of("pairs", {"arguments", "environment", "metrics"}) @@ Of("id", {"hazard_solution", "config"}))
UpdateOpenquakeHazardTaskInput ==
    Arguments({}, Of("enum", {"state", "result"}) @@ Of("text", {"duration", "executor"})
                  @@ Of("pairs", {"arguments", "environment", "metrics"}) @@ Of("id", {"hazard_solution"}))

\* create_file takes its arguments by position and requires three of them.
CreateFileArguments ==
    Arguments({"file_name", "md5_digest", "file_size"},
              Of("text", {"file_name", "md5_digest", "file_size", "created"})
              @@ Of("pairs", {"meta", "predecessors"}))
CreateSmsFileInput ==
    Arguments({"file_name", "file_type"},
              Of("text", {"file_name", "md5_digest", "file_size", "created"}) @@ Of("enum", {"file_type"}))
CreateRuptureSetInput ==
    Arguments({"file_name", "md5_digest", "file_size", "produced_by"},
              Of("text", {"file_name", "md5_digest", "file_size", "created"}) @@ Of("rgt", {"produced_by"})
              @@ Of("pairs", {"meta", "metrics"}) @@ Of("texts", {"fault_models"}))
CreateInversionSolutionInput ==
    Arguments({"file_name"},
              Of("text", {"file_name", "md5_digest", "file_size", "created"})
              @@ Of("pairs", {"meta", "metrics", "predecessors"}) @@ Of("lists", {"tables"})
              @@ Of("id", {"mfd_table_id", "hazard_table_id", "produced_by"}))
CreateScaledInversionSolutionInput ==
    Arguments({"file_name", "source_solution"},
              Of("text", {"file_name", "md5_digest", "file_size", "created"})
              @@ Of("pairs", {"meta", "predecessors"}) @@ Of("id", {"source_solution", "produced_by"}))
CreateAggregateInversionSolutionInput ==
    Arguments({"file_name", "common_rupture_set", "source_solutions", "aggregation_fn"},
              Of("text", {"file_name", "md5_digest", "file_size", "created"})
              @@ Of("id", {"common_rupture_set", "produced_by"}) @@ Of("ids", {"source_solutions"})
              @@ Of("enum", {"aggregation_fn"}) @@ Of("pairs", {"meta", "predecessors"}))
CreateTimeDependentInversionSolutionInput ==
    Arguments({"file_name", "source_solution"},
              Of("text", {"file_name", "md5_digest", "file_size", "created"})
              @@ Of("pairs", {"meta", "predecessors"}) @@ Of("id", {"source_solution", "produced_by"}))
CreateInversionSolutionNrmlInput ==
    Arguments({"file_name"},
              Of("text", {"file_name", "md5_digest", "file_size", "created"})
              @@ Of("pairs", {"meta", "predecessors"}) @@ Of("id", {"source_solution"}))
CreateTableInput ==
    Arguments({"object_id"},
              Of("id", {"object_id"}) @@ Of("text", {"name", "created"}) @@ Of("enum", {"table_type"})
              @@ Of("texts", {"column_headers", "rows"}) @@ Of("enums", {"column_types"})
              @@ Of("pairs", {"meta"}) @@ Of("lists", {"dimensions"}))

(* -------------------------------- Payloads ------------------------------ *)

GeneralTaskPayload ==
    Of("asIs", {"title", "description", "agent_name", "created", "notes", "subtask_count"})
    @@ Of("value", {"subtask_type", "subtask_result", "model_type"}) @@ Of("each", {"argument_lists", "meta"})
GeneralTaskUpdate ==
    Of("asIs", {"title", "description", "agent_name", "updated", "notes", "subtask_count"})
    @@ Of("value", {"subtask_type", "model_type"}) @@ Of("each", {"argument_lists", "meta"})

AutomationTaskPayload ==
    Of("value", {"state", "result", "task_type", "model_type"}) @@ Of("asIs", {"created"})
    @@ Of("truthy", {"duration", "general_task_id"}) @@ Of("each", {"arguments", "environment", "metrics"})
AutomationTaskUpdate ==
    Of("value", {"state", "result"}) @@ Of("asIs", {"duration"})
    @@ Of("each", {"arguments", "environment", "metrics"})
RuptureGenerationTaskUpdate ==
    Of("value", {"state", "result"}) @@ Of("asIs", {"duration"})
    @@ Of("each", {"arguments", "environment", "metrics"})
StrongMotionStationPayload ==
    Of("asIs", {"site_code", "Vs30_mean", "Vs30_std_dev", "liquefiable", "bedrock_encountered",
                "soft_clay_or_peat", "created", "updated"})
    @@ Of("value", {"site_class", "site_class_basis"})
OpenquakeHazardConfigPayload ==
    Of("asIs", {"created"}) @@ Of("str", {"template_archive"}) @@ Of("strs", {"source_models"})
OpenquakeHazardSolutionPayload ==
    Of("asIs", {"created"}) @@ Of("value", {"task_type"}) @@ Of("str", {"produced_by"})
    @@ Of("truthy", {"csv_archive", "hdf5_archive", "task_args"})
    @@ Of("each", {"metrics", "meta", "predecessors"})
OpenquakeHazardTaskPayload ==
    Of("value", {"state", "result", "task_type", "model_type"})
    @@ Of("asIs", {"created", "duration", "executor", "srm_logic_tree", "gmcm_logic_tree", "openquake_config"})
    @@ Of("each", {"arguments", "environment", "metrics"}) @@ Of("truthy", {"hazard_solution", "config"})
\* Mutant: an argument of the update is left out of its payload.
WithoutExecutor ==
    Of("value", {"state", "result"}) @@ Of("asIs", {"duration"})
    @@ Of("each", {"arguments", "environment", "metrics"}) @@ Of("truthy", {"hazard_solution"})
OpenquakeHazardTaskUpdate ==
    Of("value", {"state", "result"}) @@ Of("asIs", {"duration", "executor"})
    @@ Of("each", {"arguments", "environment", "metrics"}) @@ Of("truthy", {"hazard_solution"})
FilePayload ==
    Of("asIs", {"file_name", "md5_digest", "file_size", "created"}) @@ Of("each", {"meta", "predecessors"})
SmsFilePayload ==
    Of("asIs", {"file_name", "md5_digest", "file_size", "created"}) @@ Of("value", {"file_type"})
RuptureSetPayload ==
    Of("asIs", {"file_name", "md5_digest", "file_size", "created", "fault_models"})
    @@ Of("str", {"produced_by"}) @@ Of("each", {"meta", "metrics"})
InversionSolutionPayload ==
    Of("asIs", {"file_name", "md5_digest", "file_size", "created"}) @@ Of("truthy", {"produced_by"})
    @@ Of("each", {"meta", "metrics", "tables", "predecessors"})
ScaledInversionSolutionPayload ==
    Of("asIs", {"file_name", "md5_digest", "file_size", "created"}) @@ Of("truthy", {"produced_by"})
    @@ Of("str", {"source_solution"}) @@ Of("each", {"meta", "predecessors"})
AggregateInversionSolutionPayload ==
    Of("asIs", {"file_name", "md5_digest", "file_size", "created"}) @@ Of("truthy", {"produced_by"})
    @@ Of("str", {"common_rupture_set"}) @@ Of("allStrs", {"source_solutions"})
    @@ Of("value", {"aggregation_fn"}) @@ Of("each", {"meta", "predecessors"})
TimeDependentInversionSolutionPayload ==
    Of("asIs", {"file_name", "md5_digest", "file_size", "created"}) @@ Of("truthy", {"produced_by"})
    @@ Of("str", {"source_solution"}) @@ Of("each", {"meta", "predecessors"})
InversionSolutionNrmlPayload ==
    Of("asIs", {"file_name", "md5_digest", "file_size", "created"}) @@ Of("truthy", {"source_solution"})
    @@ Of("each", {"meta", "predecessors"})
TablePayload ==
    Of("str", {"object_id"}) @@ Of("asIs", {"name", "created", "column_headers", "rows"})
    @@ Of("value", {"table_type"}) @@ Of("each", {"column_types", "meta", "dimensions"})

(* ------------------- Fields from_dict hands to the type ----------------- *)

GeneralTaskReads ==
    {"title", "description", "agent_name", "created", "updated", "notes", "subtask_count", "subtask_type",
     "subtask_result", "model_type", "argument_lists", "meta", "files", "children", "parents"}
AutomationTaskReads ==
    {"state", "result", "task_type", "model_type", "created", "duration", "arguments", "environment",
     "metrics", "general_task_id", "files", "parents", "children"}
RuptureGenerationTaskReads ==
    {"state", "result", "task_type", "model_type", "created", "duration", "arguments", "environment",
     "metrics", "general_task_id", "files", "parents", "children"}
StrongMotionStationReads ==
    {"site_code", "site_class", "site_class_basis", "Vs30_mean", "Vs30_std_dev", "liquefiable",
     "bedrock_encountered", "soft_clay_or_peat", "created", "updated", "files"}
OpenquakeHazardConfigReads == {"created", "source_models", "template_archive"}
OpenquakeHazardSolutionReads ==
    {"created", "task_type", "metrics", "meta", "produced_by", "csv_archive", "hdf5_archive", "task_args",
     "config", "modified_config", "predecessors"}
OpenquakeHazardTaskReads ==
    AutomationTaskReads
        \union {"executor", "srm_logic_tree", "gmcm_logic_tree", "openquake_config", "hazard_solution", "config"}
FileReads == {"file_name", "md5_digest", "file_size", "meta", "created", "relations", "predecessors"}
SmsFileReads == {"file_name", "md5_digest", "file_size", "file_type", "created", "meta", "relations"}
RuptureSetReads ==
    {"file_name", "md5_digest", "file_size", "created", "meta", "fault_models", "metrics", "produced_by",
     "relations"}
InversionSolutionReads ==
    {"file_name", "md5_digest", "file_size", "meta", "created", "metrics", "tables", "produced_by",
     "relations", "predecessors"}
ScaledInversionSolutionReads ==
    {"file_name", "md5_digest", "file_size", "meta", "created", "metrics", "tables", "produced_by",
     "source_solution", "relations", "predecessors"}
AggregateInversionSolutionReads ==
    {"file_name", "md5_digest", "file_size", "meta", "created", "metrics", "aggregation_fn", "tables",
     "produced_by", "common_rupture_set", "source_solutions", "relations", "predecessors"}
TimeDependentInversionSolutionReads ==
    {"file_name", "md5_digest", "file_size", "meta", "created", "metrics", "tables", "produced_by",
     "source_solution", "relations", "predecessors"}
InversionSolutionNrmlReads ==
    {"file_name", "md5_digest", "file_size", "meta", "created", "source_solution", "predecessors", "relations"}
TableReads ==
    {"object_id", "name", "created", "column_headers", "column_types", "rows", "meta", "table_type",
     "dimensions"}

(* --------------------------- Mutations and types ------------------------ *)

\* The create of each class: its arguments, payload, stored model and reader.
Type(input, payload, data, reads) ==
    [input |-> input, payload |-> payload, data |-> data, reads |-> reads]

Types == [
    GeneralTask |-> Type(CreateGeneralTaskInput, GeneralTaskPayload, GeneralTaskData, GeneralTaskReads),
    AutomationTask |-> Type(CreateAutomationTaskInput, AutomationTaskPayload, AutomationTaskData, AutomationTaskReads),
    RuptureGenerationTask |->
        Type(CreateAutomationTaskInput, AutomationTaskPayload, AutomationTaskData, RuptureGenerationTaskReads),
    StrongMotionStation |->
        Type(CreateStrongMotionStationInput, StrongMotionStationPayload, StrongMotionStationData, StrongMotionStationReads),
    OpenquakeHazardConfig |->
        Type(CreateOpenquakeHazardConfigInput, OpenquakeHazardConfigPayload, OpenquakeHazardConfigData, OpenquakeHazardConfigReads),
    OpenquakeHazardSolution |->
        Type(CreateOpenquakeHazardSolutionInput, OpenquakeHazardSolutionPayload, OpenquakeHazardSolutionData, OpenquakeHazardSolutionReads),
    OpenquakeHazardTask |->
        Type(CreateOpenquakeHazardTaskInput, OpenquakeHazardTaskPayload, OpenquakeHazardTaskData, OpenquakeHazardTaskReads),
    File |-> Type(CreateFileArguments, FilePayload, ToshiFileData, FileReads),
    SmsFile |-> Type(CreateSmsFileInput, SmsFilePayload, SmsFileData, SmsFileReads),
    RuptureSet |-> Type(CreateRuptureSetInput, RuptureSetPayload, RuptureSetData, RuptureSetReads),
    InversionSolution |->
        Type(CreateInversionSolutionInput, InversionSolutionPayload, InversionSolutionData, InversionSolutionReads),
    ScaledInversionSolution |->
        Type(CreateScaledInversionSolutionInput, ScaledInversionSolutionPayload, ScaledInversionSolutionData, ScaledInversionSolutionReads),
    AggregateInversionSolution |->
        Type(CreateAggregateInversionSolutionInput, AggregateInversionSolutionPayload, AggregateInversionSolutionData, AggregateInversionSolutionReads),
    TimeDependentInversionSolution |->
        Type(CreateTimeDependentInversionSolutionInput, TimeDependentInversionSolutionPayload, TimeDependentInversionSolutionData, TimeDependentInversionSolutionReads),
    InversionSolutionNrml |->
        Type(CreateInversionSolutionNrmlInput, InversionSolutionNrmlPayload, InversionSolutionNrmlData, InversionSolutionNrmlReads),
    Table |-> Type(CreateTableInput, TablePayload, TableData, TableReads)]

\* The four updates; each reads its answer as the class it is named for.
Updates == [
    GeneralTask |-> [input |-> UpdateGeneralTaskInput, payload |-> GeneralTaskUpdate],
    AutomationTask |-> [input |-> UpdateAutomationTaskInput, payload |-> AutomationTaskUpdate],
    RuptureGenerationTask |-> [input |-> UpdateAutomationTaskInput, payload |-> RuptureGenerationTaskUpdate],
    OpenquakeHazardTask |-> [input |-> UpdateOpenquakeHazardTaskInput, payload |-> OpenquakeHazardTaskUpdate]]

(* ------------------------------- Dispatch ------------------------------- *)

\* dispatch_search: a plain file for a class the registry lacks ("File" and
\* "Table" among them; the class ToshiFile has the GraphQL name File).
Registry ==
    ThingClasses \union
    {"SmsFile", "RuptureSet", "InversionSolution", "ScaledInversionSolution", "AggregateInversionSolution",
     "TimeDependentInversionSolution", "InversionSolutionNrml"}
DispatchSearch == [c \in Classes |-> IF c \in Registry THEN c ELSE "File"]

FileClazzNames ==
    {"SmsFile", "RuptureSet", "InversionSolution", "ScaledInversionSolution", "AggregateInversionSolution",
     "TimeDependentInversionSolution", "InversionSolutionNrml"}
\* Mutant: a class left out of the file dispatch.
NoRuptureSets == [c \in Classes |-> IF c \in FileClazzNames \ {"RuptureSet"} THEN c ELSE "File"]
DispatchFile == [c \in Classes |-> IF c \in FileClazzNames THEN c ELSE "File"]

ThingClazzNames ==
    {"RuptureGenerationTask", "AutomationTask", "StrongMotionStation", "OpenquakeHazardTask",
     "OpenquakeHazardSolution", "OpenquakeHazardConfig"}
DispatchThing == [c \in Classes |-> IF c \in ThingClazzNames THEN c ELSE "GeneralTask"]

DispatchSourceSolution == [c \in Classes |->
    IF c \in {"ScaledInversionSolution", "AggregateInversionSolution", "TimeDependentInversionSolution"}
    THEN c ELSE "InversionSolution"]
DispatchNrml == [c \in Classes |-> IF c = "InversionSolutionNrml" THEN c ELSE "File"]
DispatchAutomationTask ==
    [c \in Classes |-> IF c = "RuptureGenerationTask" THEN c ELSE "AutomationTask"]

SolutionClasses ==
    {"InversionSolution", "ScaledInversionSolution", "AggregateInversionSolution",
     "TimeDependentInversionSolution"}

\* The members of the unions of the schema.
SearchResult == ThingClasses \union FileClasses
FileUnion == FileClasses
ThingUnion == ThingClasses
ChildTaskUnion == ThingClasses \ {"OpenquakeHazardConfig"}
PredecessorUnion == {"File", "InversionSolutionNrml"} \union SolutionClasses

\* A read path: the store it fetches from, the class it builds of an object of
\* class c, and the classes its GraphQL type may be.
Path(store, shows, declared) == [store |-> store, shows |-> shows, declared |-> declared]
Only(store, class) == Path(store, [c \in Classes |-> class], {class})

\* FileRelation.file and thing, TaskTaskRelation.child and parent.
RelationPaths == [
    relation_file |-> Path(FileClasses, DispatchFile, FileUnion),
    relation_thing |-> Path(ThingClasses, DispatchThing, ThingUnion),
    relation_child |-> Path(ThingClasses, DispatchThing, ChildTaskUnion),
    relation_parent |-> Only(ThingClasses, "GeneralTask")]
\* The fields of the object types that hold the id of another object.
ReferencePaths == [
    source_solution |-> Path(FileClasses, DispatchSourceSolution, SolutionClasses),
    source_models |-> Path(FileClasses, DispatchNrml, {"File", "InversionSolutionNrml"}),
    produced_by |-> Path(ThingClasses, DispatchAutomationTask, {"RuptureGenerationTask", "AutomationTask"}),
    predecessor |-> Path(FileClasses, DispatchFile, PredecessorUnion),
    rupture_set_produced_by |-> Only(ThingClasses, "RuptureGenerationTask"),
    time_dependent_source |-> Only(FileClasses, "InversionSolution"),
    common_rupture_set |-> Only(FileClasses, "RuptureSet"),
    hazard_produced_by |-> Only(ThingClasses, "OpenquakeHazardTask"),
    hazard_solution |-> Only(ThingClasses, "OpenquakeHazardSolution"),
    hazard_config |-> Only(ThingClasses, "OpenquakeHazardConfig"),
    archive |-> Only(FileClasses, "File"),
    table |-> Only({"Table"}, "Table")]
Paths == RelationPaths @@ ReferencePaths @@ [search |-> Path(Classes, DispatchSearch, SearchResult)]

\* The list queries of the root: one per class, none for Table.
Lists == Classes \ {"Table"}
=============================================================================
