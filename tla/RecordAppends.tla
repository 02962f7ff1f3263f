---------------------------- MODULE RecordAppends ----------------------------
(***************************************************************************)
(* What a client may expect of mutations of stored records that overlap    *)
(* (data/dynamo.py, models/inversion_solution.py): each one appends its    *)
(* entry to the record atomically, as if nobody else were writing, and at  *)
(* most once.  A relation is two appends, the second side's after the      *)
(* first's.  Nothing else changes a record.  It holds until a mutation     *)
(* puts over a record it has not read: from then on nothing is promised.   *)
(***************************************************************************)
EXTENDS Naturals

CONSTANTS Records,  \* the stored objects
          Writers   \* mutations

VARIABLES content,  \* content[o]: the [part, by] entries of record o
          void      \* a mutation has put over a record it had not read

vars == <<content, void>>

\* The parts of records w has written to, wherever they are.
WrittenBy(w) == {e.part : e \in {f \in UNION {content[o] : o \in Records} : f.by = w}}

\* The part a mutation has written before this one: the other side's.
Prior(part) ==
    CASE part = "relations" -> {"files"}
      [] part = "parents"   -> {"children"}
      [] OTHER              -> {}

Init ==
    /\ \A w \in Writers : WrittenBy(w) = {}
    /\ void = FALSE

Append(w, o, part) ==
    /\ ~void
    /\ WrittenBy(w) = Prior(part)
    /\ content' = [content EXCEPT ![o] = @ \union {[part |-> part, by |-> w]}]
    /\ UNCHANGED void

\* A put over a record that has changed since it was read.
Race == ~void /\ void'

Unpromised == void /\ void'

AppendParts == {"fields", "files", "relations", "children", "parents", "tables"}

Next ==
    \/ \E w \in Writers, o \in Records, part \in AppendParts : Append(w, o, part)
    \/ Race
    \/ Unpromised

Spec == Init /\ [][Next]_vars
=============================================================================
