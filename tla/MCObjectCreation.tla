-------------------------- MODULE MCObjectCreation --------------------------
EXTENDS ObjectCreation

CONSTANTS r1, r2, r3

\* One class per kind of behaviour: a task, a class kept out of the index, a
\* file with an upload, a table.
MCStoreOf ==
    [c \in Classes |->
        CASE c \in {"GeneralTask", "OpenquakeHazardConfig"} -> "Thing"
          [] c = "InversionSolution" -> "File"
          [] c = "Table" -> "Table"]

\* The bounded numbers of the abstract register: one commit per request.
MCNumbers == FirstId .. (FirstId + 3)

Register == INSTANCE IdRegister WITH
    Owners <- Requests,
    Numbers <- MCNumbers,
    issued <- {[num |-> o.num, owner |-> o.owner] : o \in objects},
    void <- rewound

\* Creation implements the abstract id register: a committed transaction
\* issues a fresh larger number to a request that had none, and every other
\* step leaves the issued numbers alone, up to a late seed.
ImplementsRegister == Register!Spec
=============================================================================
