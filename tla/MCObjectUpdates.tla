-------------------------- MODULE MCObjectUpdates --------------------------
EXTENDS ObjectUpdates, TLC

CONSTANTS task, subtask, config, solution, r1, r2

MCClazz == [o \in Objects |->
              CASE o = solution -> "ScaledInversionSolution"
                [] o = task     -> "GeneralTask"
                [] o = config   -> "OpenquakeHazardConfig"
                [] OTHER        -> "AutomationTask"]

MCNotIndexed == {"OpenquakeHazardConfig"}

\* Requests differ only in their name, so permuting them is sound for the
\* safety runs.
RequestSymmetry == Permutations(Requests)
=============================================================================
