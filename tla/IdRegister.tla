----------------------------- MODULE IdRegister -----------------------------
(***************************************************************************)
(* What id allocation promises its callers (data/ids.py,                   *)
(* data/dynamo.py _atomic_put): a register of issued numbers.  Each create *)
(* is issued at most one number, the number is larger than every number    *)
(* issued before it, and an issued number stays issued, until the counter  *)
(* is put back: from then on the register is void and promises nothing.    *)
(***************************************************************************)
EXTENDS Naturals

CONSTANTS Owners,   \* whoever asks for an id
          Numbers   \* the numbers that can be issued

VARIABLES issued,   \* the [num, owner] pairs issued so far
          void      \* the counter was put back

vars == <<issued, void>>

Fresh(n) == \A i \in issued : i.num < n
Unserved(o) == \A i \in issued : i.owner # o

Init == issued = {} /\ void = FALSE

Issue(o) ==
    /\ ~void
    /\ Unserved(o)
    /\ \E n \in Numbers :
          /\ Fresh(n)
          /\ issued' = issued \union {[num |-> n, owner |-> o]}
    /\ UNCHANGED void

PutBack ==
    /\ ~void
    /\ void' = TRUE
    /\ UNCHANGED issued

\* Whatever happens to the numbers of a void register.
Unpromised == void /\ void'

Next == (\E o \in Owners : Issue(o)) \/ PutBack \/ Unpromised

Spec == Init /\ [][Next]_vars
=============================================================================
