---------------------------- MODULE MCBulkIndex ----------------------------
(***************************************************************************)
(* BulkIndex for TLC: three documents of ordinary size, one that does not  *)
(* fit into a request even alone, and one of a class kept out of the index.*)
(***************************************************************************)
EXTENDS BulkIndex, TLC

CONSTANTS d1, d2, d3, big, config

MCDocs == {d1, d2, d3, big, config}
MCNotIndexed == {config}

\* A request holds two ordinary documents.
MCOversized ==
    {B \in SUBSET MCDocs : Cardinality(B) > 2 \/ big \in B}
=============================================================================
