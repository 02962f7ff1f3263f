---------------------------- MODULE CursorListing ----------------------------
(***************************************************************************)
(* What a client that follows endCursor while hasNextPage is true may      *)
(* expect of object_identities: no id twice, and at the end every id that  *)
(* was in the listing all the time.                                        *)
(***************************************************************************)
EXTENDS Naturals, FiniteSets

CONSTANT Ids

VARIABLES
    stable,  \* ids in the listing since the client asked for its first page
    given,   \* ids the client has been given
    edges,   \* edges it has been given
    done     \* the client was told there are no more

listingVars == <<stable, given, edges, done>>

Init ==
    /\ stable \subseteq Ids
    /\ given = {}
    /\ edges = 0
    /\ done = FALSE

\* An id leaves the listing.
Leave == stable' \subseteq stable /\ UNCHANGED <<given, edges, done>>

Page ==
    /\ ~done
    /\ \E ids \in SUBSET (Ids \ given) :
          /\ given' = given \union ids
          /\ edges' = edges + Cardinality(ids)
    /\ done' \in BOOLEAN
    /\ done' => stable \subseteq given'
    /\ UNCHANGED stable

Next == Leave \/ Page

Spec == Init /\ [][Next]_listingVars
=============================================================================
