SPECIFICATION FairSpec
CONSTANTS
    Last = 5
    First = 2
    MaxChanges = 2
PROPERTIES
    ImplementsListing
    EveryListingEnds
\* The client stops when there is no more.
CHECK_DEADLOCK FALSE
