\* Whole and damaged documents into pools that are large enough and too small.
CONSTANTS
    Documents <- MCDocuments
    Characters <- MCCharacters
    Capacities = {6, 12, 20}
    SlotSize = 3
    NestingLimit = 2
SPECIFICATION Spec
CHECK_DEADLOCK FALSE
INVARIANTS
    UnreadInputStays
    ZonesApart
    ListsApart
    AcceptsClosed
    ReadsWhatWasWritten
    SizedAsDocumented
PROPERTIES
    StringsStay
    StepsRunOut
