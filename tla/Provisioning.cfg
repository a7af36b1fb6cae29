\* Boot, saving of settings and restarts at any moment.
CONSTANTS
    Settings = {blank, noSsid, wrong, home, office}
    Blank = blank
    NoSsid = {noSsid}
    Working = {home, office}
    NoSettings = nothing
    Absent = absent
    Broken = broken
SPECIFICATION FairSpec
INVARIANTS
    RunsWithStored
    ReleasedByStation
PROPERTIES
    StoreSpec
    OnlineInTheEnd
