\* Start, calibration and sampling, with a sensor that fails and comes back.
CONSTANTS
    BASELINE_SAMPLES = 2
    NoRecord = none
SPECIFICATION FairSpec
INVARIANTS
    RecentAfterCalm
    MutexExists
PROPERTIES
    MutexReturned
    SamplesKeepComing
