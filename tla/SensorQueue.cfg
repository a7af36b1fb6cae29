\* Safety, refinement and liveness of the shared record.
CONSTANTS
    Consumers = {ui, web}
    Outputs <- MCOutputs
    Unusable = unusable
    MaxSamples = 3
SPECIFICATION FairSpec
INVARIANTS
    TypeOK
    NoPhantomAlarm
    NeverBehindClassifier
PROPERTIES
    FeedSpec
    ScoreCatchesUp
    ConsumersConverge
