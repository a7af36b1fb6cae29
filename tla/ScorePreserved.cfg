\* The sensor task overwrites a score written since it peeked.
CONSTANTS
    Consumers = {ui}
    Outputs <- MCOutputs
    Unusable = unusable
    MaxSamples = 2
SPECIFICATION Spec
PROPERTY PredictedScorePreserved
