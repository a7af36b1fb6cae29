\* The gas alarms in the long run.
CONSTANTS
    Readings <- MCGasReadings
    NoReading = none
    NoNotification = empty
    RecordSize = 1
    Slots = 1
SPECIFICATION FairSpec
PROPERTIES
    AlarmsFollowGas
