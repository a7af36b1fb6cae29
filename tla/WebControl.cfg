\* Two dashboards toggle one relay.
CONSTANTS
    Dashboards = {c1, c2}
    Devices = {fan_relay}
    QueueLimit = 2
    MaxSent = 2
SPECIFICATION FairSpec
INVARIANTS
    Agreement
PROPERTIES
    ControlsSettle
