\* The controller, its actuators and the LCD together.
CONSTANTS
    Readings <- MCReadings
    NoReading = none
    NoNotification = empty
    RecordSize = 1
    Slots = 1
SPECIFICATION Spec
INVARIANTS
    LastNotificationWins
    AlarmsAgree
