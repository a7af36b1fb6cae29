\* Framing of the records on their way to the LCD, and what the panel shows.
CONSTANTS
    Readings <- MCReadings
    NoReading = 0
    RecordSize = 3
    Slots = 2
    Columns = 2
    MaxLost = 1
    Glyphs <- MCGlyphs
    MaxRestarts = 1
SPECIFICATION FairOutputSpec
INVARIANTS
    WholeRecords
    ShowsRecord
    NoFlicker
PROPERTIES
    PanelFollows
