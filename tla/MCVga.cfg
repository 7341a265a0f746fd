CONSTANTS
    Cpus = {"c0", "c1"}
    Height = 3
    Width = 2
    MaxPrints = 4
    Messages <- MCMessages
    Bsp = "c0"
    BiosCursor <- MCBiosCursor
    Announcement <- MCAnnouncement
SPECIFICATION Spec
INVARIANTS
    TypeOK
    ScreenShowsTail
    CursorAtEnd
    MessagesWhole
\* The number of messages is bounded.
CHECK_DEADLOCK FALSE
