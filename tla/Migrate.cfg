SPECIFICATION Spec
CONSTANTS
    old = old
    new = new
    edited = edited
    raw = raw
    command = command
    Nobody = Nobody
    Runners = {old, new, edited, raw, command}
    Files <- MCFiles
    Through <- MCThrough
    Legacy <- MCLegacy
    Controls <- MCControls
    Adoptable = 2
PROPERTIES
    MigrateSafety
    EveryRunEnds
CHECK_DEADLOCK FALSE
