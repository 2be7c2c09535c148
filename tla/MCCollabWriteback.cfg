\* One session at a time; two runs, two edits, one fault; an evicted room and
\* the one after it.
CONSTANTS
    Rooms = {r1, r2}
    None = None
    MaxSessions = 1
    MaxVerdicts = 2
    MaxEdits = 2
    MaxAccidents = 1
SPECIFICATION FairSpec
INVARIANTS
    TypeOK
    SettlesInAgreement
    EditsKept
PROPERTY Calms
CHECK_DEADLOCK FALSE
