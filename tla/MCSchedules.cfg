SPECIFICATION MCSpec
CONSTANTS
    Host = {"h1", "h2"}
    Client = {c1}
    Actions = {"backup", "list", "schedule", "unschedule", "schedule-delete", "unschedule-delete", "restore"}
    Keep = 2
    Period = 1
    MaxTime = 2
    MaxOld = 2
    MaxFaults = 1
    DumpClient = {d1, d2}
    Paths = {"plain", "mysqldump"}
    Routine = {r1, r2}
    Job = {j1}
    Msg = {"refused"}
    NoOne = none
    Retention = 1
    MaxDay = 2
    MaxTasks = 2
SYMMETRY Routines
INVARIANTS SchedulesAsAsked DiskOfStopped RestoreIsSound 
PROPERTY NewestKept
CHECK_DEADLOCK FALSE
