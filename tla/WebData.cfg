\* Each pair of a query and a change that share a table.  Two classes, or a club;
\* a pupil, two saves, and up to two changes of class or day, one thing that others
\* do and one failure meanwhile.
SPECIFICATION MCSpec
CONSTANTS
    Flags = {"TELEGRAM_LOGIN", "PARENT_PORTAL"}
    Pupils = {k1}
    SheetKeys <- MCKeys
    FirstKey <- MCToday
    Unmarked = Unmarked
    Unread = Unread
    Failed = Failed
    NoSheet = NoSheet
    MaxChoices = 2
    MaxSaves = 2
    MaxOthers = 1
    MaxFailures = 1
CHECK_DEADLOCK FALSE
INVARIANT
    OwnChangeShows
PROPERTY
    SavesKeepWhatStands
