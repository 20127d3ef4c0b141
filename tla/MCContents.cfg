CONSTANTS
    Code = Code
    Notes = Notes
    Old = Old
    New = New
    Secret = Secret
    Paths = {Code, Notes}
    Contents = {Old, New, Secret}
    Absent = Absent
    Start <- StartTree
    Unfinished <- UnfinishedTree
    Requested = {Code}
    Creators = {"first"}
    MaxEdits = 2
    MaxAsks = 2
    MaxCrashes = 1
    NoFolder = NoFolder
    NoRow = NoRow
    Forbidden = {Secret}
    Excluded = {}
    Output = New
    ChecksStage = FALSE
    MaxEvents = 5
    MaxPackages = 2
    MaxReleases = 2
    None = None
SPECIFICATION ContentsSpec
CHECK_DEADLOCK FALSE
INVARIANTS
    
    PublishedIsTheChange
