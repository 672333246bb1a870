CONSTANTS
    Ids <- MCIds
    WhepIds <- MCWhepIds
    Endpoints <- MCEndpoints
    Passwords <- MCPasswords
    StoredPassword <- MCStored
    Documents <- MCDocuments
    MaxEdits = 1
    MaxLaunches = 2
SPECIFICATION Spec
INVARIANTS
    RunsCurrentSettings
    StoppedLooksStopped
    NoDanglingViewer
PROPERTIES
    RowsCatchUp
