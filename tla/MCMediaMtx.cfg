CONSTANTS
    Hosts <- MCHosts
    Names <- MCNames
    Users <- MCUsers
    Passwords <- MCPasswords
    StoredPassword <- MCStoredPassword
    Paths <- MCPaths
    SrtPaths <- MCSrtPaths
    ProtectedPaths <- MCProtectedPaths
    Ports <- MCPorts
    NewServer <- MCNewServer
    ListenPort <- MCListenPort
    ServerLists <- MCServerLists
    Entries <- MCEntries
    MaxServers = 2
    MaxEdits = 1
    MaxPages = 1
    MaxAdded = 1
    Listings <- MCListings
SPECIFICATION Spec
CHECK_DEADLOCK FALSE
INVARIANTS
    TypeOK
    SettledRowsReachTheirServer
    ProtectedPathsCarryCredentials
PROPERTIES FetchEnds QuitCompletes
