CONSTANTS
    Home = Home
    Wsl = Wsl
    Paths <- MCPaths
    Remote <- MCRemote
    NoPath = NoPath
    Versions <- MCVersions
    Unreadable <- MCUnreadable
    FirstVersions <- MCFirstVersions
    NoDocuments = NoDocuments
    Readers = {r1, r2}
    MaxEdits = 1
    MaxMoves = 1
SPECIFICATION FairSpec
INVARIANTS
    TypeOK
    SingleWriter
    NoForeignDocuments
    RemoteReadTwiceAtMost
PROPERTIES
    AnnouncementsEnd
    MenuFollowsSource
    PreferencesCatchUp
    InvalidateHonoured
