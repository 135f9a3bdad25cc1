CONSTANTS
    Home = Home
    Wsl = Wsl
    Paths <- MCPaths
    NoPath = NoPath
    Configured <- MCConfigured
    Native <- MCNative
    Distros <- MCDistros
    SkewMargin = 2
    SkewGuard = 2
    Lifetime = 4
    NoToken = NoToken
    Statuses = {200, 401, 404, 429, 503}
    MaxTime = 6
    MaxChanges = 3
SPECIFICATION Spec
PROPERTIES
    OutageKeepsToken
