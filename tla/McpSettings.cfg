SPECIFICATION SettingsSpec
CONSTANTS
  github = github
  files = files
  s0 = s0
  Key = {github, files}
  AuthType = {"none", "bearer", "oauth_client_credentials"}
  Secret = {s0, s1}
  NoSecret = NoSecret
  Base <- SeedServers
  NoFile = NoFile
  Page = {a, b}
  NoKey = NoKey
  NoResult = NoResult
  NoServer = NoServer
  MaxOps = 3
  MaxInFlight = 2
INVARIANTS SettingsTypeOK PageShowsStore ResultOfTestedServer
PROPERTIES ImplementsRegistry ButtonsComeBack
CHECK_DEADLOCK FALSE
