SPECIFICATION MCSpec
CONSTANTS
  \* ServerSentEvents
  MaxTotal = 6
  MaxLine = 2
  MaxDataLines = 2
  MaxStream = 5
  MaxChunk = 2
  \* ProviderTransport and its decoders
  OutputIndexes = {0}
  ContentIndexes = {0}
  MaxOutputItems = 1
  MaxContentParts = 1
  MaxOutput = 1
  MaxArguments = 2
  ArgumentUnits = 1
  MaxU64 = 1
  MaxEvents = 8
  MaxExchanges = 3
  StreamEvents = 8
  \* ProviderDiscovery
  u1 = u1
  u2 = u2
  p1 = p1
  p2 = p2
  Users = {u1, u2}
  Profiles = {p1, p2}
  Settings <- MCSettings
  Models = {"m"}
  Released <- MCReleased
  PrimaryDialect = "r"
  Answers <- MCAnswers
  MaxModels = 2
  MaxProfiles = 2
  MaxRevision = 2
  MaxClock = 2
  \* UsageLedger
  MaxTokens = 4
  DayLength = 3
  Days = 2
  Offset <- MCOffset
  Epochs <- MCEpochs
  Contexts <- MCContexts
  Records <- MCRecords
  Agents = {"a"}
  MaxInstant = 1
  MaxTurns = 1
  MaxAttempts = 3
  PageSize = 1
  Span = 2
SYMMETRY MCSymmetry
CHECK_DEADLOCK FALSE
INVARIANTS EventsIgnoreChunking RetryableMeansNoProgress CompletedStreamIsWhole
INVARIANTS ContinuationAnswersLastRun DiscoveryIsSound UsageIsAccounted
